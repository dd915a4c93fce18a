------------------------------- MODULE Deque --------------------------------
(***************************************************************************)
(* collections.deque(maxlen=max) as the incident ledger and the mitigation  *)
(* stack use it: appending to a full deque silently drops the oldest item.  *)
(***************************************************************************)
EXTENDS Naturals, Sequences

(* Mutation: the deque was made without a maxlen. *)
AppendUnbounded(deque, item, max) == Append(deque, item)

AppendRight(deque, item, max) ==
    IF Len(deque) < max THEN Append(deque, item) ELSE Append(Tail(deque), item)

PopRight(deque) == SubSeq(deque, 1, Len(deque) - 1)

=============================================================================
