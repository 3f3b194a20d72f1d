--------------------------- MODULE MCOutboxDispatch ---------------------------
(* Small instances of OutboxDispatch. *)
EXTENDS OutboxDispatch

MCBackoff == [e \in 0..10 |-> IF e < 2 THEN 1 ELSE 2]
=============================================================================
