------------------------- MODULE MCConcurrentAlloc -------------------------
(* Two threads whose spans come from one shard or from two.                  *)
EXTENDS ConcurrentAlloc

CONSTANTS t1, t2

MCAssignments == {[t \in Threads |-> 1], [t \in Threads |-> IF t = t1 THEN 1 ELSE 2]}
MCApart == {[t \in Threads |-> IF t = t1 THEN 0 ELSE 1]}
=============================================================================
