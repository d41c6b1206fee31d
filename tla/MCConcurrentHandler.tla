------------------------ MODULE MCConcurrentHandler ------------------------
(* Instances of ConcurrentHandler for TLC. *)
EXTENDS ConcurrentHandler

\* Entities a and b share no shard; c shares the shard of a.
MCShardOf == [a |-> 0, b |-> 1, c |-> 0]
MCInserts == <<<<"a", "a">>, <<"c", "b">>, <<"a">>>>

OneOfEach == [k \in Faults |-> 1]
TwoDrops == [OneOfEach EXCEPT !["drop"] = 2]
=============================================================================
