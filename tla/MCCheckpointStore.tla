------------------------- MODULE MCCheckpointStore -------------------------
(* CheckpointStore for TLC: model values and numbers, given in the cfg file. *)
EXTENDS CheckpointStore
=============================================================================
