----------------------------- MODULE MCDecoder -----------------------------
(* Instances of Decoder for TLC. *)
EXTENDS Decoder

(* A table, the same table with a column replaced by another one, and renamed,
   altered to REPLICA IDENTITY FULL and given a third column. *)
MCLayouts ==
    {[name |-> "t", columns |-> <<"id", "a">>, keys |-> {"id"}, full |-> FALSE],
     [name |-> "t", columns |-> <<"id", "b">>, keys |-> {"id"}, full |-> FALSE],
     [name |-> "u", columns |-> <<"id", "b", "a">>, keys |-> {"id"}, full |-> TRUE]}
=============================================================================
