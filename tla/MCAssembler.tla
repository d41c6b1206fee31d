---------------------------- MODULE MCAssembler ----------------------------
(* Instances of Assembler for TLC. *)
EXTENDS Assembler
=============================================================================
