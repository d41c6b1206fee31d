---------------------------- MODULE MCTransport ----------------------------
(* Transport for TLC: its constants are numbers, given in the cfg files. *)
EXTENDS Transport
=============================================================================
