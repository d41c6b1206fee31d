------------------------------ MODULE MCClient ------------------------------
(* Instances of Client for TLC. *)
EXTENDS ClientRefinement

\* Adjacent commit records of one, two and one WAL positions.
MCCommitStart == [t \in Tx |-> <<1, 2, 4>>[t]]
MCEndLsn == [t \in Tx |-> <<2, 4, 5>>[t]]

\* Budgets: how often each kind of fault happens in a run.
NoFaults == [k \in Faults |-> 0]
AllFaults == [k \in Faults |-> 1]
SinkFaults == [NoFaults EXCEPT !["crash"] = 2, !["drop"] = 1, !["close"] = 1]
OneDrop == [NoFaults EXCEPT !["drop"] = 1]

\* A handler may try to save any position, its own or another's.
AnyLsn == 0..4
NoLsn == {}
=============================================================================
