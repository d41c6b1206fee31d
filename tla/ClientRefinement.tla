-------------------------- MODULE ClientRefinement --------------------------
(***************************************************************************)
(* The Client keeps the promise of AtLeastOnce as long as no reconnect     *)
(* keeps transactions of the old connection in the queue.  A transaction   *)
(* is owed when the slot sees it, processed when it has had an effect and  *)
(* released when PostgreSQL would skip it if the client started over now.  *)
(***************************************************************************)
EXTENDS Client

OwedNow == {t \in Tx : Visible(t)}
ProcessedNow == {t \in Tx : Processed(t)}
ReleasedNow == {t \in Covered(ResumeLsn) : Visible(t)}

Delivery == INSTANCE AtLeastOnce WITH
    Transactions <- Tx,
    owed <- OwedNow,
    processed <- ProcessedNow,
    released <- ReleasedNow,
    voided <- stale

(* Every step of the client is a step of at-least-once delivery: whatever
   crashes, drops, exceptions and shutdowns happen, effects come in commit order
   and neither the checkpoint nor a status update runs ahead of them, until a
   reconnect keeps a stale queue (README.md of walbox: at-least-once, in commit
   order). *)
ImplementsAtLeastOnce == Delivery!Spec
=============================================================================
