------------------------------- MODULE Client -------------------------------
(***************************************************************************)
(* The replication client of walbox (walbox/client.py) with everything its *)
(* delivery guarantee depends on: the receiver and consumer tasks, the     *)
(* queue between them, the checkpoint a handler saves, the feedback sent   *)
(* to PostgreSQL, the reconnect loop, shutdown, and crashes and restarts   *)
(* of the process.                                                         *)
(*                                                                         *)
(* PostgreSQL is external.  A transaction is its position in commit order; *)
(* its commit record occupies the WAL positions CommitStart[t] up to, but  *)
(* not including, EndLsn[t].  A walsender started at position p skips      *)
(* exactly the transactions whose commit record starts before p.           *)
(*                                                                         *)
(* The chunks of large in-progress transactions are modelled in Assembler. *)
(***************************************************************************)
EXTENDS Integers, Sequences

CONSTANTS
    N,              \* transactions the publisher commits
    CommitStart,    \* WAL position where each commit record starts
    EndLsn,         \* WAL position just after each commit record
    MaxPending,     \* options.max_pending_transactions (0: unbounded)
    SaveModes,      \* how handlers save: "adhoc", "connection" or both
    SaveLsns,       \* LSNs a handler may try to save besides its own
    MaySkipSave,    \* a handler may return without saving
    Budget,         \* how often each kind of fault happens
    InitialBackoff, \* _INITIAL_BACKOFF
    MaxBackoff      \* _MAX_BACKOFF

Tx == 1..N
NoTx == 0
NoSlot == -1
NoCheckpoint == -1
Faults == {"crash", "drop", "raise", "refuse", "outage", "close"}

ASSUME NAssumption == N \in Nat
ASSUME WalAssumption ==
    /\ CommitStart \in [Tx -> Nat \ {0}]
    /\ EndLsn \in [Tx -> Nat]
    /\ \A t \in Tx : CommitStart[t] < EndLsn[t]
    /\ \A t, u \in Tx : t < u => EndLsn[t] <= CommitStart[u]
ASSUME OptionsAssumption ==
    /\ MaxPending \in Nat
    /\ SaveModes \subseteq {"adhoc", "connection"}
    /\ SaveLsns \subseteq Nat
    /\ MaySkipSave \in BOOLEAN
    /\ Budget \in [Faults -> Nat]
ASSUME BackoffAssumption ==
    /\ InitialBackoff \in Nat \ {0}
    /\ MaxBackoff \in Nat
    /\ InitialBackoff <= MaxBackoff

VARIABLES
    \* PostgreSQL
    committed,       \* transactions 1..committed are committed
    slot_from,       \* the slot decodes only what commits after this one
    confirmed_flush, \* the slot's confirmed_flush_lsn
    cursor,          \* next transaction the walsender sends
    wal_open,        \* the walsender has sent its Begin and not its Commit
    \* durable state of the application
    checkpoint,      \* the checkpoint row
    effects,         \* how often each transaction's effect was applied
    \* Client
    phase,           \* where run and _run_once stand
    failure,         \* the exception that ended run
    closing,         \* _closing
    start_lsn,       \* argument of START_REPLICATION
    durable_lsn,     \* _durable_lsn
    next_backoff,    \* _next_backoff
    current_xid,     \* _assembler._current_xid
    queue,           \* _queue
    recv,            \* where the receiver task stands
    blocked,         \* the transaction whose put() waits for room
    cons,            \* where the consumer task stands
    inflight,        \* the transaction the handler was called with
    saving,          \* the LSN being saved
    \* history
    delivered,       \* transactions some handler call was made for
    stale,           \* a reconnect kept transactions of the old connection
    faults           \* faults so far

pgVars == <<committed, slot_from, confirmed_flush, cursor, wal_open>>
appVars == <<checkpoint, effects, delivered>>
runVars == <<phase, failure, closing, start_lsn, durable_lsn, next_backoff>>
taskVars == <<current_xid, queue, recv, blocked, cons, inflight, saving>>
histVars == <<stale, faults>>
vars == <<pgVars, appVars, runVars, taskVars, histVars>>

Handling == {"called", "effected", "committed", "uncommitted", "saved"}
Live == {"load", "connect", "slot", "start", "running", "endcopy", "backoff"}

MaxOf(a, b) == IF a < b THEN b ELSE a
MinOf(a, b) == IF a < b THEN a ELSE b

\* Mutant: the end of the commit record without the - 1.
CommitLsnUnadjusted(t) == EndLsn[t]

\* What TransactionAssembler._build_transaction reports as commit_lsn.
CommitLsn(t) == EndLsn[t] - 1

\* The transactions a position lets PostgreSQL skip.
Covered(pos) == {t \in Tx : CommitStart[t] < pos}

-----------------------------------------------------------------------------
(* PostgreSQL *)

\* The end of the WAL, where a new slot starts.
InsertLsn == IF committed = 0 THEN 1 ELSE EndLsn[committed]

\* An application commits a transaction on the published tables.
CommitTx ==
    /\ committed < N
    /\ committed' = committed + 1
    /\ UNCHANGED <<slot_from, confirmed_flush, cursor, wal_open,
                   appVars, runVars, taskVars, histVars>>

\* Mutant: the + 1 applied twice.
StatusFlushTwice == durable_lsn + 2

\* encode_standby_status_update adds 1 to the flushed position.
StatusFlush == durable_lsn + 1

(* _send_status_update: PostgreSQL takes the flushed position as the slot's
   confirmed_flush_lsn.  Recent versions never move it backwards, older ones
   do. *)
SendStatus ==
    confirmed_flush' \in {StatusFlush, MaxOf(confirmed_flush, StatusFlush)}

-----------------------------------------------------------------------------
(* Starting, failing and restarting *)

Fault(k) ==
    /\ faults[k] < Budget[k]
    /\ faults' = [faults EXCEPT ![k] = @ + 1]

\* The tasks of a connection are gone: none runs, the queue is kept.
TasksGone ==
    /\ recv' = "idle"
    /\ blocked' = NoTx
    /\ cons' = "idle"
    /\ inflight' = NoTx
    /\ saving' = 0

\* A transaction left open on the caller's connection rolls back; a walsender
\* whose connection is gone sends nothing.
ConnectionGone ==
    /\ TasksGone
    /\ wal_open' = FALSE
    /\ UNCHANGED <<committed, slot_from, confirmed_flush, cursor>>

\* An exception other than ReplicationConnectionError ends run.
RunFails(why) ==
    /\ phase' = "failed"
    /\ failure' = why

\* run catches ReplicationConnectionError and waits, unless close() was called.
RunRetries ==
    /\ phase' = IF closing THEN "stopped" ELSE "backoff"
    /\ UNCHANGED failure

\* The process starts with a fresh Client and calls run.
StartProcess ==
    /\ phase \in {"down", "failed", "stopped"}
    /\ phase' = "load"
    /\ failure' = "none"
    /\ closing' = FALSE
    /\ start_lsn' = 0
    /\ durable_lsn' = 0
    /\ next_backoff' = InitialBackoff
    /\ current_xid' = NoTx
    /\ queue' = <<>>
    /\ UNCHANGED <<pgVars, appVars, recv, blocked, cons, inflight, saving,
                   histVars>>

\* The process is killed at any point.
Crash ==
    /\ phase \in Live
    /\ Fault("crash")
    /\ phase' = "down"
    /\ ConnectionGone
    /\ UNCHANGED <<appVars, failure, closing, start_lsn, durable_lsn,
                   next_backoff, current_xid, queue, stale>>

\* Mutant: without a checkpoint replication starts at the end of the WAL.
LoadCheckpointFromEnd ==
    /\ phase = "load"
    /\ start_lsn' = IF checkpoint = NoCheckpoint THEN InsertLsn ELSE checkpoint + 1
    /\ durable_lsn' = MaxOf(checkpoint, 0)
    /\ phase' = "connect"
    /\ UNCHANGED <<pgVars, appVars, failure, closing, next_backoff, taskVars,
                   histVars>>

\* Mutant: replication starts at the checkpoint, not after it.
LoadCheckpointInclusive ==
    /\ phase = "load"
    /\ start_lsn' = MaxOf(checkpoint, 0)
    /\ durable_lsn' = 0
    /\ phase' = "connect"
    /\ UNCHANGED <<pgVars, appVars, failure, closing, next_backoff, taskVars,
                   histVars>>

\* _run_once reads the checkpoint and derives the start position.
LoadCheckpoint ==
    /\ phase = "load"
    /\ IF checkpoint = NoCheckpoint
       THEN /\ start_lsn' = 0
            /\ durable_lsn' = 0
       ELSE /\ start_lsn' = checkpoint + 1
            /\ durable_lsn' = checkpoint
    /\ phase' = "connect"
    /\ UNCHANGED <<pgVars, appVars, failure, closing, next_backoff, taskVars,
                   histVars>>

\* Mutant: the delay is reset by a connection, not by a subscription.
ConnectResets ==
    /\ phase = "connect"
    /\ phase' = "slot"
    /\ next_backoff' = InitialBackoff
    /\ UNCHANGED <<pgVars, appVars, failure, closing, start_lsn, durable_lsn,
                   taskVars, histVars>>

Connect ==
    /\ phase = "connect"
    /\ phase' = "slot"
    /\ UNCHANGED <<pgVars, appVars, failure, closing, start_lsn, durable_lsn,
                   next_backoff, taskVars, histVars>>

\* create_slot_if_missing: an existing slot is left as it is.
CreateSlotIfMissing ==
    /\ phase = "slot"
    /\ phase' = "start"
    /\ IF slot_from = NoSlot
       THEN /\ slot_from' = committed
            /\ confirmed_flush' = InsertLsn
       ELSE UNCHANGED <<slot_from, confirmed_flush>>
    /\ UNCHANGED <<committed, cursor, wal_open, appVars, failure, closing,
                   start_lsn, durable_lsn, next_backoff, taskVars, histVars>>

\* The first transaction a walsender started at pos sends.
FirstSent(c, pos) ==
    /\ c > slot_from
    /\ \A t \in Tx : t > slot_from => (t < c <=> t \in Covered(pos))

(* start_replication, then _run_once creates the two tasks.  A receiver that
   finds close() already called returns at once.  PostgreSQL starts at the
   later of the requested position and the slot's own. *)
StartReplication ==
    /\ phase = "start"
    /\ phase' = "running"
    /\ \E c \in 1..(N + 1) :
          /\ FirstSent(c, MaxOf(start_lsn, confirmed_flush))
          /\ cursor' = c
    /\ wal_open' = FALSE
    /\ next_backoff' = InitialBackoff
    /\ recv' = IF closing THEN "done" ELSE "read"
    /\ cons' = "get"
    /\ UNCHANGED <<committed, slot_from, confirmed_flush, appVars, failure,
                   closing, start_lsn, durable_lsn, current_xid, queue,
                   blocked, inflight, saving, histVars>>

\* connect, create_slot_if_missing or start_replication is refused: the
\* server answers with an error, or connect cannot reach it.
AttemptRefused ==
    /\ phase \in {"connect", "slot", "start"}
    /\ Fault("refuse")
    /\ RunRetries
    /\ UNCHANGED <<pgVars, appVars, closing, start_lsn, durable_lsn,
                   next_backoff, taskVars, stale>>

(* The server goes away under checkpoint_store.load(), or under the
   consume_input() with which create_slot_if_missing and start_replication
   wait for their result: neither wraps the driver's OperationalError. *)
AttemptBreaks ==
    /\ phase \in {"load", "slot", "start"}
    /\ Fault("outage")
    /\ RunFails("OperationalError")
    /\ UNCHANGED <<pgVars, appVars, closing, start_lsn, durable_lsn,
                   next_backoff, taskVars, stale>>

\* Mutant: the delay is not capped.
NextBackoffUncapped(current) == current * 2

NextBackoffValue(current) == MinOf(current * 2, MaxBackoff)

\* _reconnect_delay ends and run tests _closing again.
ReconnectDelay ==
    /\ phase = "backoff"
    /\ next_backoff' = NextBackoffValue(next_backoff)
    /\ phase' = IF closing THEN "stopped" ELSE "load"
    /\ UNCHANGED <<pgVars, appVars, failure, closing, start_lsn, durable_lsn,
                   taskVars, histVars>>

(* The receiver meets a dead connection: its exception cancels the consumer
   and the handler call in progress.  The queue and the assembler outlive the
   connection. *)
ConnectionLost ==
    /\ phase = "running"
    /\ recv \in {"read", "put"}
    /\ Fault("drop")
    /\ RunRetries
    /\ ConnectionGone
    /\ stale' = (stale \/ queue # <<>>)
    /\ UNCHANGED <<appVars, closing, start_lsn, durable_lsn, next_backoff,
                   current_xid, queue>>

-----------------------------------------------------------------------------
(* The receiver task *)

\* _receive_loop tests _closing between two frames.
NextFrame == recv' = IF closing THEN "done" ELSE "read"

\* A frame with a Begin: the assembler refuses it when a transaction is open.
ReceiveBegin ==
    /\ phase = "running"
    /\ recv = "read"
    /\ ~wal_open
    /\ cursor <= committed
    /\ IF current_xid # NoTx
       THEN /\ RunFails("ProtocolError")
            /\ ConnectionGone
            /\ UNCHANGED current_xid
       ELSE /\ wal_open' = TRUE
            /\ current_xid' = cursor
            /\ NextFrame
            /\ UNCHANGED <<committed, slot_from, confirmed_flush, cursor, phase,
                           failure, blocked, cons, inflight, saving>>
    /\ UNCHANGED <<appVars, closing, start_lsn, durable_lsn, next_backoff,
                   queue, histVars>>

\* Mutant: the queue counts as full one transaction early.
FullEarly == MaxPending > 0 /\ Len(queue) + 1 >= MaxPending

Full == MaxPending > 0 /\ Len(queue) >= MaxPending

(* A frame with a Commit completes the transaction and _enqueue takes it over:
   put_nowait, or a put() that waits while the queue is full.  A queue that
   was shut down refuses it and the receiver returns. *)
ReceiveCommit ==
    /\ phase = "running"
    /\ recv = "read"
    /\ wal_open
    /\ wal_open' = FALSE
    /\ cursor' = cursor + 1
    /\ current_xid' = NoTx
    /\ \/ /\ closing
          /\ recv' = "done"
          /\ UNCHANGED <<queue, blocked>>
       \/ /\ ~closing /\ ~Full
          /\ queue' = Append(queue, cursor)
          /\ UNCHANGED <<recv, blocked>>
       \/ /\ ~closing /\ Full
          /\ recv' = "put"
          /\ blocked' = cursor
          /\ UNCHANGED queue
    /\ UNCHANGED <<committed, slot_from, confirmed_flush, appVars, runVars,
                   cons, inflight, saving, histVars>>

\* The waiting put() completes, or was refused by the shutdown.
PutCompletes ==
    /\ phase = "running"
    /\ recv = "put"
    /\ \/ /\ closing
          /\ recv' = "done"
          /\ UNCHANGED queue
       \/ /\ ~closing /\ ~Full
          /\ queue' = Append(queue, blocked)
          /\ recv' = "read"
    /\ blocked' = NoTx
    /\ UNCHANGED <<pgVars, appVars, runVars, current_xid, cons, inflight,
                   saving, histVars>>

\* A keepalive frame, which may ask for a status update.
HandleKeepalive ==
    /\ phase = "running"
    /\ recv = "read"
    /\ SendStatus \/ UNCHANGED confirmed_flush
    /\ NextFrame
    /\ UNCHANGED <<committed, slot_from, cursor, wal_open, appVars, runVars,
                   current_xid, queue, blocked, cons, inflight, saving,
                   histVars>>

\* Mutant: the wait for a frame never looks at _closing.
StatusTimerBlind ==
    /\ phase = "running"
    /\ recv \in {"read", "put"}
    /\ SendStatus
    /\ UNCHANGED <<committed, slot_from, cursor, wal_open, appVars, runVars,
                   taskVars, histVars>>

(* status_interval elapses while the receiver waits for a frame or for room:
   it gives up when close() was called, else it sends a status update. *)
StatusTimer ==
    /\ phase = "running"
    /\ recv \in {"read", "put"}
    /\ IF closing
       THEN /\ recv' = "done"
            /\ blocked' = NoTx
            /\ UNCHANGED confirmed_flush
       ELSE /\ SendStatus
            /\ UNCHANGED <<recv, blocked>>
    /\ UNCHANGED <<committed, slot_from, cursor, wal_open, appVars, runVars,
                   current_xid, queue, cons, inflight, saving, histVars>>

-----------------------------------------------------------------------------
(* The consumer task and the handler *)

\* _consume_loop takes the oldest transaction and _process calls the handler.
Process ==
    /\ phase = "running"
    /\ cons = "get"
    /\ queue # <<>>
    /\ inflight' = Head(queue)
    /\ queue' = Tail(queue)
    /\ cons' = "called"
    /\ delivered' = delivered \cup {Head(queue)}
    /\ UNCHANGED <<pgVars, checkpoint, effects, runVars, current_xid, recv,
                   blocked, saving, histVars>>

\* get() on a queue that was shut down ends the consumer.
ConsumerStops ==
    /\ phase = "running"
    /\ cons = "get"
    /\ closing
    /\ queue = <<>>
    /\ cons' = "done"
    /\ UNCHANGED <<pgVars, appVars, runVars, current_xid, queue, recv, blocked,
                   inflight, saving, histVars>>

Apply(t) == effects' = [effects EXCEPT ![t] = MinOf(@ + 1, 2)]

\* A handler without a shared transaction applies its effect first.
HandlerEffect ==
    /\ phase = "running"
    /\ cons = "called"
    /\ "adhoc" \in SaveModes
    /\ Apply(inflight)
    /\ cons' = "effected"
    /\ UNCHANGED <<pgVars, checkpoint, delivered, runVars, current_xid, queue,
                   recv, blocked, inflight, saving, histVars>>

\* Mutant: no guard on the LSN.
SaveUnchecked(lsn) == TRUE

\* CheckpointHandle.save refuses an LSN beyond the dispatched transaction.
SaveAllowed(lsn) == lsn <= CommitLsn(inflight)

\* The LSNs a handler asks save to persist.
Requested == SaveLsns \cup {CommitLsn(inflight)}

\* store.save without a connection: the row is committed.
SaveCommitted ==
    /\ phase = "running"
    /\ cons = "effected"
    /\ \E lsn \in Requested :
          /\ SaveAllowed(lsn)
          /\ checkpoint' = lsn
          /\ saving' = lsn
    /\ cons' = "committed"
    /\ UNCHANGED <<pgVars, effects, delivered, runVars, current_xid, queue,
                   recv, blocked, inflight, histVars>>

\* Mutant: the callback forgets to record.
RecordedNever(lsn) == durable_lsn

\* _record_durable_progress never moves backwards.
Recorded(lsn) == MaxOf(durable_lsn, lsn)

\* save returns through _on_saved.
SaveRecorded ==
    /\ phase = "running"
    /\ cons = "committed"
    /\ durable_lsn' = Recorded(saving)
    /\ cons' = "saved"
    /\ UNCHANGED <<pgVars, appVars, phase, failure, closing, start_lsn,
                   next_backoff, current_xid, queue, recv, blocked, inflight,
                   saving, histVars>>

(* save(lsn, connection=conn): the row is written on the caller's transaction
   and left uncommitted; _on_saved is called all the same. *)
SaveOnConnection ==
    /\ phase = "running"
    /\ cons = "called"
    /\ "connection" \in SaveModes
    /\ \E lsn \in Requested :
          /\ SaveAllowed(lsn)
          /\ durable_lsn' = Recorded(lsn)
          /\ saving' = lsn
    /\ cons' = "uncommitted"
    /\ UNCHANGED <<pgVars, appVars, phase, failure, closing, start_lsn,
                   next_backoff, current_xid, queue, recv, blocked, inflight,
                   histVars>>

\* conn.commit(): the effect and the checkpoint become durable together.
CallerCommits ==
    /\ phase = "running"
    /\ cons = "uncommitted"
    /\ checkpoint' = saving
    /\ Apply(inflight)
    /\ cons' = "saved"
    /\ UNCHANGED <<pgVars, delivered, runVars, current_xid, queue, recv,
                   blocked, inflight, saving, histVars>>

\* The handler returns, having saved unless it batches its saves.
HandlerReturns ==
    /\ phase = "running"
    /\ cons = "saved" \/ (cons = "effected" /\ MaySkipSave)
    /\ cons' = "get"
    /\ inflight' = NoTx
    /\ saving' = 0
    /\ UNCHANGED <<pgVars, appVars, runVars, current_xid, queue, recv, blocked,
                   histVars>>

\* Mutant: the consumer swallows the exception and goes on.
HandlerSwallowed ==
    /\ phase = "running"
    /\ cons \in Handling
    /\ Fault("raise")
    /\ cons' = "get"
    /\ inflight' = NoTx
    /\ saving' = 0
    /\ UNCHANGED <<pgVars, appVars, runVars, current_xid, queue, recv, blocked,
                   stale>>

\* The handler raises, at the end because save refused its LSN: run ends.
HandlerRaises ==
    /\ phase = "running"
    /\ \/ /\ cons \in Handling
          /\ Fault("raise")
       \/ /\ cons \in {"called", "effected"}
          /\ \E lsn \in Requested : ~SaveAllowed(lsn)
          /\ UNCHANGED faults
    /\ RunFails("handler")
    /\ ConnectionGone
    /\ UNCHANGED <<appVars, closing, start_lsn, durable_lsn, next_backoff,
                   current_xid, queue, stale>>

-----------------------------------------------------------------------------
(* Shutdown *)

\* close(): a signal handler may call it whenever the process runs.
Close ==
    /\ phase \in Live
    /\ ~closing
    /\ Fault("close")
    /\ closing' = TRUE
    /\ queue' = <<>>
    /\ UNCHANGED <<pgVars, appVars, phase, failure, start_lsn, durable_lsn,
                   next_backoff, current_xid, recv, blocked, cons, inflight,
                   saving, stale>>

\* Both tasks returned: _run_once sends the final status update.
FinalStatus ==
    /\ phase = "running"
    /\ recv = "done" /\ cons = "done"
    /\ SendStatus
    /\ phase' = "endcopy"
    /\ UNCHANGED <<committed, slot_from, cursor, wal_open, appVars, failure,
                   closing, start_lsn, durable_lsn, next_backoff, taskVars,
                   histVars>>

\* end_copy and transport.close(); run finds _closing set and returns.
EndCopy ==
    /\ phase = "endcopy"
    /\ phase' = "stopped"
    /\ ConnectionGone
    /\ UNCHANGED <<appVars, failure, closing, start_lsn, durable_lsn,
                   next_backoff, current_xid, queue, histVars>>

\* The final update or end_copy meets a dead connection: run returns.
ShutdownCut ==
    /\ \/ phase = "endcopy"
       \/ phase = "running" /\ recv = "done" /\ cons = "done"
    /\ Fault("drop")
    /\ phase' = "stopped"
    /\ ConnectionGone
    /\ UNCHANGED <<appVars, failure, closing, start_lsn, durable_lsn,
                   next_backoff, current_xid, queue, stale>>

-----------------------------------------------------------------------------
Init ==
    /\ committed = 0
    /\ slot_from = NoSlot
    /\ confirmed_flush = 0
    /\ cursor = 1
    /\ wal_open = FALSE
    /\ checkpoint = NoCheckpoint
    /\ effects = [t \in Tx |-> 0]
    /\ phase = "down"
    /\ failure = "none"
    /\ closing = FALSE
    /\ start_lsn = 0
    /\ durable_lsn = 0
    /\ next_backoff = InitialBackoff
    /\ current_xid = NoTx
    /\ queue = <<>>
    /\ recv = "idle"
    /\ blocked = NoTx
    /\ cons = "idle"
    /\ inflight = NoTx
    /\ saving = 0
    /\ delivered = {}
    /\ stale = FALSE
    /\ faults = [k \in Faults |-> 0]

Receiver ==
    \/ ReceiveBegin \/ ReceiveCommit \/ PutCompletes
    \/ HandleKeepalive \/ StatusTimer

Consumer ==
    \/ Process \/ ConsumerStops
    \/ HandlerEffect \/ SaveCommitted \/ SaveRecorded
    \/ SaveOnConnection \/ CallerCommits \/ HandlerReturns

RunOnce ==
    \/ LoadCheckpoint \/ Connect \/ CreateSlotIfMissing \/ StartReplication
    \/ ReconnectDelay \/ FinalStatus \/ EndCopy

Failing ==
    \/ Crash \/ AttemptRefused \/ AttemptBreaks \/ ConnectionLost
    \/ HandlerRaises \/ ShutdownCut

Next == CommitTx \/ StartProcess \/ RunOnce \/ Receiver \/ Consumer
            \/ Failing \/ Close

Spec == Init /\ [][Next]_vars

(* The supervisor restarts the process, a connection attempt takes its next
   step, a frame that has arrived is read and a transaction with room in the
   queue is put there, status_interval elapses, and a handler call ends.
   Nothing obliges the publisher to commit, a fault to happen or close() to be
   called. *)
Fairness ==
    /\ WF_vars(StartProcess)
    /\ WF_vars(RunOnce)
    /\ WF_vars(ReceiveBegin \/ ReceiveCommit \/ PutCompletes)
    /\ WF_vars(StatusTimer)
    /\ WF_vars(Consumer)

FairSpec == Spec /\ Fairness

-----------------------------------------------------------------------------
(* Properties *)

PgTypeOK ==
    /\ committed \in 0..N
    /\ slot_from \in -1..N
    /\ confirmed_flush \in Nat
    /\ cursor \in 1..(N + 1)

AppTypeOK ==
    /\ checkpoint \in Nat \cup {NoCheckpoint}
    /\ effects \in [Tx -> 0..2]
    /\ delivered \subseteq Tx

RunTypeOK ==
    /\ phase \in Live \cup {"down", "failed", "stopped"}
    /\ failure \in {"none", "handler", "ProtocolError", "OperationalError"}
    /\ start_lsn \in Nat
    /\ durable_lsn \in Nat
    /\ next_backoff \in InitialBackoff..MaxBackoff

QueueTypeOK ==
    /\ queue \in Seq(Tx)
    /\ MaxPending > 0 => Len(queue) <= MaxPending

TaskTypeOK ==
    /\ current_xid \in 0..N
    /\ recv \in {"idle", "read", "put", "done"}
    /\ blocked \in 0..N
    /\ cons \in Handling \cup {"idle", "get", "done"}
    /\ inflight \in 0..N
    /\ saving \in Nat

FaultTypeOK == faults \in [Faults -> Nat]

FlagTypeOK == wal_open \in BOOLEAN /\ closing \in BOOLEAN /\ stale \in BOOLEAN

(* Every variable keeps its type; the queue stays within max_pending_transactions
   and the reconnect delay between _INITIAL_BACKOFF and _MAX_BACKOFF. *)
TypeOK ==
    /\ PgTypeOK /\ AppTypeOK /\ RunTypeOK
    /\ QueueTypeOK /\ TaskTypeOK
    /\ FaultTypeOK /\ FlagTypeOK

\* The slot sees the transactions committed after it was created.
Visible(t) == slot_from # NoSlot /\ t > slot_from

\* Where PostgreSQL resumes if the client starts over now.
ResumeLsn == MaxOf(checkpoint + 1, confirmed_flush)

(* The handler is called in commit order: whenever a transaction has been
   dispatched for the first time, every earlier one the slot sees has been
   dispatched too (run's docstring), across crashes, reconnects and stale
   queues, and however the handler saves. *)
DispatchedInOrder ==
    \A t \in delivered : \A u \in Tx : Visible(u) /\ u < t => u \in delivered

(* Neither a saved checkpoint nor the feedback sent to PostgreSQL covers a
   transaction the handler was never called with (CheckpointHandle.save's
   guard, _record_durable_progress and the +1 of the status update). *)
AcknowledgedWasDispatched ==
    \A t \in Covered(ResumeLsn) : Visible(t) => t \in delivered

Processed(t) == effects[t] > 0

(* A crash never loses a transaction: what PostgreSQL would skip if the client
   started over at this moment has had its effect (ARCHITECTURE.md:73). *)
NoSilentLoss ==
    \A t \in Covered(ResumeLsn) : Visible(t) => Processed(t)

(* As long as no reconnect kept transactions of the old connection in the
   queue, a crash never loses a transaction. *)
NoLossUnlessStale == ~stale => NoSilentLoss

(* The handler is called with a transaction only after every earlier one has
   had its effect, unless a reconnect kept a stale queue: no drop, crash or
   handler exception lets a later transaction overtake an earlier one. *)
PredecessorsProcessed ==
    ~stale /\ cons \in Handling =>
        \A u \in Tx : Visible(u) /\ u < inflight => Processed(u)

(* Feedback never passes the durable checkpoint: PostgreSQL is told about a
   transaction only when the saved row covers it too (ARCHITECTURE.md:71). *)
FeedbackWithinCheckpoint ==
    \A t \in Covered(confirmed_flush) :
        Visible(t) => t \in Covered(checkpoint + 1)

(* FeedbackWithinCheckpoint as long as no reconnect kept a stale queue. *)
FeedbackWithinUnlessStale == ~stale => FeedbackWithinCheckpoint

(* A sink that saves the checkpoint in its own transaction applies every
   transaction at most once (delivery-guarantees.md:202). *)
AppliedAtMostOnce == \A t \in Tx : effects[t] <= 1

(* AppliedAtMostOnce as long as no reconnect kept a stale queue. *)
AppliedOnceUnlessStale == ~stale => AppliedAtMostOnce

(* A connection dropped in the middle of a transaction is followed by a full
   retransmission, never by a protocol error (ARCHITECTURE.md:90). *)
NoProtocolError == failure # "ProtocolError"

(* The reconnect delay grows with every attempt that fails, up to _MAX_BACKOFF,
   and falls back to _INITIAL_BACKOFF only when replication starts or a new
   process runs. *)
BackoffGrowsUntilSuccess ==
    [][/\ phase = "backoff" /\ phase' = "load" =>
              next_backoff' > next_backoff \/ next_backoff' = MaxBackoff
       /\ next_backoff' < next_backoff =>
              \/ phase = "start" /\ phase' = "running"
              \/ phase' = "load" /\ phase \in {"down", "failed", "stopped"}]_vars

(* Every committed transaction the slot sees is eventually applied, whatever
   finite number of faults happens, unless a reconnect kept a stale queue. *)
EventuallyProcessed ==
    \A t \in Tx : (Visible(t) /\ t <= committed) ~> (Processed(t) \/ stale)

(* PostgreSQL is eventually told about every transaction it committed, so the
   slot does not retain WAL for ever. *)
FeedbackCatchesUp ==
    \A t \in Tx :
        (Visible(t) /\ t <= committed) ~> (t \in Covered(confirmed_flush) \/ stale)

(* A shutdown that was asked for ends: neither an idle read, a full queue nor
   an idle consumer keeps run from returning. *)
ShutdownEnds == closing ~> phase \in {"stopped", "failed", "down"}
=============================================================================
