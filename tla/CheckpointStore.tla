--------------------------- MODULE CheckpointStore ---------------------------
(***************************************************************************)
(* PostgresCheckpointStore (walbox/checkpoint.py): several consumers, each *)
(* a process with a store object of its own, keep their rows in one table  *)
(* that the first of them creates, inside whatever transaction it happens  *)
(* to be in.                                                               *)
(*                                                                         *)
(* A store is used as Client.run uses it, load() before any save(), or     *)
(* directly, save() first, by a process that has no checkpoint yet.  A     *)
(* consumer in Sinks saves on the connection of its own effect, the others *)
(* without a connection.  PostgreSQL is external.                          *)
(***************************************************************************)
EXTENDS Integers

CONSTANTS
    Consumers,      \* consumer names
    Sinks,          \* the consumers that call save(lsn, connection=conn)
    Nobody,         \* no consumer
    MaxLsn,         \* transactions each consumer processes
    MaxFailures,    \* connections lost and processes killed
    MaxCancels      \* handler calls cancelled by a lost replication stream

ASSUME StoreAssumption ==
    /\ Sinks \subseteq Consumers /\ Nobody \notin Consumers
    /\ MaxLsn \in Nat /\ MaxFailures \in Nat /\ MaxCancels \in Nat

VARIABLES
    \* PostgreSQL
    table,      \* the table is committed
    creator,    \* whose open transaction has created it
    row,        \* the committed row of each consumer (0: none)
    applied,    \* the committed effects of each sink
    \* the open transaction of each consumer
    wrote,      \* the LSN it has upserted (0: none)
    effect,     \* it holds the effect of the sink
    \* each process
    op,         \* "down", "idle", "load" or "save"
    at,         \* how far the call has come
    pos,        \* the position the process believes to be saved
    ready,      \* _schema_ready of its store
    undone,     \* the transaction in which its store created the table failed
    failures, cancels

pgVars == <<table, creator, row, applied>>
txVars == <<wrote, effect>>
procVars == <<op, at, pos, ready, undone>>
faultVars == <<failures, cancels>>
vars == <<pgVars, txVars, procVars, faultVars>>

Steps == {"begin", "blocked", "ensured", "committed", "upserted"}
InCall(c) == op[c] \in {"load", "save"}

\* The table as a statement of c sees it.
TableVisible(c) == table \/ creator = c

-----------------------------------------------------------------------------
(* Transactions of PostgreSQL *)

\* COMMIT of c's transaction.
Commit(c) ==
    /\ table' = TableVisible(c)
    /\ creator' = IF creator = c THEN Nobody ELSE creator
    /\ row' = [row EXCEPT ![c] = IF wrote[c] > 0 THEN wrote[c] ELSE @]
    /\ applied' = [applied EXCEPT ![c] = IF effect[c] THEN @ + 1 ELSE @]
    /\ wrote' = [wrote EXCEPT ![c] = 0]
    /\ effect' = [effect EXCEPT ![c] = FALSE]
    /\ UNCHANGED undone

\* ROLLBACK, which also undoes a CREATE TABLE.
Rollback(c) ==
    /\ creator' = IF creator = c THEN Nobody ELSE creator
    /\ undone' = [undone EXCEPT ![c] = @ \/ creator = c]
    /\ wrote' = [wrote EXCEPT ![c] = 0]
    /\ effect' = [effect EXCEPT ![c] = FALSE]
    /\ UNCHANGED <<table, row, applied>>

-----------------------------------------------------------------------------
(* A process and its store *)

\* Mutant: a new store keeps the flag of the one before it.
StartKeepsFlag(c) ==
    /\ op[c] = "down"
    /\ \/ /\ op' = [op EXCEPT ![c] = "load"]
          /\ UNCHANGED pos
       \/ /\ row[c] = 0
          /\ op' = [op EXCEPT ![c] = "idle"]
          /\ pos' = [pos EXCEPT ![c] = 0]
    /\ at' = [at EXCEPT ![c] = "begin"]
    /\ UNCHANGED <<ready, undone, pgVars, txVars, faultVars>>

\* A process builds its store and loads, or saves first without a checkpoint.
Start(c) ==
    /\ op[c] = "down"
    /\ \/ /\ op' = [op EXCEPT ![c] = "load"]
          /\ UNCHANGED pos
       \/ /\ row[c] = 0
          /\ op' = [op EXCEPT ![c] = "idle"]
          /\ pos' = [pos EXCEPT ![c] = 0]
    /\ at' = [at EXCEPT ![c] = "begin"]
    /\ ready' = [ready EXCEPT ![c] = FALSE]
    /\ undone' = [undone EXCEPT ![c] = FALSE]
    /\ UNCHANGED <<pgVars, txVars, faultVars>>

\* The handler is called with the next transaction: a sink writes its effect
\* and both call save.
CallSave(c) ==
    /\ op[c] = "idle"
    /\ pos[c] < MaxLsn
    /\ op' = [op EXCEPT ![c] = "save"]
    /\ at' = [at EXCEPT ![c] = "begin"]
    /\ effect' = [effect EXCEPT ![c] = c \in Sinks]
    /\ UNCHANGED <<pgVars, wrote, pos, ready, undone, faultVars>>

\* Mutant: _ensure_schema commits what it has created.
EnsuredAndCommitted(c) ==
    /\ ready' = [ready EXCEPT ![c] = TRUE]
    /\ at' = [at EXCEPT ![c] = "ensured"]
    /\ IF ready[c] THEN UNCHANGED <<pgVars, txVars>>
       ELSE /\ table' = TRUE
            /\ applied' = [applied EXCEPT ![c] = IF effect[c] THEN @ + 1 ELSE @]
            /\ effect' = [effect EXCEPT ![c] = FALSE]
            /\ UNCHANGED <<creator, row, wrote>>

\* _ensure_schema returns: the table is there, or c's transaction creates it.
Ensured(c) ==
    /\ ready' = [ready EXCEPT ![c] = TRUE]
    /\ at' = [at EXCEPT ![c] = "ensured"]
    /\ creator' = IF ready[c] \/ table THEN creator ELSE c
    /\ UNCHANGED <<table, row, applied, txVars>>

\* _ensure_schema on the connection of the call.
EnsureSchema(c) ==
    /\ InCall(c) /\ at[c] = "begin"
    /\ ready[c] \/ table \/ creator = Nobody
    /\ Ensured(c)
    /\ UNCHANGED <<op, pos, undone, faultVars>>

\* Mutant: the flag is set before CREATE TABLE is executed.
BlockedWithFlag(c) ==
    /\ at' = [at EXCEPT ![c] = "blocked"]
    /\ ready' = [ready EXCEPT ![c] = TRUE]

\* CREATE TABLE has been sent.
Blocked(c) ==
    /\ at' = [at EXCEPT ![c] = "blocked"]
    /\ UNCHANGED ready

\* CREATE TABLE IF NOT EXISTS waits for another creator's transaction.
EnsureBlocks(c) ==
    /\ InCall(c) /\ at[c] = "begin"
    /\ ~ready[c] /\ ~table /\ creator # Nobody
    /\ Blocked(c)
    /\ UNCHANGED <<pgVars, txVars, op, pos, undone, faultVars>>

\* The other creator rolled back.
EnsureUnblocks(c) ==
    /\ InCall(c) /\ at[c] = "blocked"
    /\ creator = Nobody /\ ~table
    /\ Ensured(c)
    /\ UNCHANGED <<op, pos, undone, faultVars>>

\* load commits what _ensure_schema did.
LoadCommits(c) ==
    /\ op[c] = "load" /\ at[c] = "ensured"
    /\ Commit(c)
    /\ at' = [at EXCEPT ![c] = "committed"]
    /\ UNCHANGED <<op, pos, ready, faultVars>>

\* load selects the row and returns.
LoadReturns(c) ==
    /\ op[c] = "load" /\ at[c] = "committed"
    /\ TableVisible(c)
    /\ pos' = [pos EXCEPT ![c] = row[c]]
    /\ op' = [op EXCEPT ![c] = "idle"]
    /\ UNCHANGED <<pgVars, txVars, at, ready, undone, faultVars>>

\* Mutant: ON CONFLICT DO NOTHING.
UpsertedKeepsFirst(c) == IF row[c] = 0 THEN pos[c] + 1 ELSE row[c]

\* The LSN _upsert leaves in the row of its own consumer.
Upserted(c) == pos[c] + 1

Upsert(c) ==
    /\ op[c] = "save" /\ at[c] = "ensured"
    /\ TableVisible(c)
    /\ wrote' = [wrote EXCEPT ![c] = Upserted(c)]
    /\ at' = [at EXCEPT ![c] = "upserted"]
    /\ UNCHANGED <<pgVars, effect, op, pos, ready, undone, faultVars>>

\* save commits, or the caller does on its own connection; the call returns.
SaveCommits(c) ==
    /\ op[c] = "save" /\ at[c] = "upserted"
    /\ Commit(c)
    /\ pos' = [pos EXCEPT ![c] = @ + 1]
    /\ op' = [op EXCEPT ![c] = "idle"]
    /\ UNCHANGED <<at, ready, faultVars>>

-----------------------------------------------------------------------------
(* Failures *)

\* An exception leaves the store's caller: the process ends.
Down(c) ==
    /\ op' = [op EXCEPT ![c] = "down"]
    /\ UNCHANGED <<at, pos, ready>>

\* A statement finds no table, or CREATE TABLE meets the one that another
\* transaction has committed meanwhile.
StatementFails(c) ==
    /\ \/ InCall(c) /\ at[c] = "blocked" /\ table
       \/ op[c] = "save" /\ at[c] = "ensured" /\ ~TableVisible(c)
       \/ op[c] = "load" /\ at[c] = "committed" /\ ~TableVisible(c)
    /\ Rollback(c)
    /\ Down(c)
    /\ UNCHANGED faultVars

\* COMMIT was sent and the answer is lost, or it never arrived.
InDoubt(c) ==
    \/ Rollback(c)
    \/ /\ \/ op[c] = "save" /\ at[c] = "upserted"
          \/ op[c] = "load" /\ at[c] = "ensured"
       /\ Commit(c)

\* The connection is lost or the process killed at any step.
Fails(c) ==
    /\ op[c] # "down"
    /\ failures < MaxFailures
    /\ failures' = failures + 1
    /\ InDoubt(c)
    /\ Down(c)
    /\ UNCHANGED cancels

\* The replication stream is lost: the handler call is cancelled in its save
\* and run calls load() again on the same store.
Cancelled(c) ==
    /\ op[c] = "save"
    /\ cancels < MaxCancels
    /\ cancels' = cancels + 1
    /\ InDoubt(c)
    /\ op' = [op EXCEPT ![c] = "load"]
    /\ at' = [at EXCEPT ![c] = "begin"]
    /\ UNCHANGED <<pos, ready, failures>>

-----------------------------------------------------------------------------
Init ==
    /\ table = FALSE
    /\ creator = Nobody
    /\ row = [c \in Consumers |-> 0]
    /\ applied = [c \in Consumers |-> 0]
    /\ wrote = [c \in Consumers |-> 0]
    /\ effect = [c \in Consumers |-> FALSE]
    /\ op = [c \in Consumers |-> "down"]
    /\ at = [c \in Consumers |-> "begin"]
    /\ pos = [c \in Consumers |-> 0]
    /\ ready = [c \in Consumers |-> FALSE]
    /\ undone = [c \in Consumers |-> FALSE]
    /\ failures = 0
    /\ cancels = 0

Step(c) ==
    \/ Start(c) \/ CallSave(c)
    \/ EnsureSchema(c) \/ EnsureBlocks(c) \/ EnsureUnblocks(c)
    \/ LoadCommits(c) \/ LoadReturns(c)
    \/ Upsert(c) \/ SaveCommits(c) \/ StatementFails(c)

Next == \E c \in Consumers : Step(c) \/ Fails(c) \/ Cancelled(c)

Spec == Init /\ [][Next]_vars

\* A process goes on, and is restarted when it has ended.
FairSpec == Spec /\ \A c \in Consumers : WF_vars(Step(c))

-----------------------------------------------------------------------------
(* Properties *)

(* The effects a sink has committed and its checkpoint row never come apart,
   through rollbacks, lost commits, cancelled calls and the creation of the
   table in the middle of its transaction (save's and _ensure_schema's
   docstrings). *)
AppliedMatchesRow == \A c \in Sinks : applied[c] = row[c]

(* Between two calls a process believes exactly what its own row says, whatever
   the other consumers of the table do: it neither resumes too early nor skips
   anything. *)
PositionIsRow == \A c \in Consumers : op[c] = "idle" => pos[c] = row[c]

(* A statement after _ensure_schema finds the table, unless the transaction in
   which this very store created it did not commit (_schema_ready is set before
   the commit). *)
TableThereUnlessUndone ==
    \A c \in Consumers :
        \/ op[c] = "save" /\ at[c] = "ensured"
        \/ op[c] = "load" /\ at[c] = "committed"
        => TableVisible(c) \/ undone[c]

(* Every consumer saves its last position in the end: neither two processes
   that create the table at once nor a flag that lies stop it for good. *)
EventuallySaved == \A c \in Consumers : <>(row[c] = MaxLsn)
=============================================================================
