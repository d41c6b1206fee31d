------------------------- MODULE ConcurrentHandler -------------------------
(***************************************************************************)
(* ConcurrentHandler (examples/concurrency.py): a handler that fans the    *)
(* inserts of one transaction out to FIFO shard queues, waits until the    *)
(* touched shards have drained and then saves the checkpoint.              *)
(*                                                                         *)
(* The client calls handle with the head of its queue, one transaction at  *)
(* a time.  A lost connection cancels the call; the client's queue         *)
(* survives it, and so does the handler, whose shards still hold the       *)
(* events of the cancelled call: what handle is called with next is what   *)
(* was queued behind the cancelled transaction, if anything was, and what  *)
(* the server sends again comes after it.  The broker is external.         *)
(***************************************************************************)
EXTENDS Integers, Sequences, SequencesExt

CONSTANTS
    Inserts,       \* per transaction, the entities of its inserts
    ShardCount,    \* shard_count
    ShardOf,       \* the stable hash of each entity
    QueueMaxsize,  \* queue_maxsize
    MaxPending,    \* max_pending_transactions of the client
    Budget         \* how often each kind of fault happens

Tx == DOMAIN Inserts
Shards == 0..(ShardCount - 1)
Faults == {"fail", "drop", "crash", "close"}

\* The i-th insert of transaction t.
Events == UNION {{[tx |-> t, pos |-> i] : i \in DOMAIN Inserts[t]} : t \in Tx}
NoEvent == [tx |-> 0, pos |-> 0]
EntityOf(e) == Inserts[e.tx][e.pos]

ASSUME HandlerAssumption ==
    /\ ShardCount \in Nat \ {0} /\ QueueMaxsize \in Nat \ {0}
    /\ MaxPending \in Nat \ {0}
    /\ ShardOf \in [DOMAIN ShardOf -> Shards]
    /\ Inserts \in Seq(Seq(DOMAIN ShardOf))
    /\ Budget \in [Faults -> Nat]

VARIABLES
    checkpoint,  \* the transaction the checkpoint row names
    saved,       \* every transaction a checkpoint was saved for
    published,   \* events in the order the broker first saw them
    followed,    \* pairs of events of one transaction and one entity, the
                 \* second published after the first
    failed,      \* events whose publishing failed at least once
    process,     \* "down", "running" or "stopping"
    next_tx,     \* the transaction the connection delivers next
    queue,       \* the client's _queue
    stale,       \* a call was cancelled with later transactions queued
    handling,    \* the transaction handle was called with, or 0
    put,         \* how many of its inserts handle has put
    shards,      \* _shards
    unfinished,  \* the unfinished-task count join() waits for, per shard
    working,     \* what each shard worker is processing
    failures,    \* _failures
    faults       \* faults so far

durableVars == <<checkpoint, saved, published, followed, failed>>
clientVars == <<next_tx, queue, stale>>
shardVars == <<shards, unfinished, working>>
vars == <<durableVars, process, clientVars, handling, put, shardVars, failures,
          faults>>

Fault(k) ==
    /\ faults[k] < Budget[k]
    /\ faults' = [faults EXCEPT ![k] = @ + 1]

\* Mutant: the events of a transaction are dealt out in turn.
ShardForTurn(e) == e.pos % ShardCount

ShardFor(e) == ShardOf[EntityOf(e)]

-----------------------------------------------------------------------------
(* The process *)

FreshHandler ==
    /\ queue' = <<>>
    /\ handling' = 0
    /\ put' = 0
    /\ shards' = [s \in Shards |-> <<>>]
    /\ unfinished' = [s \in Shards |-> 0]
    /\ working' = [s \in Shards |-> NoEvent]
    /\ failures' = {}

(* Replication starts after the checkpoint, or after a later position that was
   acknowledged before the checkpoint moved back. *)
Resume ==
    \E lsn \in saved \cup {checkpoint} : lsn >= checkpoint /\ next_tx' = lsn + 1

\* main builds a new client and a new handler and starts its workers.
StartProcess ==
    /\ process = "down"
    /\ process' = "running"
    /\ FreshHandler
    /\ Resume
    /\ UNCHANGED <<durableVars, stale, faults>>

Crash ==
    /\ process # "down"
    /\ Fault("crash")
    /\ process' = "down"
    /\ FreshHandler
    /\ UNCHANGED <<durableVars, next_tx, stale>>

\* client.run returns after close(), which empties the queue and lets the call in
\* progress finish.
RunReturns ==
    /\ process = "running"
    /\ handling = 0
    /\ Fault("close")
    /\ process' = "stopping"
    /\ queue' = <<>>
    /\ UNCHANGED <<durableVars, next_tx, stale, handling, put, shardVars, failures>>

\* stop: every join() has returned or timed out and the workers are cancelled.
Stop ==
    /\ process = "stopping"
    /\ process' = "down"
    /\ FreshHandler
    /\ UNCHANGED <<durableVars, next_tx, stale, faults>>

-----------------------------------------------------------------------------
(* The client *)

\* The receiver has assembled the next transaction and the queue has room.
Receive ==
    /\ process = "running"
    /\ next_tx \in Tx
    /\ Len(queue) < MaxPending
    /\ queue' = Append(queue, next_tx)
    /\ next_tx' = next_tx + 1
    /\ UNCHANGED <<durableVars, process, stale, handling, put, shardVars, failures,
                   faults>>

\* The consumer calls handle with the head of the queue.
Call ==
    /\ process = "running"
    /\ handling = 0
    /\ queue # <<>>
    /\ handling' = Head(queue)
    /\ queue' = Tail(queue)
    /\ put' = 0
    /\ UNCHANGED <<durableVars, process, next_tx, stale, shardVars, failures, faults>>

\* Mutant: replication goes on where the lost connection left off.
ReconnectLeftOff ==
    /\ process = "running"
    /\ Fault("drop")
    /\ handling' = 0
    /\ put' = 0
    /\ stale' = (stale \/ (handling # 0 /\ \E t \in ToSet(queue) : t > handling))
    /\ UNCHANGED <<durableVars, process, next_tx, queue, shardVars, failures>>

(* The connection is lost, which cancels a call at whatever await it is in, and
   replication starts again.  The queue is kept. *)
Reconnect ==
    /\ process = "running"
    /\ Fault("drop")
    /\ handling' = 0
    /\ put' = 0
    /\ Resume
    /\ stale' = (stale \/ (handling # 0 /\ \E t \in ToSet(queue) : t > handling))
    /\ UNCHANGED <<durableVars, process, queue, shardVars, failures>>

-----------------------------------------------------------------------------
(* handle *)

\* await put(): waits while the shard is full.
Put ==
    /\ process = "running"
    /\ handling # 0
    /\ put < Len(Inserts[handling])
    /\ LET e == [tx |-> handling, pos |-> put + 1]
           s == ShardFor(e)
       IN  /\ Len(shards[s]) < QueueMaxsize
           /\ shards' = [shards EXCEPT ![s] = Append(@, e)]
           /\ unfinished' = [unfinished EXCEPT ![s] = @ + 1]
    /\ put' = put + 1
    /\ UNCHANGED <<durableVars, process, clientVars, handling, working, failures,
                   faults>>

TouchedShards == {ShardFor([tx |-> handling, pos |-> i]) : i \in DOMAIN Inserts[handling]}

\* Every touched shard's join() has returned.
Joined == \A s \in TouchedShards : unfinished[s] = 0

\* Mutant: failures are only logged.
AnyFailureIgnored == FALSE

AnyFailure == failures # {}

(* All inserts are put and the touched shards drained: handle raises the
   recorded failures, which ends run, or saves the checkpoint and returns. *)
Return ==
    /\ process = "running"
    /\ handling # 0
    /\ put = Len(Inserts[handling])
    /\ Joined
    /\ \/ /\ AnyFailure
          /\ failures' = {}
          /\ process' = "stopping"
          /\ queue' = <<>>
          /\ UNCHANGED <<checkpoint, saved>>
       \/ /\ ~AnyFailure
          /\ checkpoint' = handling
          /\ saved' = saved \cup {handling}
          /\ UNCHANGED <<failures, process, queue>>
    /\ handling' = 0
    /\ put' = 0
    /\ UNCHANGED <<published, followed, failed, next_tx, stale, shardVars, faults>>

-----------------------------------------------------------------------------
(* _shard_worker *)

Get(s) ==
    /\ process # "down"
    /\ working[s] = NoEvent
    /\ shards[s] # <<>>
    /\ working' = [working EXCEPT ![s] = Head(shards[s])]
    /\ shards' = [shards EXCEPT ![s] = Tail(@)]
    /\ UNCHANGED <<durableVars, process, clientVars, handling, put, unfinished,
                   failures, faults>>

TaskDone(s) ==
    /\ working' = [working EXCEPT ![s] = NoEvent]
    /\ unfinished' = [unfinished EXCEPT ![s] = @ - 1]

\* Earlier events of the same transaction and entity.
Elders(e) ==
    {d \in Events : d.tx = e.tx /\ d.pos < e.pos /\ EntityOf(d) = EntityOf(e)}

\* _process_event returns.
Publish(s) ==
    /\ process # "down"
    /\ working[s] # NoEvent
    /\ published' = IF Contains(published, working[s]) THEN published
                    ELSE Append(published, working[s])
    /\ followed' = followed \cup
          {<<e, working[s]>> : e \in Elders(working[s]) \cap ToSet(published)}
    /\ TaskDone(s)
    /\ UNCHANGED <<checkpoint, saved, failed, process, clientVars, handling, put,
                   shards, failures, faults>>


\* Mutant: a failed event goes back to the end of its shard.
FailRetries(s) ==
    /\ process # "down"
    /\ working[s] # NoEvent
    /\ Fault("fail")
    /\ shards' = [shards EXCEPT ![s] = Append(@, working[s])]
    /\ working' = [working EXCEPT ![s] = NoEvent]
    /\ failed' = failed \cup {working[s]}
    /\ UNCHANGED <<checkpoint, saved, published, followed, process, clientVars,
                   handling, put, unfinished, failures>>

\* _process_event raises: the failure is recorded and the worker goes on.
Fail(s) ==
    /\ process # "down"
    /\ working[s] # NoEvent
    /\ Fault("fail")
    /\ failures' = failures \cup {working[s]}
    /\ failed' = failed \cup {working[s]}
    /\ TaskDone(s)
    /\ UNCHANGED <<checkpoint, saved, published, followed, process, clientVars,
                   handling, put, shards>>

-----------------------------------------------------------------------------
Init ==
    /\ checkpoint = 0
    /\ saved = {}
    /\ published = <<>>
    /\ followed = {}
    /\ failed = {}
    /\ process = "down"
    /\ next_tx = 1
    /\ queue = <<>>
    /\ stale = FALSE
    /\ handling = 0
    /\ put = 0
    /\ shards = [s \in Shards |-> <<>>]
    /\ unfinished = [s \in Shards |-> 0]
    /\ working = [s \in Shards |-> NoEvent]
    /\ failures = {}
    /\ faults = [k \in Faults |-> 0]

Next ==
    \/ StartProcess \/ Crash \/ RunReturns \/ Stop
    \/ Receive \/ Call \/ Reconnect
    \/ Put \/ Return
    \/ \E s \in Shards : Get(s) \/ Publish(s) \/ Fail(s)

Spec == Init /\ [][Next]_vars

(* The supervisor restarts the process, stop's timeouts elapse, the receiver,
   the consumer, handle and the workers are scheduled, and publishing an event ends. *)
Fairness ==
    /\ WF_vars(StartProcess) /\ WF_vars(Stop)
    /\ WF_vars(Receive) /\ WF_vars(Call) /\ WF_vars(Put) /\ WF_vars(Return)
    /\ \A s \in Shards : WF_vars(Get(s)) /\ WF_vars(Publish(s))

FairSpec == Spec /\ Fairness

-----------------------------------------------------------------------------
(* Properties *)

(* A checkpoint never claims progress on work that has not finished
   (examples/concurrency.py:6): every event of a transaction handle saved reached
   the broker, although the shards and the list of failures outlive cancelled
   calls; and so did every event the checkpoint passes over, unless a call was
   cancelled with later transactions queued. *)
SavedWasPublished ==
    \A e \in Events :
        e.tx \in saved \/ (~stale /\ e.tx <= checkpoint) => Contains(published, e)

EarlierInLog(e, f) ==
    \E i \in DOMAIN published :
        /\ published[i] = e
        /\ \A j \in 1..i : published[j] # f

(* Events of the same entity stay in order (examples/concurrency.py:5): the broker
   sees one for the first time only after every earlier one of its transaction
   whose publishing has not failed, always, and after every one of an earlier
   transaction, failed before or not, unless a call was cancelled with later
   transactions queued. *)
EntityOrderUnlessFailed ==
    \A f \in ToSet(published) : \A e \in Events :
        /\ EntityOf(e) = EntityOf(f)
        /\ \/ e.tx = f.tx /\ e.pos < f.pos /\ e \notin failed
           \/ e.tx < f.tx /\ ~stale
        => EarlierInLog(e, f)

(* An event that failed is overtaken by the later ones of its entity, since the
   worker goes on, but not for good: before the checkpoint is saved the broker
   has seen each of them again after it (examples/concurrency.py:139, "so the
   whole transaction is redelivered"). *)
OvertakenWasRepeated ==
    \A f \in Events : f.tx \in saved =>
        \A e \in Elders(f) : <<e, f>> \in followed

(* A transaction handle has not saved yet is only failed for its own events or
   for repeated events of a saved one, whatever a cancelled call left in the
   shards and in the list of failures, unless later transactions were queued
   behind that call (handle's docstring, examples/concurrency.py:139). *)
FailuresAreOwn ==
    handling \notin saved \cup {0} /\ ~stale =>
        \A e \in (failures \cup {working[s] : s \in Shards}) \ {NoEvent} :
            e.tx \in saved \cup {handling}

=============================================================================
