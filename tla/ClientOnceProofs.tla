-------------------------- MODULE ClientOnceProofs --------------------------
(***************************************************************************)
(* Handlers that save the position of their own transaction move the       *)
(* checkpoint forward only, as long as no reconnect keeps transactions of  *)
(* the old connection in the queue.  A sink that saves on the connection   *)
(* of its effect then applies each transaction at most once, and a handler *)
(* that saves on its own never lets the feedback pass the checkpoint.      *)
(***************************************************************************)
EXTENDS ClientLossProofs

Unsaved(t) == checkpoint < CommitStart[t]

\* The transactions that reach the handler after the one it has.
Upcoming(t) ==
    \/ \E i \in 1..Len(queue) : queue[i] = t
    \/ recv = "put" /\ t = blocked
    \/ t = cursor

UpcomingUnsaved ==
    phase = "running" =>
        \A t \in Tx : Upcoming(t) =>
            Unsaved(t) /\ (cons \in Handling => inflight < t)

\* The queue, the put that waits and the walsender are in commit order.
PipelineOrdered ==
    phase = "running" =>
        /\ \A i, j \in 1..Len(queue) : i < j => queue[i] < queue[j]
        /\ \A i \in 1..Len(queue) : queue[i] < cursor
        /\ recv = "put" => blocked < cursor
        /\ recv = "put" => \A i \in 1..Len(queue) : queue[i] < blocked

\* Until its save commits a transaction is beyond the checkpoint.
HandlerUnsaved ==
    /\ cons \in {"called", "effected", "uncommitted"} => Unsaved(inflight)
    /\ cons \in {"committed", "uncommitted"} => saving = CommitLsn(inflight)
    /\ cons \in {"committed", "saved"} => checkpoint = CommitLsn(inflight)

\* An attempt starts after the checkpoint, with nothing queued.
StartsAtCheckpoint ==
    /\ phase \in {"connect", "slot", "start"} => start_lsn = checkpoint + 1
    /\ phase \in {"load", "connect", "slot", "start", "backoff"} => queue = <<>>

ForwardCore ==
    /\ UpcomingUnsaved /\ PipelineOrdered /\ HandlerUnsaved /\ StartsAtCheckpoint

ForwardInv == ~stale => ForwardCore

\* Of a sink: what is applied is saved, and was applied once.
AppliedIsSaved == \A t \in Tx : effects[t] <= 1 /\ (Processed(t) => ~Unsaved(t))

OnceInv == ~stale => AppliedIsSaved

\* Of a handler that saves on its own: the client reports nothing it has not
\* saved.
ReportsSaved == durable_lsn = 0 \/ durable_lsn <= checkpoint

FeedbackInv == ~stale => ReportsSaved /\ FeedbackWithinCheckpoint

-----------------------------------------------------------------------------
\* The commit record of a later transaction starts after the commit_lsn of an
\* earlier one.
LEMMA LaterRecord ==
    ASSUME NEW t \in Tx, NEW u \in Tx, t < u
    PROVE  /\ CommitLsn(t) < CommitStart[u] /\ CommitStart[t] < CommitStart[u]
           /\ CommitStart[t] <= CommitLsn(t)
  BY NAssumption, WalAssumption DEF Tx, CommitLsn

\* The same of one transaction.
LEMMA OwnRecord ==
    ASSUME NEW t \in Tx
    PROVE  /\ CommitStart[t] <= CommitLsn(t) /\ CommitLsn(t) \in Nat
           /\ CommitStart[t] \in Nat /\ CommitStart[t] > 0
  BY NAssumption, WalAssumption DEF Tx, CommitLsn

\* A client that has not started saves nothing and has nothing queued.
LEMMA InitForward == Init => ForwardCore
  BY DEF Init, ForwardCore, UpcomingUnsaved, PipelineOrdered, HandlerUnsaved,
         StartsAtCheckpoint

\* The tasks of a connection are gone: a retry follows only on an empty queue.
LEMMA ForwardGone ==
    ASSUME cons' = "idle", phase' \in {"down", "failed", "stopped", "backoff"},
           phase' = "backoff" => queue' = <<>>
    PROVE  ForwardCore'
  BY DEF ForwardCore, UpcomingUnsaved, PipelineOrdered, HandlerUnsaved,
         StartsAtCheckpoint

\* What is upcoming only becomes less, and nothing is saved.
LEMMA ForwardShrinks ==
    ASSUME TypeInv, ForwardCore, queue' \in {queue, <<>>},
           recv' = "put" => recv = "put" /\ blocked' = blocked,
           UNCHANGED <<checkpoint, cursor, cons, inflight, saving, phase, start_lsn>>
    PROVE  ForwardCore'
<1>1. CASE queue' = queue
  <2>1. \A t \in Tx : Upcoming(t)' => Upcoming(t)
    BY <1>1 DEF Upcoming
  <2>2. UpcomingUnsaved'
    BY <2>1 DEF ForwardCore, UpcomingUnsaved, Unsaved
  <2>3. PipelineOrdered' /\ HandlerUnsaved' /\ StartsAtCheckpoint'
    BY <1>1
    DEF ForwardCore, PipelineOrdered, HandlerUnsaved, StartsAtCheckpoint, Unsaved
  <2>. QED  BY <2>2, <2>3 DEF ForwardCore
<1>2. CASE queue' = <<>>
  <2>1. \A t \in Tx : Upcoming(t)' => Upcoming(t)
    BY <1>2 DEF Upcoming
  <2>2. UpcomingUnsaved'
    BY <2>1 DEF ForwardCore, UpcomingUnsaved, Unsaved
  <2>3. PipelineOrdered' /\ HandlerUnsaved' /\ StartsAtCheckpoint'
    BY <1>2
    DEF ForwardCore, PipelineOrdered, HandlerUnsaved, StartsAtCheckpoint, Unsaved
  <2>. QED  BY <2>2, <2>3 DEF ForwardCore
<1>. QED  BY <1>1, <1>2

\* run between two connections.
LEMMA ForwardOutside ==
    ASSUME TypeInv, OrderInv, ForwardCore,
           StartProcess \/ LoadCheckpoint \/ Connect \/ CreateSlotIfMissing
           \/ ReconnectDelay \/ AttemptRefused \/ AttemptBreaks
    PROVE  ForwardCore'
<1>. USE DEF pgVars, appVars, runVars, taskVars, histVars
<1>1. phase \notin {"running", "endcopy"} /\ phase' # "running"
  BY DEF StartProcess, LoadCheckpoint, Connect, CreateSlotIfMissing,
         ReconnectDelay, AttemptRefused, AttemptBreaks, RunRetries, RunFails
<1>2. cons' = "idle"
  <2>1. cons = "idle"
    BY <1>1 DEF OrderInv, TasksOnlyInRun
  <2>. QED
    BY <2>1 DEF StartProcess, LoadCheckpoint, Connect, CreateSlotIfMissing,
                ReconnectDelay, AttemptRefused, AttemptBreaks
<1>3. UpcomingUnsaved' /\ PipelineOrdered' /\ HandlerUnsaved'
  BY <1>1, <1>2 DEF UpcomingUnsaved, PipelineOrdered, HandlerUnsaved
<1>4. StartsAtCheckpoint'
  <2>1. CASE StartProcess
    BY <2>1 DEF StartProcess, StartsAtCheckpoint
  <2>2. CASE LoadCheckpoint
    BY <2>2 DEF LoadCheckpoint, ForwardCore, StartsAtCheckpoint, NoCheckpoint
  <2>3. CASE Connect \/ CreateSlotIfMissing \/ ReconnectDelay
    BY <2>3
    DEF Connect, CreateSlotIfMissing, ReconnectDelay, ForwardCore,
        StartsAtCheckpoint
  <2>4. CASE AttemptRefused \/ AttemptBreaks
    BY <2>4
    DEF AttemptRefused, AttemptBreaks, RunRetries, RunFails, ForwardCore,
        StartsAtCheckpoint
  <2>. QED  BY <2>1, <2>2, <2>3, <2>4
<1>. QED  BY <1>3, <1>4 DEF ForwardCore

\* PostgreSQL starts behind what the checkpoint covers.
LEMMA ForwardStart ==
    ASSUME TypeInv, OrderInv, ForwardCore, StartReplication
    PROVE  ForwardCore'
<1>. USE DEF appVars, histVars
<1>1. PICK c \in 1..(N + 1) : /\ FirstSent(c, MaxOf(start_lsn, confirmed_flush))
                              /\ cursor' = c
  BY DEF StartReplication
<1>2. /\ start_lsn = checkpoint + 1 /\ queue' = <<>>
      /\ phase' = "running" /\ cons' = "get" /\ recv' # "put"
      /\ checkpoint' = checkpoint
  BY DEF StartReplication, ForwardCore, StartsAtCheckpoint
<1>3. c \in Tx => checkpoint < CommitStart[c]
  <2>1. /\ MaxOf(start_lsn, confirmed_flush) >= start_lsn
        /\ MaxOf(start_lsn, confirmed_flush) \in Int /\ start_lsn \in Int
        /\ checkpoint \in Int
    BY <1>2, MaxOfFacts
    DEF TypeInv, TypeOK, PgTypeOK, AppTypeOK, RunTypeOK, NoCheckpoint
  <2>2. c \in Tx => c \notin Covered(MaxOf(start_lsn, confirmed_flush))
    BY <1>1 DEF FirstSent
  <2>3. c \in Tx => ~(CommitStart[c] < MaxOf(start_lsn, confirmed_flush))
    BY <2>2 DEF Covered
  <2>4. c \in Tx => CommitStart[c] \in Nat
    BY OwnRecord
  <2>. QED  BY <1>2, <2>1, <2>3, <2>4
<1>4. UpcomingUnsaved'
  BY <1>1, <1>2, <1>3 DEF UpcomingUnsaved, Upcoming, Unsaved, Handling
<1>5. PipelineOrdered' /\ HandlerUnsaved' /\ StartsAtCheckpoint'
  BY <1>2 DEF PipelineOrdered, HandlerUnsaved, StartsAtCheckpoint
<1>. QED  BY <1>4, <1>5 DEF ForwardCore

\* A commit arrives, or the put of one completes.
LEMMA ForwardEnqueue ==
    ASSUME TypeInv, ForwardCore, phase = "running", NEW t \in Tx, Upcoming(t),
           \A i \in 1..Len(queue) : queue[i] < t,
           queue' = Append(queue, t), recv' # "put",
           cursor' \in Int, cursor' >= cursor, t < cursor',
           cursor' \in Tx => Unsaved(cursor'),
           UNCHANGED <<checkpoint, cons, inflight, saving, phase, start_lsn>>
    PROVE  ForwardCore'
<1>1. /\ queue \in Seq(Tx) /\ Len(queue) \in Nat /\ Len(queue') = Len(queue) + 1
      /\ queue'[Len(queue) + 1] = t
      /\ \A i \in 1..Len(queue) : queue'[i] = queue[i] /\ queue[i] \in Tx
      /\ cursor \in Int /\ inflight \in Int
  BY DEF TypeInv, TypeOK, QueueTypeOK, PgTypeOK, TaskTypeOK
<1>2. \A i \in 1..Len(queue') : i \in 1..Len(queue) \/ i = Len(queue) + 1
  BY <1>1
<1>3. ASSUME NEW u \in Tx, Upcoming(u)'
      PROVE  Unsaved(u) /\ (cons \in Handling => inflight < u)
  <2>1. Upcoming(u) \/ u = cursor'
    BY <1>1, <1>2, <1>3 DEF Upcoming
  <2>2. cons \in Handling => inflight < t
    BY DEF ForwardCore, UpcomingUnsaved
  <2>3. Upcoming(u) => Unsaved(u) /\ (cons \in Handling => inflight < u)
    BY DEF ForwardCore, UpcomingUnsaved
  <2>4. u = cursor' => Unsaved(u) /\ (cons \in Handling => inflight < u)
    BY <1>1, <2>2 DEF Tx
  <2>. QED  BY <2>1, <2>3, <2>4
<1>4. UpcomingUnsaved'
  BY <1>3 DEF UpcomingUnsaved, Unsaved
<1>5. PipelineOrdered'
  <2>1. \A i, j \in 1..Len(queue') : i < j => queue'[i] < queue'[j]
    BY <1>1, <1>2 DEF ForwardCore, PipelineOrdered
  <2>2. \A i \in 1..Len(queue') : queue'[i] < cursor'
    BY <1>1, <1>2, NAssumption DEF ForwardCore, PipelineOrdered, Tx
  <2>. QED  BY <2>1, <2>2 DEF PipelineOrdered
<1>6. HandlerUnsaved' /\ StartsAtCheckpoint'
  BY DEF ForwardCore, HandlerUnsaved, StartsAtCheckpoint, Unsaved
<1>. QED  BY <1>4, <1>5, <1>6 DEF ForwardCore

\* The receiver hands transactions on in the order of the walsender.
LEMMA ForwardReceive ==
    ASSUME TypeInv, ForwardCore, Receiver
    PROVE  ForwardCore'
<1>. USE DEF pgVars, appVars, runVars, histVars
<1>1. CASE ReceiveBegin
  <2>1. CASE current_xid # NoTx
    BY <1>1, <2>1, ForwardGone DEF ReceiveBegin, RunFails, ConnectionGone, TasksGone
  <2>2. CASE current_xid = NoTx
    BY <1>1, <2>2, ForwardShrinks DEF ReceiveBegin, NextFrame
  <2>. QED  BY <2>1, <2>2
<1>2. CASE ReceiveCommit
  <2>1. /\ phase = "running" /\ cursor' = cursor + 1 /\ cursor \in Tx
        /\ recv = "read"
        /\ UNCHANGED <<checkpoint, cons, inflight, saving, phase, start_lsn>>
    <3>1. cursor \in Tx
      BY <1>2, NAssumption DEF ReceiveCommit, TypeInv, TypeOK, PgTypeOK, Holds, Tx
    <3>. QED  BY <1>2, <3>1 DEF ReceiveCommit
  <2>2. /\ Upcoming(cursor) /\ Unsaved(cursor)
        /\ cons \in Handling => inflight < cursor
    BY <2>1 DEF Upcoming, ForwardCore, UpcomingUnsaved
  <2>3. cursor' \in Tx => Unsaved(cursor')
    BY <2>1, <2>2, LaterRecord, OwnRecord, WalAssumption
    DEF Unsaved, TypeInv, TypeOK, AppTypeOK, NoCheckpoint, Tx
  <2>4. \A i \in 1..Len(queue) : queue[i] < cursor
    BY <2>1 DEF ForwardCore, PipelineOrdered
  <2>5. CASE queue' = Append(queue, cursor) /\ recv' = recv
    BY <2>1, <2>2, <2>3, <2>4, <2>5, ForwardEnqueue DEF Tx
  <2>6. CASE queue' = queue /\ (recv' = "put" => blocked' = cursor)
    <3>1. /\ queue \in Seq(Tx) /\ Len(queue) \in Nat /\ inflight \in Int
          /\ \A i \in 1..Len(queue) : queue[i] \in Tx
      BY DEF TypeInv, TypeOK, QueueTypeOK, TaskTypeOK
    <3>2. ASSUME NEW u \in Tx, Upcoming(u)'
          PROVE  Unsaved(u) /\ (cons \in Handling => inflight < u)
      <4>1. Upcoming(u) \/ u = cursor'
        BY <2>6, <2>2, <3>2 DEF Upcoming
      <4>2. Upcoming(u) => Unsaved(u) /\ (cons \in Handling => inflight < u)
        BY <2>1 DEF ForwardCore, UpcomingUnsaved
      <4>3. u = cursor' => Unsaved(u) /\ (cons \in Handling => inflight < u)
        BY <2>1, <2>2, <2>3, <3>1 DEF Tx
      <4>. QED  BY <4>1, <4>2, <4>3
    <3>3. UpcomingUnsaved'
      BY <2>1, <3>2 DEF UpcomingUnsaved, Unsaved
    <3>4. PipelineOrdered'
      <4>1. \A i \in 1..Len(queue) : queue[i] < cursor'
        BY <2>1, <2>4, <3>1 DEF Tx
      <4>2. cursor < cursor'
        BY <2>1 DEF Tx
      <4>. QED  BY <2>1, <2>4, <2>6, <4>1, <4>2 DEF ForwardCore, PipelineOrdered
    <3>5. HandlerUnsaved' /\ StartsAtCheckpoint'
      BY <2>1 DEF ForwardCore, HandlerUnsaved, StartsAtCheckpoint, Unsaved
    <3>. QED  BY <3>3, <3>4, <3>5 DEF ForwardCore
  <2>. QED  BY <1>2, <2>5, <2>6 DEF ReceiveCommit
<1>3. CASE PutCompletes
  <2>1. /\ phase = "running" /\ recv = "put" /\ blocked \in Tx
        /\ UNCHANGED <<checkpoint, cursor, cons, inflight, saving, phase, start_lsn>>
    BY <1>3 DEF PutCompletes, TypeInv, Holds
  <2>2. CASE recv' = "done" /\ queue' = queue
    BY <2>1, <2>2, ForwardShrinks
  <2>3. CASE queue' = Append(queue, blocked) /\ recv' = "read"
    <3>1. /\ Upcoming(blocked) /\ blocked < cursor
          /\ \A i \in 1..Len(queue) : queue[i] < blocked
      BY <2>1 DEF Upcoming, ForwardCore, PipelineOrdered
    <3>2. cursor \in Int /\ (cursor \in Tx => Unsaved(cursor))
      BY <2>1
      DEF TypeInv, TypeOK, PgTypeOK, ForwardCore, UpcomingUnsaved, Upcoming
    <3>3. cursor' = cursor /\ cursor' >= cursor /\ recv' # "put"
      BY <2>1, <2>3, <3>2
    <3>. QED  BY <2>1, <2>3, <3>1, <3>2, <3>3, ForwardEnqueue
  <2>. QED  BY <1>3, <2>2, <2>3 DEF PutCompletes
<1>4. CASE HandleKeepalive
  <2>1. recv' # "put" /\ queue' = queue
    BY <1>4 DEF HandleKeepalive, NextFrame
  <2>. QED  BY <1>4, <2>1, ForwardShrinks DEF HandleKeepalive
<1>5. CASE StatusTimer
  <2>1. queue' = queue /\ (recv' = "put" => recv = "put" /\ blocked' = blocked)
    BY <1>5 DEF StatusTimer
  <2>. QED  BY <1>5, <2>1, ForwardShrinks DEF StatusTimer
<1>. QED  BY <1>1, <1>2, <1>3, <1>4, <1>5 DEF Receiver

\* The handler is called with the next transaction: the others come later.
LEMMA ForwardProcess ==
    ASSUME TypeInv, ForwardCore, Process
    PROVE  ForwardCore'
<1>. USE DEF pgVars, runVars, histVars
<1>1. /\ phase = "running" /\ cons' = "called" /\ inflight' = Head(queue)
      /\ queue' = Tail(queue) /\ queue # <<>> /\ queue \in Seq(Tx)
      /\ UNCHANGED <<checkpoint, cursor, recv, blocked, saving, phase, start_lsn>>
  BY DEF Process, TypeInv, TypeOK, QueueTypeOK
<1>2. /\ Len(queue) \in Nat \ {0} /\ inflight' = queue[1] /\ queue[1] \in Tx
      /\ Len(queue') = Len(queue) - 1
      /\ \A i \in 1..Len(queue') : queue'[i] = queue[i + 1]
  <2>. HIDE DEF pgVars, runVars, histVars
  <2>1. /\ Len(queue) \in Nat \ {0} /\ Head(queue) = queue[1] /\ queue[1] \in Tx
        /\ Len(Tail(queue)) = Len(queue) - 1
        /\ \A i \in 1..(Len(queue) - 1) : Tail(queue)[i] = queue[i + 1]
    BY <1>1
  <2>. QED  BY <1>1, <2>1
<1>3. \A i \in 1..Len(queue') : i + 1 \in 1..Len(queue) /\ 1 < i + 1
  BY <1>2
<1>4. /\ \A i, j \in 1..Len(queue) : i < j => queue[i] < queue[j]
      /\ \A i \in 1..Len(queue) : queue[i] < cursor
      /\ recv = "put" => blocked < cursor
      /\ recv = "put" => \A i \in 1..Len(queue) : queue[i] < blocked
  BY <1>1 DEF ForwardCore, PipelineOrdered
<1>5. 1 \in 1..Len(queue) /\ Upcoming(queue[1]) /\ Unsaved(queue[1])
  <2>1. 1 \in 1..Len(queue)
    BY <1>2
  <2>2. Upcoming(queue[1])
    BY <2>1 DEF Upcoming
  <2>. QED  BY <1>1, <1>2, <2>1, <2>2 DEF ForwardCore, UpcomingUnsaved
<1>6. ASSUME NEW t \in Tx, Upcoming(t)'
      PROVE  Unsaved(t) /\ queue[1] < t
  <2>1. CASE \E i \in 1..Len(queue') : queue'[i] = t
    <3>1. PICK i \in 1..Len(queue') : queue[i + 1] = t
      BY <1>2, <2>1
    <3>2. Upcoming(t) /\ queue[1] < t
      BY <1>3, <1>4, <1>5, <3>1 DEF Upcoming
    <3>. QED  BY <1>1, <3>2 DEF ForwardCore, UpcomingUnsaved
  <2>2. CASE recv = "put" /\ t = blocked
    <3>1. Upcoming(t) /\ queue[1] < t
      BY <1>4, <1>5, <2>2 DEF Upcoming
    <3>. QED  BY <1>1, <3>1 DEF ForwardCore, UpcomingUnsaved
  <2>3. CASE t = cursor
    <3>1. Upcoming(t) /\ queue[1] < t
      BY <1>4, <1>5, <2>3 DEF Upcoming
    <3>. QED  BY <1>1, <3>1 DEF ForwardCore, UpcomingUnsaved
  <2>. QED  BY <1>1, <1>6, <2>1, <2>2, <2>3 DEF Upcoming
<1>7. UpcomingUnsaved'
  BY <1>1, <1>2, <1>6 DEF UpcomingUnsaved, Unsaved
<1>8. PipelineOrdered'
  <2>1. \A i, j \in 1..Len(queue') : i < j => queue'[i] < queue'[j]
    <3>1. ASSUME NEW i \in 1..Len(queue'), NEW j \in 1..Len(queue'), i < j
          PROVE  queue'[i] < queue'[j]
      <4>1. i + 1 < j + 1 /\ queue'[i] = queue[i + 1] /\ queue'[j] = queue[j + 1]
        BY <1>2, <3>1
      <4>. QED  BY <1>3, <1>4, <4>1
    <3>. QED  BY <3>1
  <2>2. \A i \in 1..Len(queue') : /\ queue'[i] < cursor
                                  /\ recv = "put" => queue'[i] < blocked
    BY <1>2, <1>3, <1>4
  <2>. QED  BY <1>1, <1>4, <2>1, <2>2 DEF PipelineOrdered
<1>9. HandlerUnsaved' /\ StartsAtCheckpoint'
  BY <1>1, <1>2, <1>5 DEF HandlerUnsaved, StartsAtCheckpoint, Unsaved
<1>. QED  BY <1>7, <1>8, <1>9 DEF ForwardCore

\* The handler saves its own position: everything upcoming is still beyond it.
LEMMA ForwardSaves ==
    ASSUME TypeInv, ForwardCore, phase = "running",
           cons \in {"called", "effected", "uncommitted"},
           checkpoint' = CommitLsn(inflight), cons' \in {"committed", "saved"},
           cons' = "committed" => saving' = CommitLsn(inflight),
           UNCHANGED <<queue, recv, blocked, cursor, inflight, phase, start_lsn>>
    PROVE  ForwardCore'
<1>1. inflight \in Tx /\ cons \in Handling /\ cons' \in Handling
  BY DEF TypeInv, Holds, Handling
<1>2. ASSUME NEW t \in Tx, Upcoming(t)'
      PROVE  CommitLsn(inflight) < CommitStart[t] /\ inflight < t
  <2>1. Upcoming(t)
    BY <1>2 DEF Upcoming
  <2>2. inflight < t
    BY <1>1, <2>1 DEF ForwardCore, UpcomingUnsaved
  <2>. QED  BY <1>1, <2>2, LaterRecord
<1>3. UpcomingUnsaved'
  BY <1>2 DEF UpcomingUnsaved, Unsaved
<1>4. PipelineOrdered' /\ HandlerUnsaved' /\ StartsAtCheckpoint'
  BY DEF ForwardCore, PipelineOrdered, HandlerUnsaved, StartsAtCheckpoint, CommitLsn
<1>. QED  BY <1>3, <1>4 DEF ForwardCore

\* The handler goes on without touching the checkpoint.
LEMMA ForwardHandles ==
    ASSUME ForwardCore, phase = "running", HandlerUnsaved',
           cons' \in Handling => cons \in Handling /\ inflight' = inflight,
           UNCHANGED <<checkpoint, queue, recv, blocked, cursor, phase, start_lsn>>
    PROVE  ForwardCore'
  BY DEF ForwardCore, UpcomingUnsaved, Upcoming, Unsaved, PipelineOrdered,
         StartsAtCheckpoint

\* The consumer, when handlers save the position of their own transaction.
LEMMA ForwardConsume ==
    ASSUME TypeInv, ForwardCore, SaveLsns = {}, Consumer
    PROVE  ForwardCore'
<1>. USE DEF pgVars, appVars, runVars, histVars
<1>0. Requested = {CommitLsn(inflight)}
  BY DEF Requested
<1>1. CASE Process
  BY <1>1, ForwardProcess
<1>2. CASE ConsumerStops
  <2>1. HandlerUnsaved' /\ cons' \notin Handling
    BY <1>2 DEF ConsumerStops, HandlerUnsaved, Handling
  <2>. QED  BY <1>2, <2>1, ForwardHandles DEF ConsumerStops
<1>3. CASE HandlerEffect
  <2>1. HandlerUnsaved' /\ cons \in Handling
    BY <1>3
    DEF HandlerEffect, ForwardCore, HandlerUnsaved, Handling, Unsaved
  <2>. QED  BY <1>3, <2>1, ForwardHandles DEF HandlerEffect
<1>4. CASE SaveCommitted
  <2>1. checkpoint' = CommitLsn(inflight) /\ saving' = CommitLsn(inflight)
    BY <1>0, <1>4 DEF SaveCommitted
  <2>. QED  BY <1>4, <2>1, ForwardSaves DEF SaveCommitted
<1>5. CASE SaveRecorded
  <2>1. HandlerUnsaved' /\ cons \in Handling
    BY <1>5
    DEF SaveRecorded, ForwardCore, HandlerUnsaved, Handling, CommitLsn
  <2>. QED  BY <1>5, <2>1, ForwardHandles DEF SaveRecorded
<1>6. CASE SaveOnConnection
  <2>1. saving' = CommitLsn(inflight)
    BY <1>0, <1>6 DEF SaveOnConnection
  <2>2. HandlerUnsaved' /\ cons \in Handling
    BY <1>6, <2>1
    DEF SaveOnConnection, ForwardCore, HandlerUnsaved, Handling, Unsaved, CommitLsn
  <2>. QED  BY <1>6, <2>2, ForwardHandles DEF SaveOnConnection
<1>7. CASE CallerCommits
  <2>1. checkpoint' = CommitLsn(inflight)
    BY <1>7 DEF CallerCommits, ForwardCore, HandlerUnsaved
  <2>. QED  BY <1>7, <2>1, ForwardSaves DEF CallerCommits
<1>8. CASE HandlerReturns
  <2>1. HandlerUnsaved' /\ cons' \notin Handling
    BY <1>8 DEF HandlerReturns, HandlerUnsaved, Handling
  <2>. QED  BY <1>8, <2>1, ForwardHandles DEF HandlerReturns
<1>. QED
  BY <1>1, <1>2, <1>3, <1>4, <1>5, <1>6, <1>7, <1>8 DEF Consumer

\* Every step keeps the checkpoint behind what is still to come.
LEMMA NextForward ==
    ASSUME TypeInv, OrderInv, ForwardInv, SaveLsns = {}, [Next]_vars
    PROVE  ForwardInv'
<1>. SUFFICES ASSUME ~stale' PROVE ForwardCore'
  BY DEF ForwardInv
<1>0. ~stale /\ ForwardCore
  BY StaleSticky DEF ForwardInv
<1>. USE DEF pgVars, appVars, runVars, taskVars, histVars
<1>1. CASE UNCHANGED vars \/ CommitTx \/ Close
  <2>1. /\ UNCHANGED <<checkpoint, cursor, cons, inflight, saving, phase, start_lsn,
                       recv, blocked>>
        /\ queue' \in {queue, <<>>}
    BY <1>1 DEF vars, CommitTx, Close
  <2>. QED  BY <1>0, <2>1, ForwardShrinks
<1>2. CASE StartProcess \/ AttemptRefused \/ AttemptBreaks
  BY <1>0, <1>2, ForwardOutside
<1>3. CASE RunOnce
  <2>1. CASE LoadCheckpoint \/ Connect \/ CreateSlotIfMissing \/ ReconnectDelay
    BY <1>0, <2>1, ForwardOutside
  <2>2. CASE StartReplication
    BY <1>0, <2>2, ForwardStart
  <2>3. CASE FinalStatus
    BY <2>3
    DEF FinalStatus, ForwardCore, UpcomingUnsaved, PipelineOrdered, HandlerUnsaved,
        StartsAtCheckpoint
  <2>4. CASE EndCopy
    BY <2>4, ForwardGone DEF EndCopy, ConnectionGone, TasksGone
  <2>. QED  BY <1>3, <2>1, <2>2, <2>3, <2>4 DEF RunOnce
<1>4. CASE Receiver
  BY <1>0, <1>4, ForwardReceive
<1>5. CASE Consumer
  BY <1>0, <1>5, ForwardConsume
<1>6. CASE Crash \/ HandlerRaises \/ ShutdownCut
  <2>1. cons' = "idle" /\ phase' \in {"down", "failed", "stopped"}
    BY <1>6
    DEF Crash, HandlerRaises, ShutdownCut, RunFails, ConnectionGone, TasksGone
  <2>. QED  BY <2>1, ForwardGone
<1>7. CASE ConnectionLost
  <2>1. /\ cons' = "idle" /\ phase' \in {"stopped", "backoff"}
        /\ queue' = queue /\ stale' = (stale \/ queue # <<>>)
    BY <1>7 DEF ConnectionLost, RunRetries, ConnectionGone, TasksGone
  <2>2. queue' = <<>>
    BY <2>1
  <2>. QED  BY <2>1, <2>2, ForwardGone
<1>. QED
  BY <1>1, <1>2, <1>3, <1>4, <1>5, <1>6, <1>7 DEF Next, Failing

\* What each action leaves of the effects and the checkpoint: they change only
\* when a handler applies or saves.
LEMMA AppUnchanged ==
    ASSUME [Next]_vars, ~HandlerEffect, ~SaveCommitted, ~CallerCommits
    PROVE  UNCHANGED <<checkpoint, effects>>
<1>. USE DEF pgVars, appVars, runVars, taskVars, histVars
<1>1. CASE UNCHANGED vars \/ CommitTx \/ Close \/ StartProcess
  BY <1>1 DEF vars, CommitTx, Close, StartProcess
<1>2. CASE RunOnce
  BY <1>2
  DEF RunOnce, LoadCheckpoint, Connect, CreateSlotIfMissing, StartReplication,
      ReconnectDelay, FinalStatus, EndCopy
<1>3. CASE Receiver
  BY <1>3
  DEF Receiver, ReceiveBegin, ReceiveCommit, PutCompletes, HandleKeepalive,
      StatusTimer
<1>4. CASE Consumer
  BY <1>4
  DEF Consumer, Process, ConsumerStops, SaveRecorded, SaveOnConnection,
      HandlerReturns
<1>5. CASE Failing
  BY <1>5
  DEF Failing, Crash, AttemptRefused, AttemptBreaks, ConnectionLost,
      HandlerRaises, ShutdownCut
<1>. QED  BY <1>1, <1>2, <1>3, <1>4, <1>5 DEF Next

\* A sink applies a transaction and moves the checkpoint over it in one step,
\* and the transaction was beyond the checkpoint.
LEMMA NextOnce ==
    ASSUME TypeInv, ForwardInv, OnceInv, SaveLsns = {}, "adhoc" \notin SaveModes,
           cons # "effected", [Next]_vars
    PROVE  OnceInv'
<1>. SUFFICES ASSUME ~stale' PROVE AppliedIsSaved'
  BY DEF OnceInv
<1>0. ForwardCore /\ AppliedIsSaved
  BY StaleSticky DEF ForwardInv, OnceInv
<1>1. ~HandlerEffect /\ ~SaveCommitted
  BY DEF HandlerEffect, SaveCommitted
<1>2. CASE CallerCommits
  <2>1. /\ cons = "uncommitted" /\ checkpoint' = saving
        /\ effects' = [effects EXCEPT ![inflight] = MinOf(@ + 1, 2)]
    BY <1>2 DEF CallerCommits, Apply
  <2>2. /\ inflight \in Tx /\ checkpoint < CommitStart[inflight]
        /\ checkpoint' = CommitLsn(inflight)
    BY <1>0, <2>1
    DEF TypeInv, Holds, Handling, ForwardCore, HandlerUnsaved, Unsaved
  <2>3. effects[inflight] = 0
    BY <1>0, <2>2
    DEF AppliedIsSaved, Unsaved, Processed, TypeInv, TypeOK, AppTypeOK
  <2>4. effects'[inflight] = 1 /\ \A t \in Tx \ {inflight} : effects'[t] = effects[t]
    BY <2>1, <2>2, <2>3 DEF TypeInv, TypeOK, AppTypeOK, MinOf
  <2>5. CommitStart[inflight] <= checkpoint' /\ checkpoint < checkpoint'
    BY <2>2, OwnRecord DEF TypeInv, TypeOK, AppTypeOK, NoCheckpoint
  <2>6. ASSUME NEW t \in Tx
        PROVE  effects'[t] <= 1 /\ (effects'[t] > 0 => ~(checkpoint' < CommitStart[t]))
    <3>1. CASE t = inflight
      BY <2>2, <2>4, <2>5, <3>1, OwnRecord
    <3>2. CASE t # inflight
      <4>1. effects[t] <= 1 /\ (effects[t] > 0 => ~(checkpoint < CommitStart[t]))
        BY <1>0 DEF AppliedIsSaved, Processed, Unsaved
      <4>2. checkpoint \in Int /\ checkpoint' \in Int /\ CommitStart[t] \in Int
        BY <2>2, OwnRecord DEF TypeInv, TypeOK, AppTypeOK, NoCheckpoint
      <4>. QED  BY <2>4, <2>5, <3>2, <4>1, <4>2
    <3>. QED  BY <3>1, <3>2
  <2>. QED  BY <2>6 DEF AppliedIsSaved, Processed, Unsaved
<1>3. CASE ~CallerCommits
  <2>1. UNCHANGED <<checkpoint, effects>>
    BY <1>1, <1>3, AppUnchanged
  <2>. QED  BY <1>0, <2>1 DEF AppliedIsSaved, Processed, Unsaved
<1>. QED  BY <1>2, <1>3

\* A client whose handlers save on the connection never enters the state in
\* which an effect is applied and nothing is saved.
LEMMA NextNeverEffected ==
    ASSUME cons # "effected", "adhoc" \notin SaveModes, [Next]_vars
    PROVE  cons' # "effected"
<1>. USE DEF pgVars, appVars, runVars, taskVars, histVars
<1>1. CASE UNCHANGED vars \/ CommitTx \/ Close \/ StartProcess
  BY <1>1 DEF vars, CommitTx, Close, StartProcess
<1>2. CASE RunOnce
  BY <1>2
  DEF RunOnce, LoadCheckpoint, Connect, CreateSlotIfMissing, StartReplication,
      ReconnectDelay, FinalStatus, EndCopy, ConnectionGone, TasksGone
<1>3. CASE Receiver
  BY <1>3
  DEF Receiver, ReceiveBegin, ReceiveCommit, PutCompletes, HandleKeepalive,
      StatusTimer, ConnectionGone, TasksGone
<1>4. CASE Consumer
  BY <1>4
  DEF Consumer, Process, ConsumerStops, HandlerEffect, SaveCommitted, SaveRecorded,
      SaveOnConnection, CallerCommits, HandlerReturns
<1>5. CASE Failing
  BY <1>5
  DEF Failing, Crash, AttemptRefused, AttemptBreaks, ConnectionLost,
      HandlerRaises, ShutdownCut, ConnectionGone, TasksGone
<1>. QED  BY <1>1, <1>2, <1>3, <1>4, <1>5 DEF Next

(* A sink that saves the position of its own transaction on the connection of
   its effect applies every transaction at most once, through crashes, drops,
   handler exceptions and shutdowns, unless a reconnect kept a stale queue. *)
THEOREM SinkAppliesOnce ==
    ASSUME "adhoc" \notin SaveModes, SaveLsns = {}
    PROVE  Spec => []AppliedOnceUnlessStale
<1>. DEFINE Inv == /\ TypeInv /\ OrderInv /\ ForwardInv /\ OnceInv
                   /\ cons # "effected"
<1>1. Init => Inv
  <2>1. Init => OnceInv
    BY DEF Init, OnceInv, AppliedIsSaved, Processed
  <2>2. Init => cons # "effected"
    BY DEF Init
  <2>. QED  BY <2>1, <2>2, InitType, InitOrder, InitForward DEF ForwardInv
<1>2. Inv /\ [Next]_vars => Inv'
  BY NextType, NextOrder, NextForward, NextOnce, NextNeverEffected
<1>3. Inv => AppliedOnceUnlessStale
  BY DEF OnceInv, AppliedIsSaved, AppliedOnceUnlessStale, AppliedAtMostOnce
<1>. QED  BY <1>1, <1>2, <1>3, PTL DEF Spec

-----------------------------------------------------------------------------
\* A handler that saves on its own never leaves a row uncommitted.
LEMMA NextNeverUncommitted ==
    ASSUME cons # "uncommitted", "connection" \notin SaveModes, [Next]_vars
    PROVE  cons' # "uncommitted"
<1>. USE DEF pgVars, appVars, runVars, taskVars, histVars
<1>1. CASE UNCHANGED vars \/ CommitTx \/ Close \/ StartProcess
  BY <1>1 DEF vars, CommitTx, Close, StartProcess
<1>2. CASE RunOnce
  BY <1>2
  DEF RunOnce, LoadCheckpoint, Connect, CreateSlotIfMissing, StartReplication,
      ReconnectDelay, FinalStatus, EndCopy, ConnectionGone, TasksGone
<1>3. CASE Receiver
  BY <1>3
  DEF Receiver, ReceiveBegin, ReceiveCommit, PutCompletes, HandleKeepalive,
      StatusTimer, ConnectionGone, TasksGone
<1>4. CASE Consumer
  BY <1>4
  DEF Consumer, Process, ConsumerStops, HandlerEffect, SaveCommitted, SaveRecorded,
      SaveOnConnection, CallerCommits, HandlerReturns
<1>5. CASE Failing
  BY <1>5
  DEF Failing, Crash, AttemptRefused, AttemptBreaks, ConnectionLost,
      HandlerRaises, ShutdownCut, ConnectionGone, TasksGone
<1>. QED  BY <1>1, <1>2, <1>3, <1>4, <1>5 DEF Next

\* Feedback stays behind a checkpoint that only grows, when the client reports
\* what is saved and PostgreSQL takes over what it reports.
LEMMA FeedbackStep ==
    ASSUME TypeInv, ReportsSaved, FeedbackWithinCheckpoint, UNCHANGED slot_from,
           checkpoint' \in Int, checkpoint <= checkpoint',
           \/ durable_lsn' \in {0, durable_lsn}
           \/ durable_lsn' <= checkpoint',
           \/ UNCHANGED confirmed_flush
           \/ SendStatus
    PROVE  ReportsSaved' /\ FeedbackWithinCheckpoint'
<1>1. /\ checkpoint \in Int /\ durable_lsn \in Nat /\ confirmed_flush \in Nat
  BY DEF TypeInv, TypeOK, AppTypeOK, RunTypeOK, PgTypeOK, NoCheckpoint
<1>2. ReportsSaved'
  BY <1>1 DEF ReportsSaved
<1>3. ASSUME NEW t \in Tx, Visible(t), CommitStart[t] < confirmed_flush'
      PROVE  CommitStart[t] < checkpoint' + 1
  <2>1. CommitStart[t] \in Nat /\ CommitStart[t] > 0
    BY OwnRecord
  <2>2. CASE CommitStart[t] < confirmed_flush
    <3>1. CommitStart[t] < checkpoint + 1
      BY <1>3, <2>2 DEF FeedbackWithinCheckpoint, Covered
    <3>. QED  BY <1>1, <2>1, <3>1
  <2>3. CASE ~(CommitStart[t] < confirmed_flush)
    <3>1. confirmed_flush' = durable_lsn + 1
      BY <1>1, <1>3, <2>1, <2>3 DEF SendStatus, StatusFlush, MaxOf
    <3>. QED  BY <1>1, <1>3, <2>1, <3>1 DEF ReportsSaved
  <2>. QED  BY <2>2, <2>3
<1>4. FeedbackWithinCheckpoint'
  BY <1>3 DEF FeedbackWithinCheckpoint, Covered, Visible
<1>. QED  BY <1>2, <1>4

\* A new slot starts after everything committed, which it does not see.
LEMMA FeedbackNewSlot ==
    ASSUME TypeInv, CreateSlotIfMissing, slot_from = NoSlot
    PROVE  FeedbackWithinCheckpoint'
<1>1. slot_from' = committed /\ confirmed_flush' = InsertLsn
  BY DEF CreateSlotIfMissing
<1>2. committed \in 0..N
  BY DEF TypeInv, TypeOK, PgTypeOK
<1>3. ASSUME NEW t \in Tx, t > committed
      PROVE  ~(CommitStart[t] < InsertLsn)
  <2>1. CommitStart[t] \in Nat /\ CommitStart[t] > 0
    BY OwnRecord
  <2>2. CASE committed = 0
    BY <2>1, <2>2 DEF InsertLsn
  <2>3. CASE committed # 0
    <3>1. committed \in Tx /\ committed < t
      BY <1>2, <1>3, <2>3, NAssumption DEF Tx
    <3>2. EndLsn[committed] <= CommitStart[t] /\ EndLsn[committed] \in Nat
      BY <3>1, WalAssumption
    <3>. QED  BY <2>1, <2>3, <3>2 DEF InsertLsn
  <2>. QED  BY <2>2, <2>3
<1>. QED  BY <1>1, <1>3 DEF FeedbackWithinCheckpoint, Covered, Visible

\* What the steps that leave the checkpoint and the report alone do to the
\* slot's position.
LEMMA FeedbackQuiet ==
    ASSUME [Next]_vars, ~SaveCommitted, ~SaveRecorded, ~SaveOnConnection,
           ~CallerCommits, ~CreateSlotIfMissing
    PROVE  /\ UNCHANGED <<checkpoint, slot_from>>
           /\ \/ durable_lsn' \in {0, durable_lsn}
              \/ durable_lsn' = checkpoint
           /\ \/ UNCHANGED confirmed_flush
              \/ SendStatus
<1>. USE DEF pgVars, appVars, runVars, taskVars, histVars
<1>1. CASE UNCHANGED vars \/ CommitTx \/ Close \/ StartProcess
  BY <1>1 DEF vars, CommitTx, Close, StartProcess
<1>2. CASE RunOnce
  BY <1>2
  DEF RunOnce, LoadCheckpoint, Connect, StartReplication, ReconnectDelay,
      FinalStatus, EndCopy, ConnectionGone, TasksGone
<1>3. CASE Receiver
  BY <1>3
  DEF Receiver, ReceiveBegin, ReceiveCommit, PutCompletes, HandleKeepalive,
      StatusTimer, ConnectionGone, TasksGone
<1>4. CASE Consumer
  BY <1>4
  DEF Consumer, Process, ConsumerStops, HandlerEffect, HandlerReturns
<1>5. CASE Failing
  BY <1>5
  DEF Failing, Crash, AttemptRefused, AttemptBreaks, ConnectionLost,
      HandlerRaises, ShutdownCut, ConnectionGone, TasksGone
<1>. QED  BY <1>1, <1>2, <1>3, <1>4, <1>5 DEF Next

\* A handler that saves its own position on its own: the row is committed
\* before _on_saved, and never moves back.
LEMMA NextFeedback ==
    ASSUME TypeInv, TypeInv', ForwardInv, FeedbackInv, SaveLsns = {},
           "connection" \notin SaveModes, cons # "uncommitted", [Next]_vars
    PROVE  FeedbackInv'
<1>. SUFFICES ASSUME ~stale' PROVE ReportsSaved' /\ FeedbackWithinCheckpoint'
  BY DEF FeedbackInv
<1>0. ForwardCore /\ ReportsSaved /\ FeedbackWithinCheckpoint
  BY StaleSticky DEF ForwardInv, FeedbackInv
<1>t. checkpoint \in Int /\ checkpoint' \in Int /\ durable_lsn \in Nat
  BY DEF TypeInv, TypeOK, AppTypeOK, RunTypeOK, NoCheckpoint
<1>. USE DEF pgVars, appVars, runVars, taskVars, histVars
<1>1. CASE SaveCommitted
  <2>1. /\ checkpoint' = CommitLsn(inflight) /\ cons = "effected"
        /\ UNCHANGED <<durable_lsn, confirmed_flush, slot_from>>
    BY <1>1 DEF SaveCommitted, Requested
  <2>2. inflight \in Tx /\ checkpoint < CommitStart[inflight]
    BY <1>0, <2>1 DEF TypeInv, Holds, Handling, ForwardCore, HandlerUnsaved, Unsaved
  <2>3. checkpoint <= checkpoint'
    BY <1>t, <2>1, <2>2, OwnRecord
  <2>. QED  BY <1>0, <1>t, <2>1, <2>3, FeedbackStep
<1>2. CASE SaveRecorded
  <2>1. /\ durable_lsn' = MaxOf(durable_lsn, saving) /\ cons = "committed"
        /\ UNCHANGED <<checkpoint, confirmed_flush, slot_from>>
    BY <1>2 DEF SaveRecorded, Recorded
  <2>2. inflight \in Tx /\ saving = CommitLsn(inflight) /\ checkpoint = CommitLsn(inflight)
    BY <1>0, <2>1 DEF TypeInv, Holds, Handling, ForwardCore, HandlerUnsaved
  <2>3. durable_lsn' <= checkpoint'
    BY <1>0, <1>t, <2>1, <2>2, OwnRecord DEF ReportsSaved, MaxOf
  <2>4. checkpoint <= checkpoint'
    BY <1>t, <2>1
  <2>. QED  BY <1>0, <1>t, <2>1, <2>3, <2>4, FeedbackStep
<1>3. CASE CreateSlotIfMissing
  <2>1. UNCHANGED <<checkpoint, durable_lsn>>
    BY <1>3 DEF CreateSlotIfMissing
  <2>2. CASE slot_from = NoSlot
    BY <1>0, <1>3, <2>1, <2>2, FeedbackNewSlot DEF ReportsSaved
  <2>3. CASE slot_from # NoSlot
    <3>1. UNCHANGED <<slot_from, confirmed_flush>>
      BY <1>3, <2>3 DEF CreateSlotIfMissing
    <3>. QED
      BY <1>0, <2>1, <3>1
      DEF ReportsSaved, FeedbackWithinCheckpoint, Covered, Visible
  <2>. QED  BY <2>2, <2>3
<1>4. CASE ~SaveCommitted /\ ~SaveRecorded /\ ~CreateSlotIfMissing
  <2>1. ~SaveOnConnection /\ ~CallerCommits
    BY DEF SaveOnConnection, CallerCommits
  <2>2. /\ UNCHANGED <<checkpoint, slot_from>>
        /\ \/ durable_lsn' \in {0, durable_lsn}
           \/ durable_lsn' = checkpoint
        /\ \/ UNCHANGED confirmed_flush
           \/ SendStatus
    BY <1>4, <2>1, FeedbackQuiet
  <2>3. checkpoint <= checkpoint' /\ (durable_lsn' = checkpoint => durable_lsn' <= checkpoint')
    BY <1>t, <2>2
  <2>. QED  BY <1>0, <1>t, <2>2, <2>3, FeedbackStep
<1>. QED  BY <1>1, <1>2, <1>3, <1>4

(* A handler that saves the position of its own transaction, on its own, never
   lets the feedback pass the durable checkpoint: whatever PostgreSQL may drop
   the saved row covers, unless a reconnect kept a stale queue. *)
THEOREM FeedbackBehindCheckpoint ==
    ASSUME "connection" \notin SaveModes, SaveLsns = {}
    PROVE  Spec => []FeedbackWithinUnlessStale
<1>. DEFINE Inv == /\ TypeInv /\ OrderInv /\ ForwardInv /\ FeedbackInv
                   /\ cons # "uncommitted"
<1>1. Init => Inv
  <2>1. Init => ReportsSaved /\ FeedbackWithinCheckpoint
    BY NothingCovered DEF Init, ReportsSaved, FeedbackWithinCheckpoint
  <2>2. Init => cons # "uncommitted"
    BY DEF Init
  <2>. QED  BY <2>1, <2>2, InitType, InitOrder, InitForward DEF ForwardInv, FeedbackInv
<1>2. Inv /\ [Next]_vars => Inv'
  BY NextType, NextOrder, NextForward, NextFeedback, NextNeverUncommitted
<1>3. Inv => FeedbackWithinUnlessStale
  BY DEF FeedbackInv, FeedbackWithinUnlessStale
<1>. QED  BY <1>1, <1>2, <1>3, PTL DEF Spec

-----------------------------------------------------------------------------
\* Doubling and capping the delay lengthens it unless it is at its limit.
LEMMA DelayGrows ==
    ASSUME NEW b \in InitialBackoff..MaxBackoff
    PROVE  /\ ~(NextBackoffValue(b) < b)
           /\ NextBackoffValue(b) > b \/ NextBackoffValue(b) = MaxBackoff
  BY BackoffAssumption DEF NextBackoffValue, MinOf

\* A step that shortens the delay starts replication or a process.
LEMMA DelayStep ==
    ASSUME TypeInv, [Next]_vars, next_backoff' < next_backoff
    PROVE  StartReplication \/ StartProcess
<1>. USE DEF pgVars, appVars, runVars, taskVars, histVars
<1>0. next_backoff \in InitialBackoff..MaxBackoff /\ next_backoff \in Int
  BY BackoffAssumption DEF TypeInv, TypeOK, RunTypeOK
<1>1. next_backoff' # next_backoff
  BY <1>0
<1>2. ~(UNCHANGED vars \/ CommitTx \/ Close)
  BY <1>1 DEF vars, CommitTx, Close
<1>3. ~Receiver
  BY <1>1
  DEF Receiver, ReceiveBegin, ReceiveCommit, PutCompletes, HandleKeepalive,
      StatusTimer
<1>4. ~Consumer
  BY <1>1
  DEF Consumer, Process, ConsumerStops, HandlerEffect, SaveCommitted, SaveRecorded,
      SaveOnConnection, CallerCommits, HandlerReturns
<1>5. ~Failing
  BY <1>1
  DEF Failing, Crash, AttemptRefused, AttemptBreaks, ConnectionLost,
      HandlerRaises, ShutdownCut
<1>6. ~ReconnectDelay
  BY <1>0, DelayGrows DEF ReconnectDelay
<1>7. RunOnce => StartReplication
  BY <1>1, <1>6
  DEF RunOnce, LoadCheckpoint, Connect, CreateSlotIfMissing, FinalStatus, EndCopy
<1>. QED  BY <1>2, <1>3, <1>4, <1>5, <1>7 DEF Next

\* A step from the wait to the next attempt lengthens the delay.
LEMMA DelayWaited ==
    ASSUME TypeInv, [Next]_vars, phase = "backoff", phase' = "load"
    PROVE  next_backoff' > next_backoff \/ next_backoff' = MaxBackoff
<1>. USE DEF pgVars, appVars, runVars, taskVars, histVars
<1>0. next_backoff \in InitialBackoff..MaxBackoff
  BY DEF TypeInv, TypeOK, RunTypeOK
<1>1. ~(UNCHANGED vars \/ CommitTx \/ Close \/ StartProcess)
  BY DEF vars, CommitTx, Close, StartProcess
<1>2. ~Receiver
  BY DEF Receiver, ReceiveBegin, ReceiveCommit, PutCompletes, HandleKeepalive,
      StatusTimer
<1>3. ~Consumer
  BY DEF Consumer, Process, ConsumerStops, HandlerEffect, SaveCommitted, SaveRecorded,
      SaveOnConnection, CallerCommits, HandlerReturns
<1>4. ~Failing
  BY DEF Failing, Crash, AttemptRefused, AttemptBreaks, ConnectionLost,
      HandlerRaises, ShutdownCut
<1>5. RunOnce => ReconnectDelay
  BY DEF RunOnce, LoadCheckpoint, Connect, CreateSlotIfMissing, StartReplication,
      FinalStatus, EndCopy
<1>6. ReconnectDelay
  BY <1>1, <1>2, <1>3, <1>4, <1>5 DEF Next
<1>. QED  BY <1>0, <1>6, DelayGrows DEF ReconnectDelay

(* The reconnect delay grows while attempts keep failing, up to _MAX_BACKOFF: only
   a started replication or a new process brings it back to _INITIAL_BACKOFF. *)
THEOREM DelayGrowsUntilSuccess == Spec => BackoffGrowsUntilSuccess
<1>1. Init => TypeInv
  BY InitType
<1>2. TypeInv /\ [Next]_vars => TypeInv'
  BY NextType
<1>3. TypeInv /\ [Next]_vars =>
        [/\ phase = "backoff" /\ phase' = "load" =>
                next_backoff' > next_backoff \/ next_backoff' = MaxBackoff
         /\ next_backoff' < next_backoff =>
                \/ phase = "start" /\ phase' = "running"
                \/ phase' = "load" /\ phase \in {"down", "failed", "stopped"}]_vars
  BY DelayStep, DelayWaited DEF StartReplication, StartProcess
<1>. QED  BY <1>1, <1>2, <1>3, PTL DEF Spec, BackoffGrowsUntilSuccess
=============================================================================
