-------------------------- MODULE ClientLossProofs --------------------------
(***************************************************************************)
(* A client whose handlers apply their effect and then save, each save on  *)
(* a connection of its own, loses nothing as long as no reconnect keeps    *)
(* transactions of the old connection in the queue, and implements         *)
(* AtLeastOnce.                                                            *)
(***************************************************************************)
EXTENDS ClientProofs, ClientRefinement

\* A position is lossless when all it lets PostgreSQL skip was processed.
Lossless(pos) == \A t \in Covered(pos) : Visible(t) => Processed(t)

LosslessPositions ==
    /\ Lossless(checkpoint + 1)
    /\ Lossless(confirmed_flush)
    /\ Lossless(durable_lsn + 1)
    /\ Lossless(start_lsn)

\* A transaction is processed, being handled, or ahead of position k.
Underway(u, k) ==
    \/ Processed(u)
    \/ cons \in Handling /\ u = inflight
    \/ \E j \in 1..(k - 1) : queue[j] = u

QueueComplete ==
    phase = "running" =>
        \A i \in 1..Len(queue) : \A u \in Tx :
            Visible(u) /\ u < queue[i] => Underway(u, i)

BlockedComplete ==
    recv = "put" /\ ~closing =>
        \A u \in Tx : Visible(u) /\ u < blocked => Underway(u, Len(queue) + 1)

CursorComplete ==
    phase = "running" /\ ~closing =>
        \A u \in Tx : Visible(u) /\ u < cursor =>
            Underway(u, Len(queue) + 1) \/ (recv = "put" /\ u = blocked)

\* Handlers come one after the other, and each applies before it saves.
HandlerOrder ==
    /\ cons # "uncommitted"
    /\ cons \in Handling =>
          \A u \in Tx : Visible(u) /\ u < inflight => Processed(u)
    /\ cons \in {"effected", "committed", "saved"} => Processed(inflight)

\* A connection starts with an empty queue.
FreshQueue ==
    phase \in {"load", "connect", "slot", "start", "backoff"} => queue = <<>>

LossCore ==
    /\ LosslessPositions
    /\ QueueComplete /\ BlockedComplete /\ CursorComplete
    /\ HandlerOrder /\ FreshQueue

LossInv == ~stale => LossCore

-----------------------------------------------------------------------------
\* A stale queue is never forgotten.
LEMMA StaleSticky ==
    ASSUME [Next]_vars, ~stale'
    PROVE  ~stale
<1> USE DEF histVars
<1>1. CASE UNCHANGED vars
  BY <1>1, Zenon DEF vars
<1>2. CASE CommitTx
  BY <1>2, Zenon DEF CommitTx
<1>3. CASE StartProcess
  BY <1>3, Zenon DEF StartProcess
<1>4. CASE LoadCheckpoint
  BY <1>4, Zenon DEF LoadCheckpoint
<1>5. CASE Connect
  BY <1>5, Zenon DEF Connect
<1>6. CASE CreateSlotIfMissing
  BY <1>6, Zenon DEF CreateSlotIfMissing
<1>7. CASE StartReplication
  BY <1>7, Zenon DEF StartReplication
<1>8. CASE ReconnectDelay
  BY <1>8, Zenon DEF ReconnectDelay
<1>9. CASE FinalStatus
  BY <1>9, Zenon DEF FinalStatus
<1>10. CASE EndCopy
  BY <1>10, Zenon DEF EndCopy
<1>11. CASE ReceiveBegin
  BY <1>11, Zenon DEF ReceiveBegin
<1>12. CASE ReceiveCommit
  BY <1>12, Zenon DEF ReceiveCommit
<1>13. CASE PutCompletes
  BY <1>13, Zenon DEF PutCompletes
<1>14. CASE HandleKeepalive
  BY <1>14, Zenon DEF HandleKeepalive
<1>15. CASE StatusTimer
  BY <1>15, Zenon DEF StatusTimer
<1>16. CASE Process
  BY <1>16, Zenon DEF Process
<1>17. CASE ConsumerStops
  BY <1>17, Zenon DEF ConsumerStops
<1>18. CASE HandlerEffect
  BY <1>18, Zenon DEF HandlerEffect
<1>19. CASE SaveCommitted
  BY <1>19, Zenon DEF SaveCommitted
<1>20. CASE SaveRecorded
  BY <1>20, Zenon DEF SaveRecorded
<1>21. CASE SaveOnConnection
  BY <1>21, Zenon DEF SaveOnConnection
<1>22. CASE CallerCommits
  BY <1>22, Zenon DEF CallerCommits
<1>23. CASE HandlerReturns
  BY <1>23, Zenon DEF HandlerReturns
<1>24. CASE Crash
  BY <1>24, Zenon DEF Crash
<1>25. CASE AttemptRefused
  BY <1>25, Zenon DEF AttemptRefused
<1>26. CASE AttemptBreaks
  BY <1>26, Zenon DEF AttemptBreaks
<1>27. CASE ConnectionLost
  BY <1>27, Zenon DEF ConnectionLost
<1>28. CASE HandlerRaises
  BY <1>28, Zenon DEF HandlerRaises
<1>29. CASE ShutdownCut
  BY <1>29, Zenon DEF ShutdownCut
<1>30. CASE Close
  BY <1>30, Zenon DEF Close
<1> QED
  BY <1>1, <1>2, <1>3, <1>4, <1>5, <1>6, <1>7, <1>8, <1>9, <1>10, <1>11,
     <1>12, <1>13, <1>14, <1>15, <1>16, <1>17, <1>18, <1>19, <1>20, <1>21,
     <1>22, <1>23, <1>24, <1>25, <1>26, <1>27, <1>28, <1>29, <1>30
     DEF Next, RunOnce, Receiver, Consumer, Failing

\* Positions stay lossless while effects only accumulate.
LEMMA LosslessStep ==
    ASSUME LosslessPositions, UNCHANGED <<slot_from, effects>>,
           UNCHANGED <<checkpoint, confirmed_flush, durable_lsn, start_lsn>>
    PROVE  LosslessPositions'
BY DEF LosslessPositions, Lossless, Covered, Visible, Processed

\* A status update reports a lossless position.
LEMMA StatusLossless ==
    ASSUME TypeInv, LosslessPositions, SendStatus, UNCHANGED <<slot_from, effects>>
    PROVE  Lossless(confirmed_flush)'
BY DEF TypeInv, TypeOK, PgTypeOK, RunTypeOK, LosslessPositions, Lossless, Covered,
       Visible, Processed, SendStatus, StatusFlush, MaxOf

\* What save() may persist once the effect is applied is lossless.
LEMMA SaveLossless ==
    ASSUME TypeInv, HandlerOrder, cons \in {"effected", "committed"},
           NEW lsn \in Nat, SaveAllowed(lsn)
    PROVE  Lossless(lsn + 1)
<1>1. inflight \in Tx
  BY DEF TypeInv, Holds, Handling
<1>2. \A u \in Covered(lsn + 1) : u \in Tx /\ u <= inflight
  BY <1>1, SavedCoversUpTo DEF SaveAllowed, Covered
<1>3. /\ Processed(inflight)
      /\ \A u \in Tx : Visible(u) /\ u < inflight => Processed(u)
  BY DEF HandlerOrder, Handling
<1> QED
  BY <1>1, <1>2, <1>3, NAssumption DEF Lossless, Tx

\* A connection that ends without leaving a queue behind loses nothing.
LEMMA GoneLossless ==
    ASSUME LossCore, ConnectionGone, phase' \notin {"start", "running", "endcopy"},
           UNCHANGED <<appVars, start_lsn, durable_lsn>>, FreshQueue'
    PROVE  LossCore'
<1> USE DEF ConnectionGone, TasksGone, appVars
<1>1. LosslessPositions'
  BY LosslessStep DEF LossCore
<1>2. QueueComplete' /\ BlockedComplete' /\ CursorComplete' /\ HandlerOrder'
  BY DEF QueueComplete, BlockedComplete, CursorComplete, HandlerOrder, Handling
<1> QED
  BY <1>1, <1>2 DEF LossCore

\* Initially nothing is committed, saved or queued.
LEMMA InitLoss == Init => LossInv
<1> SUFFICES ASSUME Init PROVE LossCore
  BY DEF LossInv
<1> USE DEF Init
<1>1. LosslessPositions
  BY DEF LosslessPositions, Lossless, Visible
<1>2. QueueComplete /\ BlockedComplete /\ CursorComplete
  BY DEF QueueComplete, BlockedComplete, CursorComplete
<1>3. HandlerOrder /\ FreshQueue
  BY DEF HandlerOrder, Handling, FreshQueue
<1> QED
  BY <1>1, <1>2, <1>3 DEF LossCore

\* Every step keeps LossInv when no handler saves on its own connection.
LEMMA NextLoss ==
    ASSUME "connection" \notin SaveModes,
           TypeInv, OrderInv, LossInv, [Next]_vars
    PROVE  LossInv'
<1> USE DEF pgVars, appVars, runVars, taskVars, histVars
<1> SUFFICES ASSUME ~stale' PROVE LossCore'
  BY DEF LossInv
<1>0. /\ LossCore
      /\ LosslessPositions
      /\ QueueComplete /\ BlockedComplete /\ CursorComplete
      /\ HandlerOrder /\ FreshQueue
  BY StaleSticky DEF LossInv, LossCore
<1>t. BeforeSlot /\ TasksOnlyInRun /\ HandlerKnown
  BY DEF OrderInv
<1>1. CASE UNCHANGED vars
  <2>1. LosslessPositions'
    BY <1>0, <1>1, LosslessStep DEF vars
  <2>2. QueueComplete'
    BY <1>0, <1>1 DEF vars, QueueComplete, Underway, Visible, Processed
  <2>3. BlockedComplete'
    BY <1>0, <1>1 DEF vars, BlockedComplete, Underway, Visible, Processed
  <2>4. CursorComplete'
    BY <1>0, <1>1 DEF vars, CursorComplete, Underway, Visible, Processed
  <2>5. HandlerOrder'
    BY <1>0, <1>1 DEF vars, HandlerOrder, Handling, Visible, Processed
  <2>6. FreshQueue'
    BY <1>0, <1>1 DEF vars, FreshQueue
  <2> QED BY <2>1, <2>2, <2>3, <2>4, <2>5, <2>6 DEF LossCore
<1>2. CASE CommitTx
  <2>1. LosslessPositions'
    BY <1>0, <1>2, LosslessStep DEF CommitTx
  <2>2. QueueComplete'
    BY <1>0, <1>2 DEF CommitTx, QueueComplete, Underway, Visible, Processed
  <2>3. BlockedComplete'
    BY <1>0, <1>2 DEF CommitTx, BlockedComplete, Underway, Visible, Processed
  <2>4. CursorComplete'
    BY <1>0, <1>2 DEF CommitTx, CursorComplete, Underway, Visible, Processed
  <2>5. HandlerOrder'
    BY <1>0, <1>2 DEF CommitTx, HandlerOrder, Handling, Visible, Processed
  <2>6. FreshQueue'
    BY <1>0, <1>2 DEF CommitTx, FreshQueue
  <2> QED BY <2>1, <2>2, <2>3, <2>4, <2>5, <2>6 DEF LossCore
<1>3. CASE StartProcess
  <2>1. LosslessPositions'
    BY <1>0, <1>3, NothingCovered DEF StartProcess, LosslessPositions,
       Lossless, Covered, Visible, Processed
  <2>2. QueueComplete'
    BY <1>0, <1>3 DEF StartProcess, QueueComplete
  <2>3. BlockedComplete'
    BY <1>0, <1>3, <1>t DEF StartProcess, BlockedComplete, TasksOnlyInRun
  <2>4. CursorComplete'
    BY <1>0, <1>3 DEF StartProcess, CursorComplete
  <2>5. HandlerOrder'
    BY <1>0, <1>3 DEF StartProcess, HandlerOrder, Handling, Visible, Processed
  <2>6. FreshQueue'
    BY <1>0, <1>3 DEF StartProcess, FreshQueue
  <2> QED BY <2>1, <2>2, <2>3, <2>4, <2>5, <2>6 DEF LossCore
<1>4. CASE LoadCheckpoint
  <2>1. LosslessPositions'
    BY <1>0, <1>4, NothingCovered DEF LoadCheckpoint, LosslessPositions,
       Lossless, Visible, Processed
  <2>2. QueueComplete'
    BY <1>0, <1>4 DEF LoadCheckpoint, QueueComplete
  <2>3. BlockedComplete'
    BY <1>0, <1>4, <1>t DEF LoadCheckpoint, BlockedComplete, TasksOnlyInRun
  <2>4. CursorComplete'
    BY <1>0, <1>4 DEF LoadCheckpoint, CursorComplete
  <2>5. HandlerOrder'
    BY <1>0, <1>4 DEF LoadCheckpoint, HandlerOrder, Handling, Visible,
       Processed
  <2>6. FreshQueue'
    BY <1>0, <1>4 DEF LoadCheckpoint, FreshQueue
  <2> QED BY <2>1, <2>2, <2>3, <2>4, <2>5, <2>6 DEF LossCore
<1>5. CASE Connect
  <2>1. LosslessPositions'
    BY <1>0, <1>5, LosslessStep DEF Connect
  <2>2. QueueComplete'
    BY <1>0, <1>5 DEF Connect, QueueComplete
  <2>3. BlockedComplete'
    BY <1>0, <1>5 DEF Connect, BlockedComplete, Underway, Visible, Processed
  <2>4. CursorComplete'
    BY <1>0, <1>5 DEF Connect, CursorComplete
  <2>5. HandlerOrder'
    BY <1>0, <1>5 DEF Connect, HandlerOrder, Handling, Visible, Processed
  <2>6. FreshQueue'
    BY <1>0, <1>5 DEF Connect, FreshQueue
  <2> QED BY <2>1, <2>2, <2>3, <2>4, <2>5, <2>6 DEF LossCore
<1>6. CASE CreateSlotIfMissing
  <2>1. LosslessPositions'
    <3>1. CASE slot_from # NoSlot
      BY <1>0, <1>6, <3>1, LosslessStep DEF CreateSlotIfMissing
    <3>2. CASE slot_from = NoSlot
      <4>1. checkpoint + 1 = 0 /\ durable_lsn + 1 = 1 /\ start_lsn = 0
        BY <1>t, <3>2 DEF BeforeSlot, NoCheckpoint
      <4>2. \A t \in Covered(InsertLsn) : t <= committed
        BY NAssumption, WalAssumption
           DEF Covered, InsertLsn, Tx, TypeInv, TypeOK, PgTypeOK
      <4> QED
        BY <1>6, <3>2, <4>1, <4>2, NothingCovered, NAssumption
           DEF CreateSlotIfMissing, LosslessPositions, Lossless, Visible, Processed, Covered, Tx,
               TypeInv, TypeOK, PgTypeOK
    <3> QED BY <3>1, <3>2
  <2>2. QueueComplete'
    BY <1>0, <1>6 DEF CreateSlotIfMissing, QueueComplete
  <2>3. BlockedComplete'
    BY <1>0, <1>6, <1>t DEF CreateSlotIfMissing, BlockedComplete,
       TasksOnlyInRun
  <2>4. CursorComplete'
    BY <1>0, <1>6 DEF CreateSlotIfMissing, CursorComplete
  <2>5. HandlerOrder'
    BY <1>0, <1>6, <1>t DEF CreateSlotIfMissing, HandlerOrder, TasksOnlyInRun,
       Handling
  <2>6. FreshQueue'
    BY <1>0, <1>6 DEF CreateSlotIfMissing, FreshQueue
  <2> QED BY <2>1, <2>2, <2>3, <2>4, <2>5, <2>6 DEF LossCore
<1>7. CASE StartReplication
  <2>1. LosslessPositions'
    BY <1>0, <1>7, LosslessStep DEF StartReplication
  <2>2. QueueComplete'
    BY <1>0, <1>7, QueueFacts DEF StartReplication, QueueComplete, FreshQueue
  <2>3. BlockedComplete'
    BY <1>0, <1>7 DEF StartReplication, BlockedComplete
  <2>4. CursorComplete'
    <3>1. PICK c \in 1..(N + 1) :
              /\ FirstSent(c, MaxOf(start_lsn, confirmed_flush))
              /\ cursor' = c
      BY <1>7 DEF StartReplication
    <3>2. \A u \in Covered(MaxOf(start_lsn, confirmed_flush)) :
              Visible(u) => Processed(u)
      BY <1>0, MaxOfFacts DEF LosslessPositions, Lossless, TypeInv, TypeOK, PgTypeOK, RunTypeOK
    <3>3. \A u \in Tx : Visible(u) /\ u < c => Processed(u)
      BY <3>1, <3>2 DEF FirstSent, Visible
    <3> QED
      BY <1>7, <3>1, <3>3 DEF StartReplication, CursorComplete, Underway, Visible, Processed
  <2>5. HandlerOrder'
    BY <1>0, <1>7 DEF StartReplication, HandlerOrder, Handling, Visible,
       Processed
  <2>6. FreshQueue'
    BY <1>0, <1>7 DEF StartReplication, FreshQueue
  <2> QED BY <2>1, <2>2, <2>3, <2>4, <2>5, <2>6 DEF LossCore
<1>8. CASE ReconnectDelay
  <2>1. LosslessPositions'
    BY <1>0, <1>8, LosslessStep DEF ReconnectDelay
  <2>2. QueueComplete'
    BY <1>0, <1>8 DEF ReconnectDelay, QueueComplete
  <2>3. BlockedComplete'
    BY <1>0, <1>8 DEF ReconnectDelay, BlockedComplete, Underway, Visible,
       Processed
  <2>4. CursorComplete'
    BY <1>0, <1>8 DEF ReconnectDelay, CursorComplete
  <2>5. HandlerOrder'
    BY <1>0, <1>8 DEF ReconnectDelay, HandlerOrder, Handling, Visible,
       Processed
  <2>6. FreshQueue'
    BY <1>0, <1>8 DEF ReconnectDelay, FreshQueue
  <2> QED BY <2>1, <2>2, <2>3, <2>4, <2>5, <2>6 DEF LossCore
<1>9. CASE FinalStatus
  <2>1. LosslessPositions'
    BY <1>0, <1>9, StatusLossless DEF FinalStatus, LosslessPositions,
       Lossless, Covered, Visible, Processed
  <2>2. QueueComplete'
    BY <1>0, <1>9 DEF FinalStatus, QueueComplete
  <2>3. BlockedComplete'
    BY <1>0, <1>9 DEF FinalStatus, BlockedComplete, Underway, Visible,
       Processed
  <2>4. CursorComplete'
    BY <1>0, <1>9 DEF FinalStatus, CursorComplete
  <2>5. HandlerOrder'
    BY <1>0, <1>9 DEF FinalStatus, HandlerOrder, Handling, Visible, Processed
  <2>6. FreshQueue'
    BY <1>0, <1>9 DEF FinalStatus, FreshQueue
  <2> QED BY <2>1, <2>2, <2>3, <2>4, <2>5, <2>6 DEF LossCore
<1>10. CASE EndCopy
  <2>1. FreshQueue'
    BY <1>10 DEF EndCopy, FreshQueue, RunFails
  <2> QED
    BY <1>0, <1>10, <2>1, GoneLossless DEF EndCopy, RunFails
<1>11. CASE ReceiveBegin
  <2>0. CASE current_xid # NoTx
    <3>1. FreshQueue'
      BY <1>11, <2>0 DEF ReceiveBegin, FreshQueue, RunFails
    <3> QED
      BY <1>0, <1>11, <2>0, <3>1, GoneLossless DEF ReceiveBegin, RunFails
  <2>a. CASE current_xid = NoTx
    <3>1. LosslessPositions'
      BY <1>0, <1>11, <2>a, LosslessStep DEF ReceiveBegin, NextFrame
    <3>2. QueueComplete'
      BY <1>0, <1>11, <2>a DEF ReceiveBegin, NextFrame, QueueComplete,
         Underway, Visible, Processed
    <3>3. BlockedComplete'
      BY <1>0, <1>11, <2>a DEF ReceiveBegin, NextFrame, BlockedComplete,
         Underway, Visible, Processed
    <3>4. CursorComplete'
      BY <1>0, <1>11, <2>a DEF ReceiveBegin, NextFrame, CursorComplete,
         Underway, Visible, Processed
    <3>5. HandlerOrder'
      BY <1>0, <1>11, <2>a DEF ReceiveBegin, NextFrame, HandlerOrder,
         Handling, Visible, Processed
    <3>6. FreshQueue'
      BY <1>0, <1>11, <2>a DEF ReceiveBegin, NextFrame, FreshQueue
    <3> QED BY <3>1, <3>2, <3>3, <3>4, <3>5, <3>6 DEF LossCore
  <2> QED BY <2>0, <2>a
<1>12. CASE ReceiveCommit
  <2>n. PICK n \in Nat : n = Len(queue)
    BY DEF TypeInv, TypeOK, QueueTypeOK
  <2>0. /\ queue \in Seq(Tx) /\ Len(queue) \in Nat
        /\ cursor \in Tx
    BY <1>12, NAssumption DEF ReceiveCommit, TypeInv, TypeOK, QueueTypeOK, PgTypeOK, Holds, Tx
  <2>a. \/ queue' = queue
        \/ /\ ~closing
           /\ Len(queue') = Len(queue) + 1
           /\ queue'[Len(queue) + 1] = cursor
           /\ \A i \in 1..Len(queue) : queue'[i] = queue[i]
    BY <1>12, <2>0 DEF ReceiveCommit
  <2>b. ASSUME NEW u \in Tx, NEW k \in 1..(Len(queue) + 1), Underway(u, k)
        PROVE  Underway(u, k)'
    <3>1. \A j \in 1..(k - 1) : queue'[j] = queue[j]
      BY <2>0, <2>a
    <3> QED BY <1>12, <2>b, <3>1 DEF ReceiveCommit, Underway, Processed
  <2>1. LosslessPositions'
    BY <1>0, <1>12, LosslessStep DEF ReceiveCommit
  <2>2. QueueComplete'
    <3> SUFFICES ASSUME NEW i \in 1..Len(queue'), NEW u \in Tx,
                        Visible(u)', u < queue'[i]
                 PROVE  Underway(u, i)'
      BY <1>12 DEF ReceiveCommit, QueueComplete
    <3>1. Visible(u)
      BY <1>12 DEF ReceiveCommit, Visible
    <3>2. CASE i \in 1..Len(queue)
      <4>1. Underway(u, i)
        BY <1>0, <1>12, <2>a, <3>1, <3>2 DEF ReceiveCommit, QueueComplete
      <4> QED BY <2>0, <2>b, <3>2, <4>1
    <3>3. CASE i = Len(queue) + 1
      <4>1. ~closing /\ u < cursor
        BY <2>0, <2>a, <3>3
      <4>2. Underway(u, i)
        BY <1>0, <1>12, <3>1, <3>3, <4>1 DEF ReceiveCommit, CursorComplete
      <4> QED BY <2>0, <2>b, <3>3, <4>2
    <3> QED BY <2>0, <2>a, <3>2, <3>3
  <2>3. BlockedComplete'
    <3> SUFFICES ASSUME recv' = "put", ~closing', NEW u \in Tx,
                        Visible(u)', u < blocked'
                 PROVE  Underway(u, n + 1)'
      BY <1>12, <2>n DEF ReceiveCommit, BlockedComplete
    <3>1. Underway(u, n + 1)
      BY <1>0, <1>12, <2>n DEF ReceiveCommit, CursorComplete, Visible
    <3> QED BY <2>n, <2>b, <3>1
  <2>4. CursorComplete'
    <3> SUFFICES ASSUME phase' = "running", ~closing', NEW u \in Tx,
                        Visible(u)', u < cursor'
                 PROVE  Underway(u, Len(queue) + 1)' \/ (recv' = "put" /\ u = blocked')
      BY DEF CursorComplete
    <3>1. CASE u = cursor
      BY <1>12, <2>0, <2>a, <3>1 DEF ReceiveCommit, Underway
    <3>2. CASE u < cursor
      <4>1. Underway(u, n + 1)
        BY <1>0, <1>12, <2>n, <3>2 DEF ReceiveCommit, CursorComplete, Visible
      <4>2. Underway(u, n + 1)'
        BY <2>n, <2>b, <4>1
      <4> QED BY <2>n, <2>a, <4>2 DEF Underway
    <3>3. u \in Int /\ cursor \in Int /\ u < cursor + 1
      BY <1>12, NAssumption DEF ReceiveCommit, Tx, TypeInv, TypeOK, PgTypeOK
    <3> QED BY <3>1, <3>2, <3>3
  <2>5. HandlerOrder'
    BY <1>0, <1>12 DEF ReceiveCommit, HandlerOrder, Handling, Visible,
       Processed
  <2>6. FreshQueue'
    BY <1>0, <1>12 DEF ReceiveCommit, FreshQueue
  <2> QED BY <2>1, <2>2, <2>3, <2>4, <2>5, <2>6 DEF LossCore
<1>13. CASE PutCompletes
  <2>n. PICK n \in Nat : n = Len(queue)
    BY DEF TypeInv, TypeOK, QueueTypeOK
  <2>0. /\ queue \in Seq(Tx) /\ Len(queue) \in Nat
        /\ blocked \in Tx
    BY <1>13, NAssumption DEF PutCompletes, TypeInv, TypeOK, QueueTypeOK, PgTypeOK, Holds, Tx
  <2>a. \/ queue' = queue
        \/ /\ ~closing
           /\ Len(queue') = Len(queue) + 1
           /\ queue'[Len(queue) + 1] = blocked
           /\ \A i \in 1..Len(queue) : queue'[i] = queue[i]
    BY <1>13, <2>0 DEF PutCompletes
  <2>b. ASSUME NEW u \in Tx, NEW k \in 1..(Len(queue) + 1), Underway(u, k)
        PROVE  Underway(u, k)'
    <3>1. \A j \in 1..(k - 1) : queue'[j] = queue[j]
      BY <2>0, <2>a
    <3> QED BY <1>13, <2>b, <3>1 DEF PutCompletes, Underway, Processed
  <2>1. LosslessPositions'
    BY <1>0, <1>13, LosslessStep DEF PutCompletes
  <2>2. QueueComplete'
    <3> SUFFICES ASSUME NEW i \in 1..Len(queue'), NEW u \in Tx,
                        Visible(u)', u < queue'[i]
                 PROVE  Underway(u, i)'
      BY <1>13 DEF PutCompletes, QueueComplete
    <3>1. Visible(u)
      BY <1>13 DEF PutCompletes, Visible
    <3>2. CASE i \in 1..Len(queue)
      <4>1. Underway(u, i)
        BY <1>0, <1>13, <2>a, <3>1, <3>2 DEF PutCompletes, QueueComplete
      <4> QED BY <2>0, <2>b, <3>2, <4>1
    <3>3. CASE i = Len(queue) + 1
      <4>1. ~closing /\ u < blocked
        BY <2>0, <2>a, <3>3
      <4>2. Underway(u, i)
        BY <1>0, <1>13, <3>1, <3>3, <4>1 DEF PutCompletes, BlockedComplete
      <4> QED BY <2>0, <2>b, <3>3, <4>2
    <3> QED BY <2>0, <2>a, <3>2, <3>3
  <2>3. BlockedComplete'
    BY <1>0, <1>13 DEF PutCompletes, BlockedComplete
  <2>4. CursorComplete'
    <3> SUFFICES ASSUME phase' = "running", ~closing', NEW u \in Tx,
                        Visible(u)', u < cursor'
                 PROVE  Underway(u, Len(queue) + 1)'
      BY DEF CursorComplete
    <3>1. CASE u = blocked
      BY <1>13, <2>0, <2>a, <3>1 DEF PutCompletes, Underway
    <3>2. CASE u # blocked
      <4>1. Underway(u, n + 1)
        BY <1>0, <1>13, <2>n, <3>2 DEF PutCompletes, CursorComplete, Visible
      <4>2. Underway(u, n + 1)'
        BY <2>n, <2>b, <4>1
      <4> QED BY <2>n, <2>a, <4>2 DEF Underway
    <3> QED BY <3>1, <3>2
  <2>5. HandlerOrder'
    BY <1>0, <1>13 DEF PutCompletes, HandlerOrder, Handling, Visible,
       Processed
  <2>6. FreshQueue'
    BY <1>0, <1>13 DEF PutCompletes, FreshQueue
  <2> QED BY <2>1, <2>2, <2>3, <2>4, <2>5, <2>6 DEF LossCore
<1>14. CASE HandleKeepalive
  <2>1. LosslessPositions'
    BY <1>0, <1>14, StatusLossless DEF HandleKeepalive, LosslessPositions,
       Lossless, Covered, Visible, Processed
  <2>2. QueueComplete'
    BY <1>0, <1>14 DEF HandleKeepalive, QueueComplete, Underway, Visible,
       Processed
  <2>3. BlockedComplete'
    BY <1>0, <1>14 DEF HandleKeepalive, BlockedComplete, NextFrame, Underway,
       Visible, Processed
  <2>4. CursorComplete'
    BY <1>0, <1>14 DEF HandleKeepalive, CursorComplete, Underway, Visible,
       Processed
  <2>5. HandlerOrder'
    BY <1>0, <1>14 DEF HandleKeepalive, HandlerOrder, Handling, Visible,
       Processed
  <2>6. FreshQueue'
    BY <1>0, <1>14 DEF HandleKeepalive, FreshQueue
  <2> QED BY <2>1, <2>2, <2>3, <2>4, <2>5, <2>6 DEF LossCore
<1>15. CASE StatusTimer
  <2>1. LosslessPositions'
    BY <1>0, <1>15, StatusLossless DEF StatusTimer, LosslessPositions,
       Lossless, Covered, Visible, Processed
  <2>2. QueueComplete'
    BY <1>0, <1>15 DEF StatusTimer, QueueComplete, Underway, Visible,
       Processed
  <2>3. BlockedComplete'
    BY <1>0, <1>15 DEF StatusTimer, BlockedComplete, Underway, Visible,
       Processed
  <2>4. CursorComplete'
    BY <1>0, <1>15 DEF StatusTimer, CursorComplete, Underway, Visible,
       Processed
  <2>5. HandlerOrder'
    BY <1>0, <1>15 DEF StatusTimer, HandlerOrder, Handling, Visible, Processed
  <2>6. FreshQueue'
    BY <1>0, <1>15 DEF StatusTimer, FreshQueue
  <2> QED BY <2>1, <2>2, <2>3, <2>4, <2>5, <2>6 DEF LossCore
<1>16. CASE Process
  <2>n. PICK n \in Nat : n = Len(queue)
    BY DEF TypeInv, TypeOK, QueueTypeOK
  <2>0. /\ queue \in Seq(Tx) /\ queue # <<>>
        /\ Len(queue) \in Nat \ {0} /\ Head(queue) = queue[1]
        /\ Len(queue') = Len(queue) - 1
        /\ \A i \in 1..Len(queue') : queue'[i] = queue[i + 1]
    BY <1>16 DEF Process, TypeInv, TypeOK, QueueTypeOK
  <2>a. ASSUME NEW u \in Tx, NEW k \in 1..(Len(queue) + 1), k > 1, Underway(u, k)
        PROVE  Underway(u, k - 1)'
    <3>1. CASE Processed(u)
      BY <1>16, <3>1 DEF Process, Underway, Processed
    <3>2. ASSUME NEW j \in 1..(k - 1), queue[j] = u
          PROVE  Underway(u, k - 1)'
      <4>1. CASE j = 1
        BY <1>16, <2>0, <3>2, <4>1 DEF Process, Underway, Handling
      <4>2. CASE j > 1
        <5>1. j - 1 \in 1..(k - 1 - 1) /\ j - 1 \in 1..Len(queue')
          BY <2>0, <4>2
        <5>2. queue'[j - 1] = u
          BY <2>0, <3>2, <5>1
        <5> QED BY <5>1, <5>2 DEF Underway
      <4> QED BY <4>1, <4>2
    <3> QED BY <1>16, <2>a, <3>1, <3>2 DEF Process, Underway, Handling
  <2>1. LosslessPositions'
    BY <1>0, <1>16, LosslessStep DEF Process
  <2>2. QueueComplete'
    <3> SUFFICES ASSUME NEW i \in 1..Len(queue'), NEW u \in Tx,
                        Visible(u)', u < queue'[i]
                 PROVE  Underway(u, i)'
      BY <1>16 DEF Process, QueueComplete
    <3>1. i + 1 \in 1..Len(queue) /\ u < queue[i + 1] /\ Visible(u)
      BY <1>16, <2>0 DEF Process, Visible
    <3>2. Underway(u, i + 1)
      BY <1>0, <1>16, <3>1 DEF Process, QueueComplete
    <3> QED
      BY <2>0, <2>a, <3>1, <3>2
  <2>3. BlockedComplete'
    <3> SUFFICES ASSUME recv' = "put", ~closing', NEW u \in Tx,
                        Visible(u)', u < blocked'
                 PROVE  Underway(u, n)'
      BY <2>n, <2>0 DEF BlockedComplete
    <3>1. Underway(u, n + 1)
      BY <1>0, <1>16, <2>n DEF Process, BlockedComplete, Visible
    <3> QED
      BY <2>n, <2>0, <2>a, <3>1
  <2>4. CursorComplete'
    <3> SUFFICES ASSUME phase' = "running", ~closing', NEW u \in Tx,
                        Visible(u)', u < cursor'
                 PROVE  Underway(u, n)' \/ (recv' = "put" /\ u = blocked')
      BY <2>n, <2>0 DEF CursorComplete
    <3>1. Underway(u, n + 1) \/ (recv = "put" /\ u = blocked)
      BY <1>0, <1>16, <2>n DEF Process, CursorComplete, Visible
    <3>2. CASE Underway(u, n + 1)
      BY <2>n, <2>0, <2>a, <3>2
    <3> QED
      BY <1>16, <3>1, <3>2 DEF Process
  <2>5. HandlerOrder'
    <3>1. \A u \in Tx : Visible(u) /\ u < Head(queue) => Processed(u)
      BY <1>0, <1>16, <2>0 DEF Process, QueueComplete, Underway, Handling
    <3> QED
      BY <1>16, <3>1 DEF Process, HandlerOrder, Handling, Visible, Processed
  <2>6. FreshQueue'
    BY <1>0, <1>16 DEF Process, FreshQueue
  <2> QED BY <2>1, <2>2, <2>3, <2>4, <2>5, <2>6 DEF LossCore
<1>17. CASE ConsumerStops
  <2>1. LosslessPositions'
    BY <1>0, <1>17, LosslessStep DEF ConsumerStops
  <2>2. QueueComplete'
    BY <1>0, <1>17 DEF ConsumerStops, QueueComplete, Handling, Underway,
       Visible, Processed
  <2>3. BlockedComplete'
    BY <1>0, <1>17 DEF ConsumerStops, BlockedComplete, Handling, Underway,
       Visible, Processed
  <2>4. CursorComplete'
    BY <1>0, <1>17 DEF ConsumerStops, CursorComplete, Handling, Underway,
       Visible, Processed
  <2>5. HandlerOrder'
    BY <1>0, <1>17 DEF ConsumerStops, HandlerOrder, Handling, Visible,
       Processed
  <2>6. FreshQueue'
    BY <1>0, <1>17 DEF ConsumerStops, FreshQueue
  <2> QED BY <2>1, <2>2, <2>3, <2>4, <2>5, <2>6 DEF LossCore
<1>18. CASE HandlerEffect
  <2>e. /\ inflight \in Tx /\ Processed(inflight)'
        /\ \A u \in Tx : Processed(u) => Processed(u)'
    BY <1>18, ApplyFacts DEF HandlerEffect, Processed, TypeInv, TypeOK, Holds, Handling
  <2>1. LosslessPositions'
    BY <1>0, <1>18, <2>e DEF HandlerEffect, LosslessPositions, Lossless,
       Covered, Visible, Processed
  <2>2. QueueComplete'
    BY <1>0, <1>18, <2>e DEF HandlerEffect, QueueComplete, Handling, Underway,
       Visible, Processed
  <2>3. BlockedComplete'
    BY <1>0, <1>18, <2>e DEF HandlerEffect, BlockedComplete, Handling,
       Underway, Visible, Processed
  <2>4. CursorComplete'
    BY <1>0, <1>18, <2>e DEF HandlerEffect, CursorComplete, Handling,
       Underway, Visible, Processed
  <2>5. HandlerOrder'
    BY <1>0, <1>18, <2>e DEF HandlerEffect, HandlerOrder, Handling, Visible,
       Processed
  <2>6. FreshQueue'
    BY <1>0, <1>18 DEF HandlerEffect, FreshQueue
  <2> QED BY <2>1, <2>2, <2>3, <2>4, <2>5, <2>6 DEF LossCore
<1>19. CASE SaveCommitted
  <2>1. LosslessPositions'
    <3>1. PICK lsn \in Requested : SaveAllowed(lsn) /\ checkpoint' = lsn
      BY <1>19 DEF SaveCommitted
    <3>2. lsn \in Nat
      BY <1>19, <3>1, CommitLsnType, OptionsAssumption
         DEF SaveCommitted, Requested, TypeInv, Holds, Handling
    <3>3. Lossless(lsn + 1)
      BY <1>0, <1>19, <3>1, <3>2, SaveLossless DEF SaveCommitted, Handling
    <3> QED
      BY <1>0, <1>19, <3>1, <3>3 DEF SaveCommitted, LosslessPositions, Lossless, Covered, Visible, Processed
  <2>2. QueueComplete'
    BY <1>0, <1>19 DEF SaveCommitted, QueueComplete, Handling, Underway,
       Visible, Processed
  <2>3. BlockedComplete'
    BY <1>0, <1>19 DEF SaveCommitted, BlockedComplete, Handling, Underway,
       Visible, Processed
  <2>4. CursorComplete'
    BY <1>0, <1>19 DEF SaveCommitted, CursorComplete, Handling, Underway,
       Visible, Processed
  <2>5. HandlerOrder'
    BY <1>0, <1>19 DEF SaveCommitted, HandlerOrder, Handling, Visible,
       Processed
  <2>6. FreshQueue'
    BY <1>0, <1>19 DEF SaveCommitted, FreshQueue
  <2> QED BY <2>1, <2>2, <2>3, <2>4, <2>5, <2>6 DEF LossCore
<1>20. CASE SaveRecorded
  <2>1. LosslessPositions'
    <3>1. Lossless(saving + 1)
      BY <1>0, <1>t, <1>20, SaveLossless
         DEF SaveRecorded, HandlerKnown, SaveAllowed, TypeInv, TypeOK, TaskTypeOK
    <3>2. durable_lsn' \in {saving, durable_lsn}
      BY <1>20 DEF SaveRecorded, Recorded, MaxOf
    <3> QED
      BY <1>0, <1>20, <3>1, <3>2
         DEF SaveRecorded, LosslessPositions, Lossless, Covered, Visible, Processed
  <2>2. QueueComplete'
    BY <1>0, <1>20 DEF SaveRecorded, QueueComplete, Handling, Underway,
       Visible, Processed
  <2>3. BlockedComplete'
    BY <1>0, <1>20 DEF SaveRecorded, BlockedComplete, Handling, Underway,
       Visible, Processed
  <2>4. CursorComplete'
    BY <1>0, <1>20 DEF SaveRecorded, CursorComplete, Handling, Underway,
       Visible, Processed
  <2>5. HandlerOrder'
    BY <1>0, <1>20 DEF SaveRecorded, HandlerOrder, Handling, Visible,
       Processed
  <2>6. FreshQueue'
    BY <1>0, <1>20 DEF SaveRecorded, FreshQueue
  <2> QED BY <2>1, <2>2, <2>3, <2>4, <2>5, <2>6 DEF LossCore
<1>21. CASE SaveOnConnection
  BY <1>21 DEF SaveOnConnection
<1>22. CASE CallerCommits
  BY <1>0, <1>22 DEF CallerCommits, HandlerOrder
<1>23. CASE HandlerReturns
  <2>1. LosslessPositions'
    BY <1>0, <1>23, LosslessStep DEF HandlerReturns
  <2>2. QueueComplete'
    BY <1>0, <1>23 DEF HandlerReturns, QueueComplete, HandlerOrder, Underway,
       Visible, Processed
  <2>3. BlockedComplete'
    BY <1>0, <1>23 DEF HandlerReturns, BlockedComplete, HandlerOrder,
       Underway, Visible, Processed
  <2>4. CursorComplete'
    BY <1>0, <1>23 DEF HandlerReturns, CursorComplete, HandlerOrder, Underway,
       Visible, Processed
  <2>5. HandlerOrder'
    BY <1>0, <1>23 DEF HandlerReturns, HandlerOrder, Handling, Visible,
       Processed
  <2>6. FreshQueue'
    BY <1>0, <1>23 DEF HandlerReturns, FreshQueue
  <2> QED BY <2>1, <2>2, <2>3, <2>4, <2>5, <2>6 DEF LossCore
<1>24. CASE Crash
  <2>1. FreshQueue'
    BY <1>24 DEF Crash, FreshQueue, RunFails
  <2> QED
    BY <1>0, <1>24, <2>1, GoneLossless DEF Crash, RunFails
<1>25. CASE AttemptRefused
  <2>1. LosslessPositions'
    BY <1>0, <1>25, LosslessStep DEF AttemptRefused, RunRetries
  <2>2. QueueComplete'
    BY <1>0, <1>25 DEF AttemptRefused, QueueComplete, RunRetries
  <2>3. BlockedComplete'
    BY <1>0, <1>25 DEF AttemptRefused, BlockedComplete, Underway, Visible,
       Processed, RunRetries
  <2>4. CursorComplete'
    BY <1>0, <1>25 DEF AttemptRefused, CursorComplete, RunRetries
  <2>5. HandlerOrder'
    BY <1>0, <1>25 DEF AttemptRefused, HandlerOrder, Handling, Visible,
       Processed, RunRetries
  <2>6. FreshQueue'
    BY <1>0, <1>25 DEF AttemptRefused, FreshQueue, RunRetries
  <2> QED BY <2>1, <2>2, <2>3, <2>4, <2>5, <2>6 DEF LossCore
<1>26. CASE AttemptBreaks
  <2>1. LosslessPositions'
    BY <1>0, <1>26, LosslessStep DEF AttemptBreaks, RunFails
  <2>2. QueueComplete'
    BY <1>0, <1>26 DEF AttemptBreaks, QueueComplete, RunFails
  <2>3. BlockedComplete'
    BY <1>0, <1>26 DEF AttemptBreaks, BlockedComplete, Underway, Visible,
       Processed, RunFails
  <2>4. CursorComplete'
    BY <1>0, <1>26 DEF AttemptBreaks, CursorComplete, RunFails
  <2>5. HandlerOrder'
    BY <1>0, <1>26 DEF AttemptBreaks, HandlerOrder, Handling, Visible,
       Processed, RunFails
  <2>6. FreshQueue'
    BY <1>0, <1>26 DEF AttemptBreaks, FreshQueue, RunFails
  <2> QED BY <2>1, <2>2, <2>3, <2>4, <2>5, <2>6 DEF LossCore
<1>27. CASE ConnectionLost
  <2>1. queue = <<>>
    BY <1>27, Zenon DEF ConnectionLost
  <2>2. FreshQueue'
    BY <1>27, <2>1 DEF ConnectionLost, FreshQueue
  <2> QED
    BY <1>0, <1>27, <2>2, GoneLossless DEF ConnectionLost, RunRetries
<1>28. CASE HandlerRaises
  <2>1. FreshQueue'
    BY <1>28 DEF HandlerRaises, FreshQueue, RunFails
  <2> QED
    BY <1>0, <1>28, <2>1, GoneLossless DEF HandlerRaises, RunFails
<1>29. CASE ShutdownCut
  <2>1. FreshQueue'
    BY <1>29 DEF ShutdownCut, FreshQueue, RunFails
  <2> QED
    BY <1>0, <1>29, <2>1, GoneLossless DEF ShutdownCut, RunFails
<1>30. CASE Close
  <2>1. LosslessPositions'
    BY <1>0, <1>30, LosslessStep DEF Close
  <2>2. QueueComplete'
    BY <1>0, <1>30 DEF Close, QueueComplete
  <2>3. BlockedComplete'
    BY <1>0, <1>30 DEF Close, BlockedComplete
  <2>4. CursorComplete'
    BY <1>0, <1>30 DEF Close, CursorComplete
  <2>5. HandlerOrder'
    BY <1>0, <1>30 DEF Close, HandlerOrder, Handling, Visible, Processed
  <2>6. FreshQueue'
    BY <1>0, <1>30 DEF Close, FreshQueue
  <2> QED BY <2>1, <2>2, <2>3, <2>4, <2>5, <2>6 DEF LossCore
<1> QED
  BY <1>1, <1>2, <1>3, <1>4, <1>5, <1>6, <1>7, <1>8, <1>9, <1>10, <1>11,
     <1>12, <1>13, <1>14, <1>15, <1>16, <1>17, <1>18, <1>19, <1>20, <1>21,
     <1>22, <1>23, <1>24, <1>25, <1>26, <1>27, <1>28, <1>29, <1>30
     DEF Next, RunOnce, Receiver, Consumer, Failing

\* LossInv holds in every reachable state of such a client.
LEMMA LossInvariant ==
    ASSUME "connection" \notin SaveModes
    PROVE  Spec => [](TypeInv /\ OrderInv /\ LossInv)
<1>1. Init => TypeInv /\ OrderInv /\ LossInv
  BY InitType, InitOrder, InitLoss
<1>2. TypeInv /\ OrderInv /\ LossInv /\ [Next]_vars => (TypeInv /\ OrderInv /\ LossInv)'
  BY NextType, NextOrder, NextLoss
<1> QED
  BY <1>1, <1>2, PTL DEF Spec

(* When every handler applies its effect and then saves on a connection of the
   store's own, no transaction is lost: whatever PostgreSQL would skip after a
   crash at this moment has had its effect, unless a reconnect kept a stale
   queue. *)
THEOREM NoLoss ==
    ASSUME "connection" \notin SaveModes
    PROVE  Spec => []NoLossUnlessStale
<1>1. TypeInv /\ LossInv => NoLossUnlessStale
  BY MaxOfFacts DEF TypeInv, TypeOK, PgTypeOK, AppTypeOK, NoCheckpoint, LossInv,
     LossCore, LosslessPositions, Lossless, NoLossUnlessStale, NoSilentLoss, ResumeLsn
<1> QED
  BY <1>1, LossInvariant, PTL

(* Under the same condition no transaction overtakes an earlier one: a handler
   runs only when every earlier transaction has had its effect, unless a
   reconnect kept a stale queue. *)
THEOREM NoOvertaking ==
    ASSUME "connection" \notin SaveModes
    PROVE  Spec => []PredecessorsProcessed
<1>1. LossInv => PredecessorsProcessed
  BY DEF LossInv, LossCore, HandlerOrder, PredecessorsProcessed
<1> QED
  BY <1>1, LossInvariant, PTL

-----------------------------------------------------------------------------
(* The client implements AtLeastOnce *)

\* What a position lets PostgreSQL skip is a prefix of the WAL.
LEMMA CoveredPrefix ==
    ASSUME NEW pos, NEW t \in Covered(pos), NEW u \in Tx, u < t, pos \in Int
    PROVE  u \in Covered(pos)
BY NAssumption, WalAssumption DEF Covered, Tx

\* Only these steps change what is owed, processed or voided.
LEMMA VisibleSteps ==
    ASSUME [Next]_vars
    PROVE  \/ UNCHANGED <<slot_from, effects, stale>>
           \/ CreateSlotIfMissing \/ HandlerEffect \/ CallerCommits
           \/ ConnectionLost
<1> USE DEF pgVars, appVars, histVars, ConnectionGone
<1>1. CASE UNCHANGED vars
  BY <1>1, Zenon DEF vars
<1>2. CASE CommitTx
  BY <1>2, Zenon DEF CommitTx
<1>3. CASE StartProcess
  BY <1>3, Zenon DEF StartProcess
<1>4. CASE LoadCheckpoint
  BY <1>4, Zenon DEF LoadCheckpoint
<1>5. CASE Connect
  BY <1>5, Zenon DEF Connect
<1>7. CASE StartReplication
  BY <1>7, Zenon DEF StartReplication
<1>8. CASE ReconnectDelay
  BY <1>8, Zenon DEF ReconnectDelay
<1>9. CASE FinalStatus
  BY <1>9, Zenon DEF FinalStatus
<1>10. CASE EndCopy
  BY <1>10, Zenon DEF EndCopy
<1>11. CASE ReceiveBegin
  BY <1>11, Zenon DEF ReceiveBegin
<1>12. CASE ReceiveCommit
  BY <1>12, Zenon DEF ReceiveCommit
<1>13. CASE PutCompletes
  BY <1>13, Zenon DEF PutCompletes
<1>14. CASE HandleKeepalive
  BY <1>14, Zenon DEF HandleKeepalive
<1>15. CASE StatusTimer
  BY <1>15, Zenon DEF StatusTimer
<1>16. CASE Process
  BY <1>16, Zenon DEF Process
<1>17. CASE ConsumerStops
  BY <1>17, Zenon DEF ConsumerStops
<1>19. CASE SaveCommitted
  BY <1>19, Zenon DEF SaveCommitted
<1>20. CASE SaveRecorded
  BY <1>20, Zenon DEF SaveRecorded
<1>21. CASE SaveOnConnection
  BY <1>21, Zenon DEF SaveOnConnection
<1>23. CASE HandlerReturns
  BY <1>23, Zenon DEF HandlerReturns
<1>24. CASE Crash
  BY <1>24, Zenon DEF Crash
<1>25. CASE AttemptRefused
  BY <1>25, Zenon DEF AttemptRefused
<1>26. CASE AttemptBreaks
  BY <1>26, Zenon DEF AttemptBreaks
<1>28. CASE HandlerRaises
  BY <1>28, Zenon DEF HandlerRaises
<1>29. CASE ShutdownCut
  BY <1>29, Zenon DEF ShutdownCut
<1>30. CASE Close
  BY <1>30, Zenon DEF Close
<1> QED
  BY <1>1, <1>2, <1>3, <1>4, <1>5, <1>7, <1>8, <1>9, <1>10, <1>11, <1>12,
     <1>13, <1>14, <1>15, <1>16, <1>17, <1>19, <1>20, <1>21, <1>23, <1>24,
     <1>25, <1>26, <1>28, <1>29, <1>30
     DEF Next, RunOnce, Receiver, Consumer, Failing

\* The client begins before any subscription.
LEMMA InitRefines == Init => Delivery!Init
<1> SUFFICES ASSUME Init PROVE Delivery!Init
  OBVIOUS
<1>1. OwedNow = {} /\ ReleasedNow = {}
  BY DEF Init, OwedNow, ReleasedNow, Visible
<1>2. ProcessedNow = {}
  BY DEF Init, ProcessedNow, Processed
<1> QED
  BY <1>1, <1>2, Zenon DEF Init, Delivery!Init

\* Only what was processed is released, and that in order.
ReleasedInOrder ==
    /\ ReleasedNow \subseteq OwedNow \cap ProcessedNow
    /\ \A t \in ReleasedNow : \A u \in OwedNow : u < t => u \in ReleasedNow

\* A client that has lost nothing has released in order.
LEMMA ReleaseAllowed == TypeInv /\ LossInv /\ ~stale => ReleasedInOrder
<1> SUFFICES ASSUME TypeInv, LossInv, ~stale PROVE ReleasedInOrder
  OBVIOUS
<1>1. ResumeLsn \in Int /\ ResumeLsn \in {checkpoint + 1, confirmed_flush}
  BY MaxOfFacts DEF ResumeLsn, TypeInv, TypeOK, PgTypeOK, AppTypeOK, NoCheckpoint
<1>2. Lossless(ResumeLsn)
  BY <1>1 DEF LossInv, LossCore, LosslessPositions
<1>3. ReleasedNow \subseteq OwedNow \cap ProcessedNow
  BY <1>2 DEF ReleasedNow, OwedNow, ProcessedNow, Lossless, Covered
<1>4. \A t \in ReleasedNow : \A u \in OwedNow : u < t => u \in ReleasedNow
  BY <1>1, CoveredPrefix DEF ReleasedNow, OwedNow
<1> QED
  BY <1>3, <1>4 DEF ReleasedInOrder

\* A step that changes neither effects nor the slot is a release.
LEMMA ReleaseStep ==
    ASSUME TypeInv', LossInv', ~stale', UNCHANGED <<slot_from, effects, stale>>
    PROVE  Delivery!Release
<1>1. OwedNow' = OwedNow /\ ProcessedNow' = ProcessedNow
  BY DEF OwedNow, ProcessedNow, Visible, Processed
<1>2. ReleasedInOrder'
  BY ReleaseAllowed, PTL
<1>3. /\ ReleasedNow' \subseteq OwedNow \cap ProcessedNow
      /\ \A t \in ReleasedNow' : \A u \in OwedNow : u < t => u \in ReleasedNow'
  BY <1>1, <1>2, Zenon DEF ReleasedInOrder
<1> QED
  BY <1>1, <1>3, Zenon DEF Delivery!Release, Delivery!Prefix

\* The effect of a handler call comes after those of all earlier ones.
LEMMA ProcessStep ==
    ASSUME TypeInv, LossInv, ~stale, HandlerEffect
    PROVE  inflight \in Tx /\ Delivery!Process(inflight)
<1> USE DEF pgVars, histVars
<1>1. inflight \in Tx
  BY DEF HandlerEffect, TypeInv, Holds, Handling
<1>2. \A u \in OwedNow : u < inflight => u \in ProcessedNow
  BY DEF HandlerEffect, LossInv, LossCore, HandlerOrder, Handling, OwedNow,
         ProcessedNow
<1>3. ProcessedNow' = ProcessedNow \cup {inflight}
  BY <1>1 DEF HandlerEffect, Apply, MinOf, ProcessedNow, Processed, TypeInv,
     TypeOK, AppTypeOK
<1>4. OwedNow' = OwedNow /\ ReleasedNow' = ReleasedNow /\ stale' = stale
  BY DEF HandlerEffect, OwedNow, ReleasedNow, ResumeLsn, Covered, Visible
<1> QED
  BY <1>1, <1>2, <1>3, <1>4, Zenon DEF Delivery!Process

\* A new slot sees what commits from now on and has acknowledged none of it.
LEMMA SubscribeStep ==
    ASSUME TypeInv, OrderInv, CreateSlotIfMissing, slot_from = NoSlot
    PROVE  Delivery!Subscribe
<1> USE DEF appVars, histVars
<1>1. OwedNow = {} /\ OwedNow' \subseteq Tx
  BY DEF OwedNow, Visible
<1>2. \A t \in OwedNow' : \A u \in Tx : t < u => u \in OwedNow'
  BY NAssumption DEF OwedNow, Visible, CreateSlotIfMissing, Tx, TypeInv, TypeOK, PgTypeOK
<1>3. ReleasedNow' = {}
  <2>1. checkpoint' + 1 = 0 /\ slot_from' = committed /\ confirmed_flush' = InsertLsn
    BY DEF CreateSlotIfMissing, OrderInv, BeforeSlot, NoCheckpoint
  <2>2. InsertLsn \in Nat
    BY NAssumption, WalAssumption DEF InsertLsn, Tx, TypeInv, TypeOK, PgTypeOK
  <2>3. ResumeLsn' = InsertLsn
    BY <2>1, <2>2 DEF ResumeLsn, MaxOf
  <2>4. \A t \in Covered(InsertLsn) : t <= committed
    BY NAssumption, WalAssumption
       DEF Covered, InsertLsn, Tx, TypeInv, TypeOK, PgTypeOK
  <2> QED
    BY <2>1, <2>3, <2>4, NAssumption
       DEF ReleasedNow, Visible, Covered, Tx, TypeInv, TypeOK, PgTypeOK
<1>4. ProcessedNow' = ProcessedNow /\ stale' = stale
  BY DEF CreateSlotIfMissing, ProcessedNow, Processed
<1> QED
  BY <1>1, <1>2, <1>3, <1>4, Zenon DEF Delivery!Subscribe

\* The reconnect that leaves a stale queue changes nothing else.
LEMMA VoidStep ==
    ASSUME ConnectionLost, FlagTypeOK', ~stale, stale'
    PROVE  Delivery!Void
<1>1. UNCHANGED <<slot_from, effects, checkpoint, confirmed_flush>>
  BY Zenon DEF ConnectionLost, ConnectionGone, appVars
<1>2. OwedNow' = OwedNow /\ ProcessedNow' = ProcessedNow /\ ReleasedNow' = ReleasedNow
  BY <1>1 DEF OwedNow, ProcessedNow, ReleasedNow, ResumeLsn, Covered, Visible, Processed
<1>3. stale' = TRUE
  BY Zenon DEF FlagTypeOK
<1> QED
  BY <1>2, <1>3, Zenon DEF Delivery!Void

\* Every step of the client is a step of the promise.
LEMMA NextRefines ==
    ASSUME "connection" \notin SaveModes, [Next]_vars,
           TypeInv, OrderInv, LossInv, TypeInv', LossInv'
    PROVE  Delivery!Next
<1>1. CASE stale
  <2>1. stale'
    BY <1>1, StaleSticky, Zenon
  <2>2. OwedNow' \subseteq Tx /\ ProcessedNow' \subseteq Tx /\ ReleasedNow' \subseteq Tx
    BY DEF OwedNow, ProcessedNow, ReleasedNow, Covered
  <2> QED
    BY <1>1, <2>1, <2>2, Zenon DEF Delivery!Next, Delivery!Unbound
<1>2. CASE ~stale /\ UNCHANGED <<slot_from, effects, stale>>
  <2>1. Delivery!Release
    BY <1>2, ReleaseStep, Zenon
  <2> QED
    BY <2>1, Zenon DEF Delivery!Next
<1>3. CASE ~stale /\ CreateSlotIfMissing
  <2>1. CASE slot_from = NoSlot
    BY <1>3, <2>1, SubscribeStep, Zenon DEF Delivery!Next
  <2>2. CASE slot_from # NoSlot
    BY <1>2, <1>3, <2>2, Zenon DEF CreateSlotIfMissing, appVars, histVars
  <2> QED BY <2>1, <2>2
<1>4. CASE ~stale /\ HandlerEffect
  BY <1>4, ProcessStep, Zenon DEF Delivery!Next
<1>5. CASE ~stale /\ CallerCommits
  BY <1>5 DEF CallerCommits, LossInv, LossCore, HandlerOrder
<1>6. CASE ~stale /\ ConnectionLost
  <2>1. CASE stale'
    <3>1. Delivery!Void
      BY <1>6, <2>1, VoidStep, Zenon DEF TypeInv, TypeOK
    <3> QED BY <3>1, Zenon DEF Delivery!Next
  <2>2. CASE ~stale'
    <3>1. UNCHANGED <<slot_from, effects>>
      BY <1>6, Zenon DEF ConnectionLost, ConnectionGone, appVars
    <3>2. stale' = stale
      BY <1>6, <2>2, Zenon DEF TypeInv, TypeOK, FlagTypeOK
    <3> QED BY <1>2, <1>6, <3>1, <3>2, Zenon
  <2> QED BY <2>1, <2>2, Zenon
<1> QED
  BY <1>1, <1>2, <1>3, <1>4, <1>5, <1>6, VisibleSteps, Zenon

(* A client whose handlers apply their effect and then save on a connection of
   the store's own implements at-least-once delivery in commit order, for any
   number of transactions, crashes, drops, exceptions and shutdowns, until a
   reconnect keeps transactions of the old connection in the queue. *)
THEOREM ClientImplementsAtLeastOnce ==
    ASSUME "connection" \notin SaveModes
    PROVE  Spec => ImplementsAtLeastOnce
<1> DEFINE Inv == TypeInv /\ OrderInv /\ LossInv
<1>1. Init => Delivery!Init
  BY InitRefines
<1>2. Inv /\ Inv' /\ [Next]_vars => [Delivery!Next]_(Delivery!vars)
  BY NextRefines
<1>3. Spec => []Inv
  BY LossInvariant
<1> HIDE DEF Inv
<1> QED
  BY <1>1, <1>2, <1>3, PTL DEF Spec, ImplementsAtLeastOnce, Delivery!Spec
=============================================================================
