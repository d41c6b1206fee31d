---------------------------- MODULE ClientProofs ----------------------------
(***************************************************************************)
(* Theorems about Client, for every number of transactions, layout of the  *)
(* WAL, queue bound, fault budget and set of LSNs handlers try to save.    *)
(***************************************************************************)
EXTENDS Client, TLAPS

-----------------------------------------------------------------------------
(* Facts about the operators of the model *)

\* MaxOf returns one of its arguments, and neither exceeds it.
LEMMA MaxOfFacts ==
    ASSUME NEW a \in Int, NEW b \in Int
    PROVE  /\ MaxOf(a, b) \in {a, b}
           /\ MaxOf(a, b) >= a
           /\ MaxOf(a, b) >= b
BY DEF MaxOf

\* The commit_lsn the assembler reports is a natural number.
LEMMA CommitLsnType ==
    ASSUME NEW t \in Tx
    PROVE  CommitLsn(t) \in Nat
BY NAssumption, WalAssumption DEF CommitLsn, Tx

\* A position save() accepts for t covers nothing that commits after t.
LEMMA SavedCoversUpTo ==
    ASSUME NEW t \in Tx, NEW lsn \in Nat, lsn <= CommitLsn(t),
           NEW u \in Covered(lsn + 1)
    PROVE  u <= t
BY NAssumption, WalAssumption DEF CommitLsn, Covered, Tx

\* Covered(pos) is a set of transactions, and grows with pos.
LEMMA CoveredMonotone ==
    ASSUME NEW p \in Int, NEW q \in Int, p <= q
    PROVE  Covered(p) \subseteq Covered(q)
BY NAssumption, WalAssumption DEF Covered, Tx

\* What the queue operations do to a sequence of transactions.
LEMMA QueueFacts ==
    ASSUME NEW q \in Seq(Tx)
    PROVE  /\ <<>> \in Seq(Tx)
           /\ Len(q) \in Nat
           /\ \A t \in Tx : /\ Append(q, t) \in Seq(Tx)
                            /\ Len(Append(q, t)) = Len(q) + 1
           /\ q # <<>> => /\ Head(q) \in Tx
                          /\ Tail(q) \in Seq(Tx)
                          /\ Len(Tail(q)) = Len(q) - 1
OBVIOUS

\* Counting a fault keeps the type of the counters.
LEMMA FaultType ==
    ASSUME FaultTypeOK, NEW k \in Faults, Fault(k)
    PROVE  FaultTypeOK'
BY DEF FaultTypeOK, Fault

\* Applying an effect keeps the type of effects and adds to one entry only.
LEMMA ApplyFacts ==
    ASSUME AppTypeOK, NEW t \in Tx, Apply(t)
    PROVE  /\ effects' \in [Tx -> 0..2]
           /\ effects'[t] > 0
           /\ \A u \in Tx : effects[u] > 0 => effects'[u] > 0
BY DEF AppTypeOK, Apply, MinOf

-----------------------------------------------------------------------------
(* Type correctness *)

\* What TypeOK needs to be inductive: who holds a transaction, and that the
\* walsender only sends what is committed.
Holds ==
    /\ cons \in Handling => inflight \in Tx
    /\ recv = "put" => blocked \in Tx
    /\ wal_open => cursor <= committed

TypeInv == TypeOK /\ Holds

\* A connection that is gone leaves well-typed tasks behind.
LEMMA GoneType ==
    ASSUME TypeInv, ConnectionGone, UNCHANGED current_xid
    PROVE  PgTypeOK' /\ TaskTypeOK' /\ Holds'
<1> USE NAssumption DEF ConnectionGone, TasksGone
<1>1. PgTypeOK'
  BY DEF TypeInv, TypeOK, PgTypeOK
<1>2. TaskTypeOK'
  BY DEF TypeInv, TypeOK, TaskTypeOK, NoTx
<1>3. Holds'
  BY DEF Holds, Handling
<1> QED
  BY <1>1, <1>2, <1>3

\* A status update keeps the slot's position a natural number.
LEMMA SendStatusType ==
    ASSUME TypeInv, SendStatus
    PROVE  confirmed_flush' \in Nat
BY DEF TypeInv, TypeOK, PgTypeOK, RunTypeOK, SendStatus, StatusFlush, MaxOf

\* The initial state is well typed.
LEMMA InitType == Init => TypeInv
<1> SUFFICES ASSUME Init PROVE TypeInv
  OBVIOUS
<1> USE NAssumption, BackoffAssumption DEF Init
<1>1. PgTypeOK
  BY DEF PgTypeOK, NoSlot
<1>2. AppTypeOK
  <2>1. checkpoint \in Nat \cup {NoCheckpoint} /\ delivered \subseteq Tx
    OBVIOUS
  <2>2. effects \in [Tx -> 0..2]
    OBVIOUS
  <2> QED BY <2>1, <2>2 DEF AppTypeOK
<1>3. RunTypeOK
  BY DEF RunTypeOK, Live
<1>4. QueueTypeOK
  <2>1. queue = <<>>
    OBVIOUS
  <2>2. <<>> \in Seq(Tx) /\ Len(<<>>) = 0
    OBVIOUS
  <2> QED BY <2>1, <2>2, OptionsAssumption DEF QueueTypeOK
<1>5. TaskTypeOK /\ Holds
  BY DEF TaskTypeOK, Holds, Handling, NoTx
<1>6. FaultTypeOK
  BY DEF FaultTypeOK
<1>7. FlagTypeOK
  BY Zenon DEF FlagTypeOK
<1> QED
  BY <1>1, <1>2, <1>3, <1>4, <1>5, <1>6, <1>7 DEF TypeInv, TypeOK

\* The flags stay Boolean.
LEMMA FlagsStep ==
    ASSUME TypeInv, [Next]_vars
    PROVE  FlagTypeOK'
<1> USE DEF FlagTypeOK, TypeInv, TypeOK, pgVars, appVars, runVars, taskVars, histVars
<1>1. CASE UNCHANGED vars
  BY <1>1, Zenon DEF vars
<1>2. CASE CommitTx
  BY <1>2, Zenon DEF CommitTx
<1>3. CASE StartProcess
  BY <1>3, Zenon DEF StartProcess
<1>4. CASE LoadCheckpoint
  BY <1>4, Zenon DEF LoadCheckpoint
<1>5. CASE Connect
  BY <1>5, Zenon DEF Connect
<1>6. CASE CreateSlotIfMissing
  BY <1>6, Zenon DEF CreateSlotIfMissing
<1>7. CASE StartReplication
  BY <1>7, Zenon DEF StartReplication
<1>8. CASE ReconnectDelay
  BY <1>8, Zenon DEF ReconnectDelay
<1>9. CASE FinalStatus
  BY <1>9, Zenon DEF FinalStatus
<1>10. CASE EndCopy
  BY <1>10, Zenon DEF EndCopy, ConnectionGone
<1>11. CASE ReceiveBegin
  BY <1>11, Zenon DEF ReceiveBegin, ConnectionGone
<1>12. CASE ReceiveCommit
  BY <1>12, Zenon DEF ReceiveCommit
<1>13. CASE PutCompletes
  BY <1>13, Zenon DEF PutCompletes
<1>14. CASE HandleKeepalive
  BY <1>14, Zenon DEF HandleKeepalive
<1>15. CASE StatusTimer
  BY <1>15, Zenon DEF StatusTimer
<1>16. CASE Process
  BY <1>16, Zenon DEF Process
<1>17. CASE ConsumerStops
  BY <1>17, Zenon DEF ConsumerStops
<1>18. CASE HandlerEffect
  BY <1>18, Zenon DEF HandlerEffect
<1>19. CASE SaveCommitted
  BY <1>19, Zenon DEF SaveCommitted
<1>20. CASE SaveRecorded
  BY <1>20, Zenon DEF SaveRecorded
<1>21. CASE SaveOnConnection
  BY <1>21, Zenon DEF SaveOnConnection
<1>22. CASE CallerCommits
  BY <1>22, Zenon DEF CallerCommits
<1>23. CASE HandlerReturns
  BY <1>23, Zenon DEF HandlerReturns
<1>24. CASE Crash
  BY <1>24, Zenon DEF Crash, ConnectionGone
<1>25. CASE AttemptRefused
  BY <1>25, Zenon DEF AttemptRefused
<1>26. CASE AttemptBreaks
  BY <1>26, Zenon DEF AttemptBreaks
<1>27. CASE ConnectionLost
  BY <1>27, Zenon DEF ConnectionLost, ConnectionGone
<1>28. CASE HandlerRaises
  BY <1>28, Zenon DEF HandlerRaises, ConnectionGone
<1>29. CASE ShutdownCut
  BY <1>29, Zenon DEF ShutdownCut, ConnectionGone
<1>30. CASE Close
  BY <1>30, Zenon DEF Close
<1> QED
  BY <1>1, <1>2, <1>3, <1>4, <1>5, <1>6, <1>7, <1>8, <1>9, <1>10, <1>11, <1>12, <1>13, <1>14, <1>15, <1>16, <1>17, <1>18, <1>19, <1>20, <1>21, <1>22, <1>23, <1>24, <1>25, <1>26, <1>27, <1>28, <1>29, <1>30
     DEF Next, RunOnce, Receiver, Consumer, Failing

\* Every step keeps TypeInv.
LEMMA NextType ==
    ASSUME TypeInv, [Next]_vars
    PROVE  TypeInv'
<1> DEFINE Rest == /\ PgTypeOK /\ AppTypeOK /\ RunTypeOK
                   /\ QueueTypeOK /\ TaskTypeOK /\ FaultTypeOK /\ Holds
<1>0. Rest
  BY DEF TypeInv, TypeOK
<1> SUFFICES Rest'
  BY FlagsStep DEF TypeInv, TypeOK
<1> USE NAssumption DEF pgVars, appVars, runVars, taskVars, histVars
<1>1. CASE UNCHANGED vars
  BY <1>0, <1>1 DEF vars, PgTypeOK, AppTypeOK, RunTypeOK, QueueTypeOK, TaskTypeOK, FaultTypeOK, Holds, Handling, NoTx
<1>2. CASE CommitTx
  <2>1. PgTypeOK' /\ TaskTypeOK' /\ Holds'
    BY <1>0, <1>2 DEF CommitTx, PgTypeOK, TaskTypeOK, Holds, Handling, NoTx
  <2>2. AppTypeOK'
    BY <1>0, <1>2 DEF CommitTx, AppTypeOK
  <2>3. RunTypeOK'
    BY <1>0, <1>2 DEF CommitTx, RunTypeOK, Live
  <2>4. QueueTypeOK'
    BY <1>0, <1>2 DEF CommitTx, QueueTypeOK
  <2>5. FaultTypeOK'
    BY <1>0, <1>2 DEF CommitTx, FaultTypeOK
  <2> QED BY <2>1, <2>2, <2>3, <2>4, <2>5
<1>3. CASE StartProcess
  <2>1. PgTypeOK' /\ TaskTypeOK' /\ Holds'
    BY <1>0, <1>3 DEF StartProcess, PgTypeOK, TaskTypeOK, Holds, Handling, NoTx
  <2>2. AppTypeOK'
    BY <1>0, <1>3 DEF StartProcess, AppTypeOK
  <2>3. RunTypeOK'
    BY <1>0, <1>3, BackoffAssumption DEF StartProcess, RunTypeOK, Live
  <2>4. QueueTypeOK'
    BY <1>0, <1>3, QueueFacts, OptionsAssumption DEF StartProcess, QueueTypeOK
  <2>5. FaultTypeOK'
    BY <1>0, <1>3 DEF StartProcess, FaultTypeOK
  <2> QED BY <2>1, <2>2, <2>3, <2>4, <2>5
<1>4. CASE LoadCheckpoint
  <2>1. PgTypeOK' /\ TaskTypeOK' /\ Holds'
    BY <1>0, <1>4 DEF LoadCheckpoint, PgTypeOK, TaskTypeOK, Holds, Handling, NoTx
  <2>2. AppTypeOK'
    BY <1>0, <1>4 DEF LoadCheckpoint, AppTypeOK
  <2>3. RunTypeOK'
    BY <1>0, <1>4 DEF LoadCheckpoint, AppTypeOK, RunTypeOK, Live, NoCheckpoint
  <2>4. QueueTypeOK'
    BY <1>0, <1>4 DEF LoadCheckpoint, QueueTypeOK
  <2>5. FaultTypeOK'
    BY <1>0, <1>4 DEF LoadCheckpoint, FaultTypeOK
  <2> QED BY <2>1, <2>2, <2>3, <2>4, <2>5
<1>5. CASE Connect
  <2>1. PgTypeOK' /\ TaskTypeOK' /\ Holds'
    BY <1>0, <1>5 DEF Connect, PgTypeOK, TaskTypeOK, Holds, Handling, NoTx
  <2>2. AppTypeOK'
    BY <1>0, <1>5 DEF Connect, AppTypeOK
  <2>3. RunTypeOK'
    BY <1>0, <1>5 DEF Connect, RunTypeOK, Live
  <2>4. QueueTypeOK'
    BY <1>0, <1>5 DEF Connect, QueueTypeOK
  <2>5. FaultTypeOK'
    BY <1>0, <1>5 DEF Connect, FaultTypeOK
  <2> QED BY <2>1, <2>2, <2>3, <2>4, <2>5
<1>6. CASE CreateSlotIfMissing
  <2>1. PgTypeOK' /\ TaskTypeOK' /\ Holds'
    BY <1>0, <1>6, WalAssumption DEF CreateSlotIfMissing, InsertLsn, Tx, PgTypeOK, TaskTypeOK, Holds, Handling, NoTx
  <2>2. AppTypeOK'
    BY <1>0, <1>6 DEF CreateSlotIfMissing, AppTypeOK
  <2>3. RunTypeOK'
    BY <1>0, <1>6 DEF CreateSlotIfMissing, RunTypeOK, Live
  <2>4. QueueTypeOK'
    BY <1>0, <1>6 DEF CreateSlotIfMissing, QueueTypeOK
  <2>5. FaultTypeOK'
    BY <1>0, <1>6 DEF CreateSlotIfMissing, FaultTypeOK
  <2> QED BY <2>1, <2>2, <2>3, <2>4, <2>5
<1>7. CASE StartReplication
  <2>1. PgTypeOK' /\ TaskTypeOK' /\ Holds'
    BY <1>0, <1>7 DEF StartReplication, PgTypeOK, TaskTypeOK, Holds, Handling, NoTx
  <2>2. AppTypeOK'
    BY <1>0, <1>7 DEF StartReplication, AppTypeOK
  <2>3. RunTypeOK'
    BY <1>0, <1>7, BackoffAssumption DEF StartReplication, RunTypeOK, Live
  <2>4. QueueTypeOK'
    BY <1>0, <1>7 DEF StartReplication, QueueTypeOK
  <2>5. FaultTypeOK'
    BY <1>0, <1>7 DEF StartReplication, FaultTypeOK
  <2> QED BY <2>1, <2>2, <2>3, <2>4, <2>5
<1>8. CASE ReconnectDelay
  <2>1. PgTypeOK' /\ TaskTypeOK' /\ Holds'
    BY <1>0, <1>8 DEF ReconnectDelay, PgTypeOK, TaskTypeOK, Holds, Handling, NoTx
  <2>2. AppTypeOK'
    BY <1>0, <1>8 DEF ReconnectDelay, AppTypeOK
  <2>3. RunTypeOK'
    BY <1>0, <1>8, BackoffAssumption DEF ReconnectDelay, RunTypeOK, Live, NextBackoffValue, MinOf
  <2>4. QueueTypeOK'
    BY <1>0, <1>8 DEF ReconnectDelay, QueueTypeOK
  <2>5. FaultTypeOK'
    BY <1>0, <1>8 DEF ReconnectDelay, FaultTypeOK
  <2> QED BY <2>1, <2>2, <2>3, <2>4, <2>5
<1>9. CASE FinalStatus
  <2>1. PgTypeOK' /\ TaskTypeOK' /\ Holds'
    BY <1>0, <1>9, SendStatusType DEF FinalStatus, PgTypeOK, TaskTypeOK, Holds, Handling, NoTx
  <2>2. AppTypeOK'
    BY <1>0, <1>9 DEF FinalStatus, AppTypeOK
  <2>3. RunTypeOK'
    BY <1>0, <1>9 DEF FinalStatus, RunTypeOK, Live
  <2>4. QueueTypeOK'
    BY <1>0, <1>9 DEF FinalStatus, QueueTypeOK
  <2>5. FaultTypeOK'
    BY <1>0, <1>9 DEF FinalStatus, FaultTypeOK
  <2> QED BY <2>1, <2>2, <2>3, <2>4, <2>5
<1>10. CASE EndCopy
  <2>1. PgTypeOK' /\ TaskTypeOK' /\ Holds'
    BY <1>0, <1>10, GoneType DEF EndCopy
  <2>2. AppTypeOK'
    BY <1>0, <1>10 DEF EndCopy, AppTypeOK
  <2>3. RunTypeOK'
    BY <1>0, <1>10 DEF EndCopy, RunTypeOK, Live, RunFails, RunRetries
  <2>4. QueueTypeOK'
    BY <1>0, <1>10 DEF EndCopy, QueueTypeOK
  <2>5. FaultTypeOK'
    BY <1>0, <1>10 DEF EndCopy, FaultTypeOK
  <2> QED BY <2>1, <2>2, <2>3, <2>4, <2>5
<1>11. CASE ReceiveBegin
  <2>1. PgTypeOK' /\ TaskTypeOK' /\ Holds'
    BY <1>0, <1>11, GoneType DEF ReceiveBegin, PgTypeOK, TaskTypeOK, Holds, Handling, NoTx, NextFrame
  <2>2. AppTypeOK'
    BY <1>0, <1>11 DEF ReceiveBegin, AppTypeOK
  <2>3. RunTypeOK'
    BY <1>0, <1>11 DEF ReceiveBegin, RunTypeOK, Live, RunFails
  <2>4. QueueTypeOK'
    BY <1>0, <1>11 DEF ReceiveBegin, QueueTypeOK
  <2>5. FaultTypeOK'
    BY <1>0, <1>11 DEF ReceiveBegin, FaultTypeOK
  <2> QED BY <2>1, <2>2, <2>3, <2>4, <2>5
<1>12. CASE ReceiveCommit
  <2>1. PgTypeOK' /\ TaskTypeOK' /\ Holds'
    BY <1>0, <1>12 DEF ReceiveCommit, PgTypeOK, TaskTypeOK, Holds, Handling, NoTx, Tx
  <2>2. AppTypeOK'
    BY <1>0, <1>12 DEF ReceiveCommit, AppTypeOK
  <2>3. RunTypeOK'
    BY <1>0, <1>12 DEF ReceiveCommit, RunTypeOK, Live
  <2>4. cursor \in Tx
    BY <1>0, <1>12 DEF ReceiveCommit, PgTypeOK, Holds, Tx
  <2>5. QueueTypeOK'
    BY <1>0, <1>12, <2>4, QueueFacts, OptionsAssumption DEF ReceiveCommit, QueueTypeOK, Full
  <2>6. FaultTypeOK'
    BY <1>0, <1>12 DEF ReceiveCommit, FaultTypeOK
  <2> QED BY <2>1, <2>2, <2>3, <2>4, <2>5, <2>6
<1>13. CASE PutCompletes
  <2>1. PgTypeOK' /\ TaskTypeOK' /\ Holds'
    BY <1>0, <1>13 DEF PutCompletes, PgTypeOK, TaskTypeOK, Holds, Handling, NoTx
  <2>2. AppTypeOK'
    BY <1>0, <1>13 DEF PutCompletes, AppTypeOK
  <2>3. RunTypeOK'
    BY <1>0, <1>13 DEF PutCompletes, RunTypeOK, Live
  <2>4. QueueTypeOK'
    BY <1>0, <1>13, QueueFacts, OptionsAssumption DEF PutCompletes, QueueTypeOK, Full, Holds
  <2>5. FaultTypeOK'
    BY <1>0, <1>13 DEF PutCompletes, FaultTypeOK
  <2> QED BY <2>1, <2>2, <2>3, <2>4, <2>5
<1>14. CASE HandleKeepalive
  <2>1. PgTypeOK' /\ TaskTypeOK' /\ Holds'
    BY <1>0, <1>14, SendStatusType DEF HandleKeepalive, PgTypeOK, TaskTypeOK, Holds, Handling, NoTx, NextFrame
  <2>2. AppTypeOK'
    BY <1>0, <1>14 DEF HandleKeepalive, AppTypeOK
  <2>3. RunTypeOK'
    BY <1>0, <1>14 DEF HandleKeepalive, RunTypeOK, Live
  <2>4. QueueTypeOK'
    BY <1>0, <1>14 DEF HandleKeepalive, QueueTypeOK
  <2>5. FaultTypeOK'
    BY <1>0, <1>14 DEF HandleKeepalive, FaultTypeOK
  <2> QED BY <2>1, <2>2, <2>3, <2>4, <2>5
<1>15. CASE StatusTimer
  <2>1. PgTypeOK' /\ TaskTypeOK' /\ Holds'
    BY <1>0, <1>15, SendStatusType DEF StatusTimer, PgTypeOK, TaskTypeOK, Holds, Handling, NoTx
  <2>2. AppTypeOK'
    BY <1>0, <1>15 DEF StatusTimer, AppTypeOK
  <2>3. RunTypeOK'
    BY <1>0, <1>15 DEF StatusTimer, RunTypeOK, Live
  <2>4. QueueTypeOK'
    BY <1>0, <1>15 DEF StatusTimer, QueueTypeOK
  <2>5. FaultTypeOK'
    BY <1>0, <1>15 DEF StatusTimer, FaultTypeOK
  <2> QED BY <2>1, <2>2, <2>3, <2>4, <2>5
<1>16. CASE Process
  <2>1. Head(queue) \in Tx
    BY <1>0, <1>16, QueueFacts DEF Process, QueueTypeOK
  <2>2. PgTypeOK' /\ TaskTypeOK' /\ Holds'
    BY <1>0, <1>16, <2>1 DEF Process, PgTypeOK, TaskTypeOK, Holds, Handling, NoTx, Tx
  <2>3. AppTypeOK'
    BY <1>0, <1>16, <2>1 DEF Process, AppTypeOK
  <2>4. RunTypeOK'
    BY <1>0, <1>16 DEF Process, RunTypeOK, Live
  <2>5. QueueTypeOK'
    BY <1>0, <1>16, QueueFacts, OptionsAssumption DEF Process, QueueTypeOK
  <2>6. FaultTypeOK'
    BY <1>0, <1>16 DEF Process, FaultTypeOK
  <2> QED BY <2>1, <2>2, <2>3, <2>4, <2>5, <2>6
<1>17. CASE ConsumerStops
  <2>1. PgTypeOK' /\ TaskTypeOK' /\ Holds'
    BY <1>0, <1>17 DEF ConsumerStops, PgTypeOK, TaskTypeOK, Holds, Handling, NoTx
  <2>2. AppTypeOK'
    BY <1>0, <1>17 DEF ConsumerStops, AppTypeOK
  <2>3. RunTypeOK'
    BY <1>0, <1>17 DEF ConsumerStops, RunTypeOK, Live
  <2>4. QueueTypeOK'
    BY <1>0, <1>17 DEF ConsumerStops, QueueTypeOK
  <2>5. FaultTypeOK'
    BY <1>0, <1>17 DEF ConsumerStops, FaultTypeOK
  <2> QED BY <2>1, <2>2, <2>3, <2>4, <2>5
<1>18. CASE HandlerEffect
  <2>1. inflight \in Tx
    BY <1>0, <1>18 DEF HandlerEffect, Holds, Handling
  <2>2. PgTypeOK' /\ TaskTypeOK' /\ Holds'
    BY <1>0, <1>18 DEF HandlerEffect, PgTypeOK, TaskTypeOK, Holds, Handling, NoTx
  <2>3. AppTypeOK'
    BY <1>0, <1>18, <2>1, ApplyFacts DEF HandlerEffect, AppTypeOK
  <2>4. RunTypeOK'
    BY <1>0, <1>18 DEF HandlerEffect, RunTypeOK, Live
  <2>5. QueueTypeOK'
    BY <1>0, <1>18 DEF HandlerEffect, QueueTypeOK
  <2>6. FaultTypeOK'
    BY <1>0, <1>18 DEF HandlerEffect, FaultTypeOK
  <2> QED BY <2>1, <2>2, <2>3, <2>4, <2>5, <2>6
<1>19. CASE SaveCommitted
  <2>1. Requested \subseteq Nat
    BY <1>0, <1>19, CommitLsnType, OptionsAssumption DEF SaveCommitted, Holds, Handling, Requested
  <2>2. PgTypeOK' /\ TaskTypeOK' /\ Holds'
    BY <1>0, <1>19, <2>1 DEF SaveCommitted, PgTypeOK, TaskTypeOK, Holds, Handling, NoTx
  <2>3. AppTypeOK'
    BY <1>0, <1>19, <2>1 DEF SaveCommitted, AppTypeOK
  <2>4. RunTypeOK'
    BY <1>0, <1>19 DEF SaveCommitted, RunTypeOK, Live
  <2>5. QueueTypeOK'
    BY <1>0, <1>19 DEF SaveCommitted, QueueTypeOK
  <2>6. FaultTypeOK'
    BY <1>0, <1>19 DEF SaveCommitted, FaultTypeOK
  <2> QED BY <2>1, <2>2, <2>3, <2>4, <2>5, <2>6
<1>20. CASE SaveRecorded
  <2>1. PgTypeOK' /\ TaskTypeOK' /\ Holds'
    BY <1>0, <1>20 DEF SaveRecorded, PgTypeOK, TaskTypeOK, Holds, Handling, NoTx
  <2>2. AppTypeOK'
    BY <1>0, <1>20 DEF SaveRecorded, AppTypeOK
  <2>3. RunTypeOK'
    BY <1>0, <1>20 DEF SaveRecorded, RunTypeOK, TaskTypeOK, Recorded, MaxOf
  <2>4. QueueTypeOK'
    BY <1>0, <1>20 DEF SaveRecorded, QueueTypeOK
  <2>5. FaultTypeOK'
    BY <1>0, <1>20 DEF SaveRecorded, FaultTypeOK
  <2> QED BY <2>1, <2>2, <2>3, <2>4, <2>5
<1>21. CASE SaveOnConnection
  <2>1. Requested \subseteq Nat
    BY <1>0, <1>21, CommitLsnType, OptionsAssumption DEF SaveOnConnection, Holds, Handling, Requested
  <2>2. PgTypeOK' /\ TaskTypeOK' /\ Holds'
    BY <1>0, <1>21, <2>1 DEF SaveOnConnection, PgTypeOK, TaskTypeOK, Holds, Handling, NoTx
  <2>3. AppTypeOK'
    BY <1>0, <1>21 DEF SaveOnConnection, AppTypeOK
  <2>4. RunTypeOK'
    BY <1>0, <1>21, <2>1 DEF SaveOnConnection, RunTypeOK, Recorded, MaxOf
  <2>5. QueueTypeOK'
    BY <1>0, <1>21 DEF SaveOnConnection, QueueTypeOK
  <2>6. FaultTypeOK'
    BY <1>0, <1>21 DEF SaveOnConnection, FaultTypeOK
  <2> QED BY <2>1, <2>2, <2>3, <2>4, <2>5, <2>6
<1>22. CASE CallerCommits
  <2>1. inflight \in Tx
    BY <1>0, <1>22 DEF CallerCommits, Holds, Handling
  <2>2. PgTypeOK' /\ TaskTypeOK' /\ Holds'
    BY <1>0, <1>22 DEF CallerCommits, PgTypeOK, TaskTypeOK, Holds, Handling, NoTx
  <2>3. AppTypeOK'
    BY <1>0, <1>22, <2>1, ApplyFacts DEF CallerCommits, AppTypeOK, TaskTypeOK
  <2>4. RunTypeOK'
    BY <1>0, <1>22 DEF CallerCommits, RunTypeOK, Live
  <2>5. QueueTypeOK'
    BY <1>0, <1>22 DEF CallerCommits, QueueTypeOK
  <2>6. FaultTypeOK'
    BY <1>0, <1>22 DEF CallerCommits, FaultTypeOK
  <2> QED BY <2>1, <2>2, <2>3, <2>4, <2>5, <2>6
<1>23. CASE HandlerReturns
  <2>1. PgTypeOK' /\ TaskTypeOK' /\ Holds'
    BY <1>0, <1>23 DEF HandlerReturns, PgTypeOK, TaskTypeOK, Holds, Handling, NoTx
  <2>2. AppTypeOK'
    BY <1>0, <1>23 DEF HandlerReturns, AppTypeOK
  <2>3. RunTypeOK'
    BY <1>0, <1>23 DEF HandlerReturns, RunTypeOK, Live
  <2>4. QueueTypeOK'
    BY <1>0, <1>23 DEF HandlerReturns, QueueTypeOK
  <2>5. FaultTypeOK'
    BY <1>0, <1>23 DEF HandlerReturns, FaultTypeOK
  <2> QED BY <2>1, <2>2, <2>3, <2>4, <2>5
<1>24. CASE Crash
  <2>1. PgTypeOK' /\ TaskTypeOK' /\ Holds'
    BY <1>0, <1>24, GoneType DEF Crash
  <2>2. AppTypeOK'
    BY <1>0, <1>24 DEF Crash, AppTypeOK
  <2>3. RunTypeOK'
    BY <1>0, <1>24 DEF Crash, RunTypeOK, Live, RunFails, RunRetries
  <2>4. QueueTypeOK'
    BY <1>0, <1>24 DEF Crash, QueueTypeOK
  <2>5. FaultTypeOK'
    BY <1>0, <1>24, FaultType DEF Crash, FaultTypeOK, Faults
  <2> QED BY <2>1, <2>2, <2>3, <2>4, <2>5
<1>25. CASE AttemptRefused
  <2>1. PgTypeOK' /\ TaskTypeOK' /\ Holds'
    BY <1>0, <1>25 DEF AttemptRefused, PgTypeOK, TaskTypeOK, Holds, Handling, NoTx
  <2>2. AppTypeOK'
    BY <1>0, <1>25 DEF AttemptRefused, AppTypeOK
  <2>3. RunTypeOK'
    BY <1>0, <1>25 DEF AttemptRefused, RunTypeOK, Live, RunRetries
  <2>4. QueueTypeOK'
    BY <1>0, <1>25 DEF AttemptRefused, QueueTypeOK
  <2>5. FaultTypeOK'
    BY <1>0, <1>25, FaultType DEF AttemptRefused, Faults
  <2> QED BY <2>1, <2>2, <2>3, <2>4, <2>5
<1>26. CASE AttemptBreaks
  <2>1. PgTypeOK' /\ TaskTypeOK' /\ Holds'
    BY <1>0, <1>26 DEF AttemptBreaks, PgTypeOK, TaskTypeOK, Holds, Handling, NoTx
  <2>2. AppTypeOK'
    BY <1>0, <1>26 DEF AttemptBreaks, AppTypeOK
  <2>3. RunTypeOK'
    BY <1>0, <1>26 DEF AttemptBreaks, RunTypeOK, Live, RunFails
  <2>4. QueueTypeOK'
    BY <1>0, <1>26 DEF AttemptBreaks, QueueTypeOK
  <2>5. FaultTypeOK'
    BY <1>0, <1>26, FaultType DEF AttemptBreaks, Faults
  <2> QED BY <2>1, <2>2, <2>3, <2>4, <2>5
<1>27. CASE ConnectionLost
  <2>1. PgTypeOK' /\ TaskTypeOK' /\ Holds'
    BY <1>0, <1>27, GoneType DEF ConnectionLost
  <2>2. AppTypeOK'
    BY <1>0, <1>27 DEF ConnectionLost, AppTypeOK
  <2>3. RunTypeOK'
    BY <1>0, <1>27 DEF ConnectionLost, RunTypeOK, Live, RunFails, RunRetries
  <2>4. QueueTypeOK'
    BY <1>0, <1>27 DEF ConnectionLost, QueueTypeOK
  <2>5. FaultTypeOK'
    BY <1>0, <1>27, FaultType DEF ConnectionLost, FaultTypeOK, Faults
  <2> QED BY <2>1, <2>2, <2>3, <2>4, <2>5
<1>28. CASE HandlerRaises
  <2>1. PgTypeOK' /\ TaskTypeOK' /\ Holds'
    BY <1>0, <1>28, GoneType DEF HandlerRaises
  <2>2. AppTypeOK'
    BY <1>0, <1>28 DEF HandlerRaises, AppTypeOK
  <2>3. RunTypeOK'
    BY <1>0, <1>28 DEF HandlerRaises, RunTypeOK, Live, RunFails, RunRetries
  <2>4. QueueTypeOK'
    BY <1>0, <1>28 DEF HandlerRaises, QueueTypeOK
  <2>5. FaultTypeOK'
    BY <1>0, <1>28, FaultType DEF HandlerRaises, FaultTypeOK, Faults
  <2> QED BY <2>1, <2>2, <2>3, <2>4, <2>5
<1>29. CASE ShutdownCut
  <2>1. PgTypeOK' /\ TaskTypeOK' /\ Holds'
    BY <1>0, <1>29, GoneType DEF ShutdownCut
  <2>2. AppTypeOK'
    BY <1>0, <1>29 DEF ShutdownCut, AppTypeOK
  <2>3. RunTypeOK'
    BY <1>0, <1>29 DEF ShutdownCut, RunTypeOK, Live, RunFails, RunRetries
  <2>4. QueueTypeOK'
    BY <1>0, <1>29 DEF ShutdownCut, QueueTypeOK
  <2>5. FaultTypeOK'
    BY <1>0, <1>29, FaultType DEF ShutdownCut, FaultTypeOK, Faults
  <2> QED BY <2>1, <2>2, <2>3, <2>4, <2>5
<1>30. CASE Close
  <2>1. PgTypeOK' /\ TaskTypeOK' /\ Holds'
    BY <1>0, <1>30 DEF Close, PgTypeOK, TaskTypeOK, Holds, Handling, NoTx
  <2>2. AppTypeOK'
    BY <1>0, <1>30 DEF Close, AppTypeOK
  <2>3. RunTypeOK'
    BY <1>0, <1>30 DEF Close, RunTypeOK, Live
  <2>4. QueueTypeOK'
    BY <1>0, <1>30, QueueFacts, OptionsAssumption DEF Close, QueueTypeOK
  <2>5. FaultTypeOK'
    BY <1>0, <1>30, FaultType DEF Close, Faults
  <2> QED BY <2>1, <2>2, <2>3, <2>4, <2>5
<1> QED
  BY <1>1, <1>2, <1>3, <1>4, <1>5, <1>6, <1>7, <1>8, <1>9, <1>10, <1>11,
     <1>12, <1>13, <1>14, <1>15, <1>16, <1>17, <1>18, <1>19, <1>20, <1>21,
     <1>22, <1>23, <1>24, <1>25, <1>26, <1>27, <1>28, <1>29, <1>30
     DEF Next, RunOnce, Receiver, Consumer, Failing

(* Every reachable state of the client is well typed; in particular the queue
   never exceeds max_pending_transactions and the reconnect delay stays
   between _INITIAL_BACKOFF and _MAX_BACKOFF. *)
THEOREM TypeCorrect == Spec => []TypeOK
<1>1. Spec => []TypeInv
  BY InitType, NextType, PTL DEF Spec
<1>2. TypeInv => TypeOK
  BY DEF TypeInv
<1> QED
  BY <1>1, <1>2, PTL

-----------------------------------------------------------------------------
(* Dispatch in commit order *)

\* A position is safe when all it lets PostgreSQL skip was dispatched.
Safe(pos) == \A t \in Covered(pos) : Visible(t) => t \in delivered

SafePositions ==
    /\ Safe(checkpoint + 1)
    /\ Safe(confirmed_flush)
    /\ Safe(durable_lsn + 1)
    /\ Safe(start_lsn)

\* A transaction not dispatched yet is ahead of position k of the queue.
Ahead(u, k) == u \in delivered \/ \E j \in 1..(k - 1) : queue[j] = u

\* Nothing is missing before a queued transaction, stale ones included.
QueueGapless ==
    \A i \in 1..Len(queue) : \A u \in Tx :
        Visible(u) /\ u < queue[i] => Ahead(u, i)

\* Nothing is missing before the one that waits for room.
BlockedGapless ==
    recv = "put" /\ ~closing =>
        \A u \in Tx : Visible(u) /\ u < blocked => Ahead(u, Len(queue) + 1)

\* Nothing is missing before the one the walsender sends next.
CursorGapless ==
    phase = "running" /\ ~closing =>
        \A u \in Tx : Visible(u) /\ u < cursor =>
            Ahead(u, Len(queue) + 1) \/ (recv = "put" /\ u = blocked)

\* The handler was called with what it handles, and what it saves is allowed.
HandlerKnown ==
    /\ cons \in Handling => inflight \in delivered
    /\ cons \in {"committed", "uncommitted"} => saving <= CommitLsn(inflight)

\* Without a slot nothing was received, saved or dispatched.
BeforeSlot ==
    slot_from = NoSlot =>
        /\ phase \notin {"start", "running", "endcopy"}
        /\ checkpoint = NoCheckpoint
        /\ durable_lsn = 0 /\ start_lsn = 0
        /\ queue = <<>> /\ delivered = {}

\* The tasks exist only while _run_once awaits them.
TasksOnlyInRun ==
    phase \notin {"running", "endcopy"} => recv = "idle" /\ cons = "idle"

OrderInv ==
    /\ DispatchedInOrder /\ SafePositions
    /\ QueueGapless /\ BlockedGapless /\ CursorGapless
    /\ HandlerKnown /\ BeforeSlot /\ TasksOnlyInRun

\* Positions stay safe while more is dispatched and the slot stays.
LEMMA SafeStep ==
    ASSUME OrderInv, UNCHANGED slot_from, delivered \subseteq delivered',
           UNCHANGED <<checkpoint, confirmed_flush, durable_lsn, start_lsn>>
    PROVE  SafePositions'
BY DEF OrderInv, SafePositions, Safe, Covered, Visible

\* No transaction commits at position 0.
LEMMA NothingCovered == Covered(0) = {} /\ Covered(1) = {}
BY WalAssumption DEF Covered

\* A status update reports a safe position.
LEMMA StatusSafe ==
    ASSUME TypeInv, OrderInv, SendStatus, UNCHANGED <<slot_from, delivered>>
    PROVE  Safe(confirmed_flush)'
BY MaxOfFacts DEF TypeInv, TypeOK, PgTypeOK, RunTypeOK, OrderInv, SafePositions,
       Safe, Covered, Visible, SendStatus, StatusFlush, MaxOf

\* What save() may persist while t is handled is a safe position.
LEMMA SaveSafe ==
    ASSUME TypeInv, OrderInv, cons \in Handling,
           NEW lsn \in Nat, SaveAllowed(lsn)
    PROVE  Safe(lsn + 1)
<1>1. inflight \in Tx /\ inflight \in delivered
  BY DEF TypeInv, Holds, OrderInv, HandlerKnown
<1>2. \A u \in Covered(lsn + 1) : u \in Tx /\ u <= inflight
  BY <1>1, SavedCoversUpTo DEF SaveAllowed, Covered
<1>3. \A u \in Tx : Visible(u) /\ u < inflight => u \in delivered
  BY <1>1 DEF OrderInv, DispatchedInOrder
<1> QED
  BY <1>1, <1>2, <1>3, NAssumption DEF Safe, Tx

\* A connection that ends leaves only the queue to account for.
LEMMA GoneOrder ==
    ASSUME OrderInv, ConnectionGone, phase' \notin {"start", "running", "endcopy"},
           UNCHANGED <<appVars, start_lsn, durable_lsn, queue>>
    PROVE  OrderInv'
<1> USE DEF ConnectionGone, TasksGone, appVars
<1>1. DispatchedInOrder' /\ SafePositions'
  BY SafeStep DEF OrderInv, DispatchedInOrder, Visible
<1>2. QueueGapless'
  BY DEF OrderInv, QueueGapless, Ahead, Visible
<1>3. BlockedGapless' /\ CursorGapless' /\ HandlerKnown' /\ TasksOnlyInRun'
  BY DEF BlockedGapless, CursorGapless, HandlerKnown, TasksOnlyInRun, Handling
<1>4. BeforeSlot'
  BY DEF OrderInv, BeforeSlot
<1> QED
  BY <1>1, <1>2, <1>3, <1>4 DEF OrderInv

\* Initially nothing is dispatched and no position covers anything.
LEMMA InitOrder == Init => OrderInv
<1> SUFFICES ASSUME Init PROVE OrderInv
  OBVIOUS
<1> USE DEF Init
<1>1. DispatchedInOrder /\ SafePositions
  BY DEF DispatchedInOrder, SafePositions, Safe, Visible
<1>2. QueueGapless
  BY DEF QueueGapless
<1>3. BlockedGapless /\ CursorGapless /\ HandlerKnown /\ TasksOnlyInRun
  BY DEF BlockedGapless, CursorGapless, HandlerKnown, TasksOnlyInRun, Handling
<1>4. BeforeSlot
  BY DEF BeforeSlot
<1> QED
  BY <1>1, <1>2, <1>3, <1>4 DEF OrderInv

\* Every step keeps OrderInv.
LEMMA NextOrder ==
    ASSUME TypeInv, OrderInv, [Next]_vars
    PROVE  OrderInv'
<1> USE DEF pgVars, appVars, runVars, taskVars, histVars
<1>0. /\ DispatchedInOrder /\ SafePositions
      /\ QueueGapless /\ BlockedGapless /\ CursorGapless
      /\ HandlerKnown /\ BeforeSlot /\ TasksOnlyInRun
  BY DEF OrderInv
<1>1. CASE UNCHANGED vars
  <2>1. DispatchedInOrder'
    BY <1>0, <1>1 DEF vars, DispatchedInOrder, Visible
  <2>2. SafePositions'
    BY <1>0, <1>1, SafeStep DEF vars
  <2>3. QueueGapless'
    BY <1>0, <1>1 DEF vars, QueueGapless, Ahead, Visible
  <2>4. BlockedGapless'
    BY <1>0, <1>1 DEF vars, BlockedGapless, Ahead, Visible
  <2>5. CursorGapless'
    BY <1>0, <1>1 DEF vars, CursorGapless, Ahead, Visible
  <2>6. HandlerKnown'
    BY <1>0, <1>1 DEF vars, HandlerKnown, Handling
  <2>7. BeforeSlot' /\ TasksOnlyInRun'
    BY <1>0, <1>1 DEF vars, BeforeSlot, TasksOnlyInRun
  <2> QED BY <2>1, <2>2, <2>3, <2>4, <2>5, <2>6, <2>7 DEF OrderInv
<1>2. CASE CommitTx
  <2>1. DispatchedInOrder'
    BY <1>0, <1>2 DEF CommitTx, DispatchedInOrder, Visible
  <2>2. SafePositions'
    BY <1>0, <1>2, SafeStep DEF CommitTx
  <2>3. QueueGapless'
    BY <1>0, <1>2 DEF CommitTx, QueueGapless, Ahead, Visible
  <2>4. BlockedGapless'
    BY <1>0, <1>2 DEF CommitTx, BlockedGapless, Ahead, Visible
  <2>5. CursorGapless'
    BY <1>0, <1>2 DEF CommitTx, CursorGapless, Ahead, Visible
  <2>6. HandlerKnown'
    BY <1>0, <1>2 DEF CommitTx, HandlerKnown, Handling
  <2>7. BeforeSlot' /\ TasksOnlyInRun'
    BY <1>0, <1>2 DEF CommitTx, BeforeSlot, TasksOnlyInRun
  <2> QED BY <2>1, <2>2, <2>3, <2>4, <2>5, <2>6, <2>7 DEF OrderInv
<1>3. CASE StartProcess
  <2>1. DispatchedInOrder'
    BY <1>0, <1>3 DEF StartProcess, DispatchedInOrder, Visible
  <2>2. SafePositions'
    BY <1>0, <1>3, NothingCovered DEF StartProcess, SafePositions, Safe,
       Covered, Visible, TypeInv, TypeOK, PgTypeOK
  <2>3. QueueGapless'
    BY <1>0, <1>3 DEF StartProcess, QueueGapless
  <2>4. BlockedGapless'
    BY <1>0, <1>3 DEF StartProcess, BlockedGapless, TasksOnlyInRun
  <2>5. CursorGapless'
    BY <1>0, <1>3 DEF StartProcess, CursorGapless, Ahead, Visible
  <2>6. HandlerKnown'
    BY <1>0, <1>3 DEF StartProcess, HandlerKnown, Handling
  <2>7. BeforeSlot' /\ TasksOnlyInRun'
    BY <1>0, <1>3 DEF StartProcess, BeforeSlot, TasksOnlyInRun
  <2> QED BY <2>1, <2>2, <2>3, <2>4, <2>5, <2>6, <2>7 DEF OrderInv
<1>4. CASE LoadCheckpoint
  <2>1. DispatchedInOrder'
    BY <1>0, <1>4 DEF LoadCheckpoint, DispatchedInOrder, Visible
  <2>2. SafePositions'
    BY <1>0, <1>4, NothingCovered DEF LoadCheckpoint, SafePositions, Safe,
       Visible
  <2>3. QueueGapless'
    BY <1>0, <1>4 DEF LoadCheckpoint, QueueGapless, Ahead, Visible
  <2>4. BlockedGapless'
    BY <1>0, <1>4 DEF LoadCheckpoint, BlockedGapless, Ahead, Visible
  <2>5. CursorGapless'
    BY <1>0, <1>4 DEF LoadCheckpoint, CursorGapless, Ahead, Visible
  <2>6. HandlerKnown'
    BY <1>0, <1>4 DEF LoadCheckpoint, HandlerKnown, Handling
  <2>7. BeforeSlot' /\ TasksOnlyInRun'
    BY <1>0, <1>4 DEF LoadCheckpoint, BeforeSlot, TasksOnlyInRun
  <2> QED BY <2>1, <2>2, <2>3, <2>4, <2>5, <2>6, <2>7 DEF OrderInv
<1>5. CASE Connect
  <2>1. DispatchedInOrder'
    BY <1>0, <1>5 DEF Connect, DispatchedInOrder, Visible
  <2>2. SafePositions'
    BY <1>0, <1>5, SafeStep DEF Connect
  <2>3. QueueGapless'
    BY <1>0, <1>5 DEF Connect, QueueGapless, Ahead, Visible
  <2>4. BlockedGapless'
    BY <1>0, <1>5 DEF Connect, BlockedGapless, Ahead, Visible
  <2>5. CursorGapless'
    BY <1>0, <1>5 DEF Connect, CursorGapless, Ahead, Visible
  <2>6. HandlerKnown'
    BY <1>0, <1>5 DEF Connect, HandlerKnown, Handling
  <2>7. BeforeSlot' /\ TasksOnlyInRun'
    BY <1>0, <1>5 DEF Connect, BeforeSlot, TasksOnlyInRun
  <2> QED BY <2>1, <2>2, <2>3, <2>4, <2>5, <2>6, <2>7 DEF OrderInv
<1>6. CASE CreateSlotIfMissing
  <2>1. DispatchedInOrder'
    BY <1>0, <1>6 DEF CreateSlotIfMissing, DispatchedInOrder, Visible,
       BeforeSlot
  <2>2. SafePositions'
    <3>1. CASE slot_from # NoSlot
      BY <1>0, <1>6, <3>1, SafeStep DEF CreateSlotIfMissing
    <3>2. CASE slot_from = NoSlot
      <4>1. checkpoint + 1 = 0 /\ durable_lsn + 1 = 1 /\ start_lsn = 0
        BY <1>0, <3>2 DEF BeforeSlot, NoCheckpoint
      <4>2. \A t \in Covered(InsertLsn) : t <= committed
        BY NAssumption, WalAssumption
           DEF Covered, InsertLsn, Tx, TypeInv, TypeOK, PgTypeOK
      <4> QED
        BY <1>6, <3>2, <4>1, <4>2, NothingCovered, NAssumption
           DEF CreateSlotIfMissing, SafePositions, Safe, Visible, Covered, Tx,
               TypeInv, TypeOK, PgTypeOK
    <3> QED BY <3>1, <3>2
  <2>3. QueueGapless'
    BY <1>0, <1>6 DEF CreateSlotIfMissing, QueueGapless, Ahead, Visible,
       BeforeSlot
  <2>4. BlockedGapless'
    BY <1>0, <1>6 DEF CreateSlotIfMissing, BlockedGapless, Ahead, Visible,
       BeforeSlot, TasksOnlyInRun
  <2>5. CursorGapless'
    BY <1>0, <1>6 DEF CreateSlotIfMissing, CursorGapless
  <2>6. HandlerKnown'
    BY <1>0, <1>6 DEF CreateSlotIfMissing, HandlerKnown, Handling
  <2>7. BeforeSlot' /\ TasksOnlyInRun'
    BY <1>0, <1>6, NAssumption DEF CreateSlotIfMissing, BeforeSlot,
       TasksOnlyInRun, NoSlot, TypeInv, TypeOK, PgTypeOK
  <2> QED BY <2>1, <2>2, <2>3, <2>4, <2>5, <2>6, <2>7 DEF OrderInv
<1>7. CASE StartReplication
  <2>1. DispatchedInOrder'
    BY <1>0, <1>7 DEF StartReplication, DispatchedInOrder, Visible
  <2>2. SafePositions'
    BY <1>0, <1>7, SafeStep DEF StartReplication
  <2>3. QueueGapless'
    BY <1>0, <1>7 DEF StartReplication, QueueGapless, Ahead, Visible
  <2>4. BlockedGapless'
    BY <1>0, <1>7 DEF StartReplication, BlockedGapless
  <2>5. CursorGapless'
    <3>1. PICK c \in 1..(N + 1) :
              /\ FirstSent(c, MaxOf(start_lsn, confirmed_flush))
              /\ cursor' = c
      BY <1>7 DEF StartReplication
    <3>2. \A u \in Covered(MaxOf(start_lsn, confirmed_flush)) :
              Visible(u) => u \in delivered
      BY <1>0, MaxOfFacts DEF SafePositions, Safe, TypeInv, TypeOK, PgTypeOK, RunTypeOK
    <3>3. \A u \in Tx : Visible(u) /\ u < c => u \in delivered
      BY <3>1, <3>2 DEF FirstSent, Visible
    <3> QED
      BY <1>7, <3>1, <3>3 DEF StartReplication, CursorGapless, Ahead, Visible
  <2>6. HandlerKnown'
    BY <1>0, <1>7 DEF StartReplication, HandlerKnown, Handling
  <2>7. BeforeSlot' /\ TasksOnlyInRun'
    BY <1>0, <1>7 DEF StartReplication, BeforeSlot, TasksOnlyInRun
  <2> QED BY <2>1, <2>2, <2>3, <2>4, <2>5, <2>6, <2>7 DEF OrderInv
<1>8. CASE ReconnectDelay
  <2>1. DispatchedInOrder'
    BY <1>0, <1>8 DEF ReconnectDelay, DispatchedInOrder, Visible
  <2>2. SafePositions'
    BY <1>0, <1>8, SafeStep DEF ReconnectDelay
  <2>3. QueueGapless'
    BY <1>0, <1>8 DEF ReconnectDelay, QueueGapless, Ahead, Visible
  <2>4. BlockedGapless'
    BY <1>0, <1>8 DEF ReconnectDelay, BlockedGapless, Ahead, Visible
  <2>5. CursorGapless'
    BY <1>0, <1>8 DEF ReconnectDelay, CursorGapless, Ahead, Visible
  <2>6. HandlerKnown'
    BY <1>0, <1>8 DEF ReconnectDelay, HandlerKnown, Handling
  <2>7. BeforeSlot' /\ TasksOnlyInRun'
    BY <1>0, <1>8 DEF ReconnectDelay, BeforeSlot, TasksOnlyInRun
  <2> QED BY <2>1, <2>2, <2>3, <2>4, <2>5, <2>6, <2>7 DEF OrderInv
<1>9. CASE FinalStatus
  <2>1. DispatchedInOrder'
    BY <1>0, <1>9 DEF FinalStatus, DispatchedInOrder, Visible
  <2>2. SafePositions'
    BY <1>0, <1>9, StatusSafe DEF FinalStatus, SafePositions, Safe, Covered,
       Visible
  <2>3. QueueGapless'
    BY <1>0, <1>9 DEF FinalStatus, QueueGapless, Ahead, Visible
  <2>4. BlockedGapless'
    BY <1>0, <1>9 DEF FinalStatus, BlockedGapless, Ahead, Visible
  <2>5. CursorGapless'
    BY <1>0, <1>9 DEF FinalStatus, CursorGapless, Ahead, Visible
  <2>6. HandlerKnown'
    BY <1>0, <1>9 DEF FinalStatus, HandlerKnown, Handling
  <2>7. BeforeSlot' /\ TasksOnlyInRun'
    BY <1>0, <1>9 DEF FinalStatus, BeforeSlot, TasksOnlyInRun
  <2> QED BY <2>1, <2>2, <2>3, <2>4, <2>5, <2>6, <2>7 DEF OrderInv
<1>10. CASE EndCopy
  BY <1>0, <1>10, GoneOrder DEF EndCopy, RunRetries, RunFails
<1>11. CASE ReceiveBegin
  <2>0. CASE current_xid # NoTx
    BY <1>0, <1>11, <2>0, GoneOrder DEF ReceiveBegin, RunFails
  <2>a. CASE current_xid = NoTx
    <3>1. DispatchedInOrder'
      BY <1>0, <1>11, <2>a DEF ReceiveBegin, NextFrame, DispatchedInOrder,
         Visible
    <3>2. SafePositions'
      BY <1>0, <1>11, <2>a, SafeStep DEF ReceiveBegin, NextFrame
    <3>3. QueueGapless'
      BY <1>0, <1>11, <2>a DEF ReceiveBegin, NextFrame, QueueGapless, Ahead,
         Visible
    <3>4. BlockedGapless'
      BY <1>0, <1>11, <2>a DEF ReceiveBegin, NextFrame, BlockedGapless, Ahead,
         Visible
    <3>5. CursorGapless'
      BY <1>0, <1>11, <2>a DEF ReceiveBegin, NextFrame, CursorGapless, Ahead,
         Visible
    <3>6. HandlerKnown'
      BY <1>0, <1>11, <2>a DEF ReceiveBegin, NextFrame, HandlerKnown, Handling
    <3>7. BeforeSlot' /\ TasksOnlyInRun'
      BY <1>0, <1>11, <2>a DEF ReceiveBegin, NextFrame, BeforeSlot,
         TasksOnlyInRun
    <3> QED BY <3>1, <3>2, <3>3, <3>4, <3>5, <3>6, <3>7 DEF OrderInv
  <2> QED BY <2>0, <2>a
<1>12. CASE ReceiveCommit
  <2>n. PICK n \in Nat : n = Len(queue)
    BY DEF TypeInv, TypeOK, QueueTypeOK
  <2>0. /\ queue \in Seq(Tx) /\ Len(queue) \in Nat
        /\ cursor \in Tx
    BY <1>12, NAssumption DEF ReceiveCommit, TypeInv, TypeOK, QueueTypeOK, PgTypeOK, Holds, Tx
  <2>a. \/ queue' = queue
        \/ /\ ~closing
           /\ Len(queue') = Len(queue) + 1
           /\ queue'[Len(queue) + 1] = cursor
           /\ \A i \in 1..Len(queue) : queue'[i] = queue[i]
    BY <1>12, <2>0 DEF ReceiveCommit
  <2>b. ASSUME NEW u \in Tx, NEW k \in 1..(Len(queue) + 1), Ahead(u, k)
        PROVE  Ahead(u, k)'
    <3>1. \A j \in 1..(k - 1) : queue'[j] = queue[j]
      BY <2>0, <2>a
    <3> QED BY <1>12, <2>b, <3>1 DEF ReceiveCommit, Ahead
  <2>1. DispatchedInOrder'
    BY <1>0, <1>12 DEF ReceiveCommit, DispatchedInOrder, Visible
  <2>2. SafePositions'
    BY <1>0, <1>12, SafeStep DEF ReceiveCommit
  <2>3. QueueGapless'
    <3> SUFFICES ASSUME NEW i \in 1..Len(queue'), NEW u \in Tx,
                        Visible(u)', u < queue'[i]
                 PROVE  Ahead(u, i)'
      BY DEF QueueGapless
    <3>1. Visible(u)
      BY <1>12 DEF ReceiveCommit, Visible
    <3>2. CASE i \in 1..Len(queue)
      <4>1. Ahead(u, i)
        BY <1>0, <2>a, <3>1, <3>2 DEF QueueGapless
      <4> QED BY <2>0, <2>b, <3>2, <4>1
    <3>3. CASE i = Len(queue) + 1
      <4>1. ~closing /\ u < cursor
        BY <2>0, <2>a, <3>3
      <4>2. Ahead(u, i)
        BY <1>0, <1>12, <3>1, <3>3, <4>1 DEF ReceiveCommit, CursorGapless
      <4> QED BY <2>0, <2>b, <3>3, <4>2
    <3> QED BY <2>0, <2>a, <3>2, <3>3
  <2>4. BlockedGapless'
    <3> SUFFICES ASSUME recv' = "put", ~closing', NEW u \in Tx,
                        Visible(u)', u < blocked'
                 PROVE  Ahead(u, n + 1)'
      BY <1>12, <2>n DEF ReceiveCommit, BlockedGapless
    <3>1. Ahead(u, n + 1)
      BY <1>0, <1>12, <2>n DEF ReceiveCommit, CursorGapless, Visible
    <3> QED BY <2>n, <2>b, <3>1
  <2>5. CursorGapless'
    <3> SUFFICES ASSUME phase' = "running", ~closing', NEW u \in Tx,
                        Visible(u)', u < cursor'
                 PROVE  Ahead(u, Len(queue) + 1)' \/ (recv' = "put" /\ u = blocked')
      BY DEF CursorGapless
    <3>1. CASE u = cursor
      BY <1>12, <2>0, <2>a, <3>1 DEF ReceiveCommit, Ahead
    <3>2. CASE u < cursor
      <4>1. Ahead(u, n + 1)
        BY <1>0, <1>12, <2>n, <3>2 DEF ReceiveCommit, CursorGapless, Visible
      <4>2. Ahead(u, n + 1)'
        BY <2>n, <2>b, <4>1
      <4> QED BY <2>n, <2>a, <4>2 DEF Ahead
    <3>3. u \in Int /\ cursor \in Int /\ u < cursor + 1
      BY <1>12, NAssumption DEF ReceiveCommit, Tx, TypeInv, TypeOK, PgTypeOK
    <3> QED BY <3>1, <3>2, <3>3
  <2>6. HandlerKnown'
    BY <1>0, <1>12 DEF ReceiveCommit, HandlerKnown, Handling
  <2>7. BeforeSlot' /\ TasksOnlyInRun'
    BY <1>0, <1>12 DEF ReceiveCommit, BeforeSlot, TasksOnlyInRun
  <2> QED BY <2>1, <2>2, <2>3, <2>4, <2>5, <2>6, <2>7 DEF OrderInv
<1>13. CASE PutCompletes
  <2>n. PICK n \in Nat : n = Len(queue)
    BY DEF TypeInv, TypeOK, QueueTypeOK
  <2>0. /\ queue \in Seq(Tx) /\ Len(queue) \in Nat
        /\ blocked \in Tx
    BY <1>13, NAssumption DEF PutCompletes, TypeInv, TypeOK, QueueTypeOK, PgTypeOK, Holds, Tx
  <2>a. \/ queue' = queue
        \/ /\ ~closing
           /\ Len(queue') = Len(queue) + 1
           /\ queue'[Len(queue) + 1] = blocked
           /\ \A i \in 1..Len(queue) : queue'[i] = queue[i]
    BY <1>13, <2>0 DEF PutCompletes
  <2>b. ASSUME NEW u \in Tx, NEW k \in 1..(Len(queue) + 1), Ahead(u, k)
        PROVE  Ahead(u, k)'
    <3>1. \A j \in 1..(k - 1) : queue'[j] = queue[j]
      BY <2>0, <2>a
    <3> QED BY <1>13, <2>b, <3>1 DEF PutCompletes, Ahead
  <2>1. DispatchedInOrder'
    BY <1>0, <1>13 DEF PutCompletes, DispatchedInOrder, Visible
  <2>2. SafePositions'
    BY <1>0, <1>13, SafeStep DEF PutCompletes
  <2>3. QueueGapless'
    <3> SUFFICES ASSUME NEW i \in 1..Len(queue'), NEW u \in Tx,
                        Visible(u)', u < queue'[i]
                 PROVE  Ahead(u, i)'
      BY DEF QueueGapless
    <3>1. Visible(u)
      BY <1>13 DEF PutCompletes, Visible
    <3>2. CASE i \in 1..Len(queue)
      <4>1. Ahead(u, i)
        BY <1>0, <2>a, <3>1, <3>2 DEF QueueGapless
      <4> QED BY <2>0, <2>b, <3>2, <4>1
    <3>3. CASE i = Len(queue) + 1
      <4>1. ~closing /\ u < blocked
        BY <2>0, <2>a, <3>3
      <4>2. Ahead(u, i)
        BY <1>0, <1>13, <3>1, <3>3, <4>1 DEF PutCompletes, BlockedGapless
      <4> QED BY <2>0, <2>b, <3>3, <4>2
    <3> QED BY <2>0, <2>a, <3>2, <3>3
  <2>4. BlockedGapless'
    BY <1>0, <1>13 DEF PutCompletes, BlockedGapless
  <2>5. CursorGapless'
    <3> SUFFICES ASSUME phase' = "running", ~closing', NEW u \in Tx,
                        Visible(u)', u < cursor'
                 PROVE  Ahead(u, Len(queue) + 1)'
      BY DEF CursorGapless
    <3>1. CASE u = blocked
      BY <1>13, <2>0, <2>a, <3>1 DEF PutCompletes, Ahead
    <3>2. CASE u # blocked
      <4>1. Ahead(u, n + 1)
        BY <1>0, <1>13, <2>n, <3>2 DEF PutCompletes, CursorGapless, Visible
      <4>2. Ahead(u, n + 1)'
        BY <2>n, <2>b, <4>1
      <4> QED BY <2>n, <2>a, <4>2 DEF Ahead
    <3> QED BY <3>1, <3>2
  <2>6. HandlerKnown'
    BY <1>0, <1>13 DEF PutCompletes, HandlerKnown, Handling
  <2>7. BeforeSlot' /\ TasksOnlyInRun'
    BY <1>0, <1>13 DEF PutCompletes, BeforeSlot, TasksOnlyInRun
  <2> QED BY <2>1, <2>2, <2>3, <2>4, <2>5, <2>6, <2>7 DEF OrderInv
<1>14. CASE HandleKeepalive
  <2>1. DispatchedInOrder'
    BY <1>0, <1>14 DEF HandleKeepalive, DispatchedInOrder, Visible
  <2>2. SafePositions'
    BY <1>0, <1>14, StatusSafe DEF HandleKeepalive, SafePositions, Safe,
       Covered, Visible
  <2>3. QueueGapless'
    BY <1>0, <1>14 DEF HandleKeepalive, QueueGapless, Ahead, Visible
  <2>4. BlockedGapless'
    BY <1>0, <1>14 DEF HandleKeepalive, BlockedGapless, NextFrame, Ahead,
       Visible
  <2>5. CursorGapless'
    BY <1>0, <1>14 DEF HandleKeepalive, CursorGapless, Ahead, Visible
  <2>6. HandlerKnown'
    BY <1>0, <1>14 DEF HandleKeepalive, HandlerKnown, Handling
  <2>7. BeforeSlot' /\ TasksOnlyInRun'
    BY <1>0, <1>14 DEF HandleKeepalive, BeforeSlot, TasksOnlyInRun
  <2> QED BY <2>1, <2>2, <2>3, <2>4, <2>5, <2>6, <2>7 DEF OrderInv
<1>15. CASE StatusTimer
  <2>1. DispatchedInOrder'
    BY <1>0, <1>15 DEF StatusTimer, DispatchedInOrder, Visible
  <2>2. SafePositions'
    BY <1>0, <1>15, StatusSafe DEF StatusTimer, SafePositions, Safe, Covered,
       Visible
  <2>3. QueueGapless'
    BY <1>0, <1>15 DEF StatusTimer, QueueGapless, Ahead, Visible
  <2>4. BlockedGapless'
    BY <1>0, <1>15 DEF StatusTimer, BlockedGapless, Ahead, Visible
  <2>5. CursorGapless'
    BY <1>0, <1>15 DEF StatusTimer, CursorGapless, Ahead, Visible
  <2>6. HandlerKnown'
    BY <1>0, <1>15 DEF StatusTimer, HandlerKnown, Handling
  <2>7. BeforeSlot' /\ TasksOnlyInRun'
    BY <1>0, <1>15 DEF StatusTimer, BeforeSlot, TasksOnlyInRun
  <2> QED BY <2>1, <2>2, <2>3, <2>4, <2>5, <2>6, <2>7 DEF OrderInv
<1>16. CASE Process
  <2>n. PICK n \in Nat : n = Len(queue)
    BY DEF TypeInv, TypeOK, QueueTypeOK
  <2>0. /\ queue \in Seq(Tx) /\ queue # <<>>
        /\ Len(queue) \in Nat \ {0} /\ Head(queue) = queue[1]
        /\ Len(queue') = Len(queue) - 1
        /\ \A i \in 1..Len(queue') : queue'[i] = queue[i + 1]
    BY <1>16 DEF Process, TypeInv, TypeOK, QueueTypeOK
  <2>a. ASSUME NEW u \in Tx, NEW k \in 1..(Len(queue) + 1), k > 1, Ahead(u, k)
        PROVE  Ahead(u, k - 1)'
    <3>1. CASE u \in delivered
      BY <1>16, <3>1 DEF Process, Ahead
    <3>2. ASSUME NEW j \in 1..(k - 1), queue[j] = u
          PROVE  Ahead(u, k - 1)'
      <4>1. CASE j = 1
        BY <1>16, <2>0, <3>2, <4>1 DEF Process, Ahead
      <4>2. CASE j > 1
        <5>1. j - 1 \in 1..(k - 1 - 1) /\ j - 1 \in 1..Len(queue')
          BY <2>0, <4>2
        <5>2. queue'[j - 1] = u
          BY <2>0, <3>2, <5>1
        <5> QED BY <5>1, <5>2 DEF Ahead
      <4> QED BY <4>1, <4>2
    <3> QED BY <2>a, <3>1, <3>2 DEF Ahead
  <2>1. DispatchedInOrder'
    <3>1. \A u \in Tx : Visible(u) /\ u < Head(queue) => u \in delivered
      BY <1>0, <2>0 DEF QueueGapless, Ahead
    <3> QED
      BY <1>0, <1>16, <3>1 DEF Process, DispatchedInOrder, Visible
  <2>2. SafePositions'
    BY <1>0, <1>16, SafeStep DEF Process
  <2>3. QueueGapless'
    <3> SUFFICES ASSUME NEW i \in 1..Len(queue'), NEW u \in Tx,
                        Visible(u)', u < queue'[i]
                 PROVE  Ahead(u, i)'
      BY DEF QueueGapless
    <3>1. i + 1 \in 1..Len(queue) /\ u < queue[i + 1] /\ Visible(u)
      BY <1>16, <2>0 DEF Process, Visible
    <3>2. Ahead(u, i + 1)
      BY <1>0, <3>1 DEF QueueGapless
    <3> QED
      BY <2>0, <2>a, <3>1, <3>2
  <2>4. BlockedGapless'
    <3> SUFFICES ASSUME recv' = "put", ~closing', NEW u \in Tx,
                        Visible(u)', u < blocked'
                 PROVE  Ahead(u, n)'
      BY <2>n, <2>0 DEF BlockedGapless
    <3>1. Ahead(u, n + 1)
      BY <1>0, <1>16, <2>n DEF Process, BlockedGapless, Visible
    <3> QED
      BY <2>n, <2>0, <2>a, <3>1
  <2>5. CursorGapless'
    <3> SUFFICES ASSUME phase' = "running", ~closing', NEW u \in Tx,
                        Visible(u)', u < cursor'
                 PROVE  Ahead(u, n)' \/ (recv' = "put" /\ u = blocked')
      BY <2>n, <2>0 DEF CursorGapless
    <3>1. Ahead(u, n + 1) \/ (recv = "put" /\ u = blocked)
      BY <1>0, <1>16, <2>n DEF Process, CursorGapless, Visible
    <3>2. CASE Ahead(u, n + 1)
      BY <2>n, <2>0, <2>a, <3>2
    <3> QED
      BY <1>16, <3>1, <3>2 DEF Process
  <2>6. HandlerKnown'
    BY <1>0, <1>16 DEF Process, HandlerKnown, Handling
  <2>7. BeforeSlot' /\ TasksOnlyInRun'
    BY <1>0, <1>16 DEF Process, BeforeSlot, TasksOnlyInRun
  <2> QED BY <2>1, <2>2, <2>3, <2>4, <2>5, <2>6, <2>7 DEF OrderInv
<1>17. CASE ConsumerStops
  <2>1. DispatchedInOrder'
    BY <1>0, <1>17 DEF ConsumerStops, DispatchedInOrder, Visible
  <2>2. SafePositions'
    BY <1>0, <1>17, SafeStep DEF ConsumerStops
  <2>3. QueueGapless'
    BY <1>0, <1>17 DEF ConsumerStops, QueueGapless, Ahead, Visible
  <2>4. BlockedGapless'
    BY <1>0, <1>17 DEF ConsumerStops, BlockedGapless, Ahead, Visible
  <2>5. CursorGapless'
    BY <1>0, <1>17 DEF ConsumerStops, CursorGapless, Ahead, Visible
  <2>6. HandlerKnown'
    BY <1>0, <1>17 DEF ConsumerStops, HandlerKnown, Handling
  <2>7. BeforeSlot' /\ TasksOnlyInRun'
    BY <1>0, <1>17 DEF ConsumerStops, BeforeSlot, TasksOnlyInRun
  <2> QED BY <2>1, <2>2, <2>3, <2>4, <2>5, <2>6, <2>7 DEF OrderInv
<1>18. CASE HandlerEffect
  <2>1. DispatchedInOrder'
    BY <1>0, <1>18 DEF HandlerEffect, DispatchedInOrder, Visible
  <2>2. SafePositions'
    BY <1>0, <1>18, SafeStep DEF HandlerEffect
  <2>3. QueueGapless'
    BY <1>0, <1>18 DEF HandlerEffect, QueueGapless, Ahead, Visible
  <2>4. BlockedGapless'
    BY <1>0, <1>18 DEF HandlerEffect, BlockedGapless, Ahead, Visible
  <2>5. CursorGapless'
    BY <1>0, <1>18 DEF HandlerEffect, CursorGapless, Ahead, Visible
  <2>6. HandlerKnown'
    BY <1>0, <1>18 DEF HandlerEffect, HandlerKnown, Handling
  <2>7. BeforeSlot' /\ TasksOnlyInRun'
    BY <1>0, <1>18 DEF HandlerEffect, BeforeSlot, TasksOnlyInRun
  <2> QED BY <2>1, <2>2, <2>3, <2>4, <2>5, <2>6, <2>7 DEF OrderInv
<1>19. CASE SaveCommitted
  <2>1. DispatchedInOrder'
    BY <1>0, <1>19 DEF SaveCommitted, DispatchedInOrder, Visible
  <2>2. SafePositions'
    <3>1. PICK lsn \in Requested : SaveAllowed(lsn) /\ checkpoint' = lsn
      BY <1>19 DEF SaveCommitted
    <3>2. lsn \in Nat
      BY <1>19, <3>1, CommitLsnType, OptionsAssumption
         DEF SaveCommitted, Requested, TypeInv, Holds, Handling
    <3>3. Safe(lsn + 1)
      BY <1>0, <1>19, <3>1, <3>2, SaveSafe DEF SaveCommitted, Handling
    <3> QED
      BY <1>0, <1>19, <3>1, <3>3 DEF SaveCommitted, SafePositions, Safe, Covered, Visible
  <2>3. QueueGapless'
    BY <1>0, <1>19 DEF SaveCommitted, QueueGapless, Ahead, Visible
  <2>4. BlockedGapless'
    BY <1>0, <1>19 DEF SaveCommitted, BlockedGapless, Ahead, Visible
  <2>5. CursorGapless'
    BY <1>0, <1>19 DEF SaveCommitted, CursorGapless, Ahead, Visible
  <2>6. HandlerKnown'
    BY <1>0, <1>19 DEF SaveCommitted, HandlerKnown, Handling, SaveAllowed
  <2>7. BeforeSlot' /\ TasksOnlyInRun'
    BY <1>0, <1>19 DEF SaveCommitted, BeforeSlot, TasksOnlyInRun
  <2> QED BY <2>1, <2>2, <2>3, <2>4, <2>5, <2>6, <2>7 DEF OrderInv
<1>20. CASE SaveRecorded
  <2>1. DispatchedInOrder'
    BY <1>0, <1>20 DEF SaveRecorded, DispatchedInOrder, Visible
  <2>2. SafePositions'
    <3>1. Safe(saving + 1)
      BY <1>0, <1>20, SaveSafe
         DEF SaveRecorded, Handling, HandlerKnown, SaveAllowed, TypeInv, TypeOK, TaskTypeOK
    <3>2. durable_lsn' \in {saving, durable_lsn}
      BY <1>20 DEF SaveRecorded, Recorded, MaxOf
    <3> QED
      BY <1>0, <1>20, <3>1, <3>2 DEF SaveRecorded, SafePositions, Safe, Covered, Visible
  <2>3. QueueGapless'
    BY <1>0, <1>20 DEF SaveRecorded, QueueGapless, Ahead, Visible
  <2>4. BlockedGapless'
    BY <1>0, <1>20 DEF SaveRecorded, BlockedGapless, Ahead, Visible
  <2>5. CursorGapless'
    BY <1>0, <1>20 DEF SaveRecorded, CursorGapless, Ahead, Visible
  <2>6. HandlerKnown'
    BY <1>0, <1>20 DEF SaveRecorded, HandlerKnown, Handling
  <2>7. BeforeSlot' /\ TasksOnlyInRun'
    BY <1>0, <1>20 DEF SaveRecorded, BeforeSlot, TasksOnlyInRun
  <2> QED BY <2>1, <2>2, <2>3, <2>4, <2>5, <2>6, <2>7 DEF OrderInv
<1>21. CASE SaveOnConnection
  <2>1. DispatchedInOrder'
    BY <1>0, <1>21 DEF SaveOnConnection, DispatchedInOrder, Visible
  <2>2. SafePositions'
    <3>1. PICK lsn \in Requested : SaveAllowed(lsn) /\ durable_lsn' = Recorded(lsn)
      BY <1>21 DEF SaveOnConnection
    <3>2. lsn \in Nat
      BY <1>21, <3>1, CommitLsnType, OptionsAssumption
         DEF SaveOnConnection, Requested, TypeInv, Holds, Handling
    <3>3. Safe(lsn + 1)
      BY <1>0, <1>21, <3>1, <3>2, SaveSafe DEF SaveOnConnection, Handling
    <3>4. durable_lsn' \in {lsn, durable_lsn}
      BY <3>1 DEF Recorded, MaxOf
    <3> QED
      BY <1>0, <1>21, <3>3, <3>4 DEF SaveOnConnection, SafePositions, Safe, Covered, Visible
  <2>3. QueueGapless'
    BY <1>0, <1>21 DEF SaveOnConnection, QueueGapless, Ahead, Visible
  <2>4. BlockedGapless'
    BY <1>0, <1>21 DEF SaveOnConnection, BlockedGapless, Ahead, Visible
  <2>5. CursorGapless'
    BY <1>0, <1>21 DEF SaveOnConnection, CursorGapless, Ahead, Visible
  <2>6. HandlerKnown'
    BY <1>0, <1>21 DEF SaveOnConnection, HandlerKnown, Handling, SaveAllowed
  <2>7. BeforeSlot' /\ TasksOnlyInRun'
    BY <1>0, <1>21 DEF SaveOnConnection, BeforeSlot, TasksOnlyInRun
  <2> QED BY <2>1, <2>2, <2>3, <2>4, <2>5, <2>6, <2>7 DEF OrderInv
<1>22. CASE CallerCommits
  <2>1. DispatchedInOrder'
    BY <1>0, <1>22 DEF CallerCommits, DispatchedInOrder, Visible
  <2>2. SafePositions'
    <3>1. Safe(saving + 1)
      BY <1>0, <1>22, SaveSafe
         DEF CallerCommits, Handling, HandlerKnown, SaveAllowed, TypeInv, TypeOK, TaskTypeOK
    <3> QED
      BY <1>0, <1>22, <3>1 DEF CallerCommits, SafePositions, Safe, Covered, Visible
  <2>3. QueueGapless'
    BY <1>0, <1>22 DEF CallerCommits, QueueGapless, Ahead, Visible
  <2>4. BlockedGapless'
    BY <1>0, <1>22 DEF CallerCommits, BlockedGapless, Ahead, Visible
  <2>5. CursorGapless'
    BY <1>0, <1>22 DEF CallerCommits, CursorGapless, Ahead, Visible
  <2>6. HandlerKnown'
    BY <1>0, <1>22 DEF CallerCommits, HandlerKnown, Handling
  <2>7. BeforeSlot' /\ TasksOnlyInRun'
    BY <1>0, <1>22 DEF CallerCommits, BeforeSlot, TasksOnlyInRun
  <2> QED BY <2>1, <2>2, <2>3, <2>4, <2>5, <2>6, <2>7 DEF OrderInv
<1>23. CASE HandlerReturns
  <2>1. DispatchedInOrder'
    BY <1>0, <1>23 DEF HandlerReturns, DispatchedInOrder, Visible
  <2>2. SafePositions'
    BY <1>0, <1>23, SafeStep DEF HandlerReturns
  <2>3. QueueGapless'
    BY <1>0, <1>23 DEF HandlerReturns, QueueGapless, Ahead, Visible
  <2>4. BlockedGapless'
    BY <1>0, <1>23 DEF HandlerReturns, BlockedGapless, Ahead, Visible
  <2>5. CursorGapless'
    BY <1>0, <1>23 DEF HandlerReturns, CursorGapless, Ahead, Visible
  <2>6. HandlerKnown'
    BY <1>0, <1>23 DEF HandlerReturns, HandlerKnown, Handling
  <2>7. BeforeSlot' /\ TasksOnlyInRun'
    BY <1>0, <1>23 DEF HandlerReturns, BeforeSlot, TasksOnlyInRun
  <2> QED BY <2>1, <2>2, <2>3, <2>4, <2>5, <2>6, <2>7 DEF OrderInv
<1>24. CASE Crash
  BY <1>0, <1>24, GoneOrder DEF Crash, RunRetries, RunFails
<1>25. CASE AttemptRefused
  <2>1. DispatchedInOrder'
    BY <1>0, <1>25 DEF AttemptRefused, DispatchedInOrder, Visible, RunRetries
  <2>2. SafePositions'
    BY <1>0, <1>25, SafeStep DEF AttemptRefused, RunRetries
  <2>3. QueueGapless'
    BY <1>0, <1>25 DEF AttemptRefused, QueueGapless, Ahead, Visible,
       RunRetries
  <2>4. BlockedGapless'
    BY <1>0, <1>25 DEF AttemptRefused, BlockedGapless, Ahead, Visible,
       RunRetries
  <2>5. CursorGapless'
    BY <1>0, <1>25 DEF AttemptRefused, CursorGapless, Ahead, Visible,
       RunRetries
  <2>6. HandlerKnown'
    BY <1>0, <1>25 DEF AttemptRefused, HandlerKnown, Handling, RunRetries
  <2>7. BeforeSlot' /\ TasksOnlyInRun'
    BY <1>0, <1>25 DEF AttemptRefused, BeforeSlot, TasksOnlyInRun, RunRetries
  <2> QED BY <2>1, <2>2, <2>3, <2>4, <2>5, <2>6, <2>7 DEF OrderInv
<1>26. CASE AttemptBreaks
  <2>1. DispatchedInOrder'
    BY <1>0, <1>26 DEF AttemptBreaks, DispatchedInOrder, Visible, RunFails
  <2>2. SafePositions'
    BY <1>0, <1>26, SafeStep DEF AttemptBreaks, RunFails
  <2>3. QueueGapless'
    BY <1>0, <1>26 DEF AttemptBreaks, QueueGapless, Ahead, Visible, RunFails
  <2>4. BlockedGapless'
    BY <1>0, <1>26 DEF AttemptBreaks, BlockedGapless, Ahead, Visible, RunFails
  <2>5. CursorGapless'
    BY <1>0, <1>26 DEF AttemptBreaks, CursorGapless, Ahead, Visible, RunFails
  <2>6. HandlerKnown'
    BY <1>0, <1>26 DEF AttemptBreaks, HandlerKnown, Handling, RunFails
  <2>7. BeforeSlot' /\ TasksOnlyInRun'
    BY <1>0, <1>26 DEF AttemptBreaks, BeforeSlot, TasksOnlyInRun, RunFails
  <2> QED BY <2>1, <2>2, <2>3, <2>4, <2>5, <2>6, <2>7 DEF OrderInv
<1>27. CASE ConnectionLost
  BY <1>0, <1>27, GoneOrder DEF ConnectionLost, RunRetries, RunFails
<1>28. CASE HandlerRaises
  BY <1>0, <1>28, GoneOrder DEF HandlerRaises, RunRetries, RunFails
<1>29. CASE ShutdownCut
  BY <1>0, <1>29, GoneOrder DEF ShutdownCut, RunRetries, RunFails
<1>30. CASE Close
  <2>1. DispatchedInOrder'
    BY <1>0, <1>30 DEF Close, DispatchedInOrder, Visible
  <2>2. SafePositions'
    BY <1>0, <1>30, SafeStep DEF Close
  <2>3. QueueGapless'
    BY <1>0, <1>30 DEF Close, QueueGapless
  <2>4. BlockedGapless'
    BY <1>0, <1>30 DEF Close, BlockedGapless
  <2>5. CursorGapless'
    BY <1>0, <1>30 DEF Close, CursorGapless
  <2>6. HandlerKnown'
    BY <1>0, <1>30 DEF Close, HandlerKnown, Handling
  <2>7. BeforeSlot' /\ TasksOnlyInRun'
    BY <1>0, <1>30 DEF Close, BeforeSlot, TasksOnlyInRun
  <2> QED BY <2>1, <2>2, <2>3, <2>4, <2>5, <2>6, <2>7 DEF OrderInv
<1> QED
  BY <1>1, <1>2, <1>3, <1>4, <1>5, <1>6, <1>7, <1>8, <1>9, <1>10, <1>11,
     <1>12, <1>13, <1>14, <1>15, <1>16, <1>17, <1>18, <1>19, <1>20, <1>21,
     <1>22, <1>23, <1>24, <1>25, <1>26, <1>27, <1>28, <1>29, <1>30
     DEF Next, RunOnce, Receiver, Consumer, Failing

\* TypeInv and OrderInv hold in every reachable state.
LEMMA OrderInvariant == Spec => [](TypeInv /\ OrderInv)
<1>1. Init => TypeInv /\ OrderInv
  BY InitType, InitOrder
<1>2. TypeInv /\ OrderInv /\ [Next]_vars => (TypeInv /\ OrderInv)'
  BY NextType, NextOrder
<1> QED
  BY <1>1, <1>2, PTL DEF Spec

(* Whatever crashes, drops, handler failures and shutdowns happen, and however
   the handler saves, transactions are first dispatched in commit order. *)
THEOREM InOrder == Spec => []DispatchedInOrder
<1>1. OrderInv => DispatchedInOrder
  BY DEF OrderInv
<1> QED
  BY <1>1, OrderInvariant, PTL

(* Under the same conditions neither the checkpoint nor the feedback sent to
   PostgreSQL covers a transaction that was never dispatched. *)
THEOREM NothingSkippedUnseen == Spec => []AcknowledgedWasDispatched
<1>1. TypeInv /\ OrderInv => AcknowledgedWasDispatched
  BY MaxOfFacts DEF TypeInv, TypeOK, PgTypeOK, AppTypeOK, NoCheckpoint, OrderInv,
         SafePositions, Safe, AcknowledgedWasDispatched, ResumeLsn
<1> QED
  BY <1>1, OrderInvariant, PTL
=============================================================================
