------------------------ MODULE CheckpointStoreProofs ------------------------
(***************************************************************************)
(* The safety of PostgresCheckpointStore, for any number of consumers that *)
(* share the table: a sink's effects and its row commit together, a        *)
(* process resumes exactly at its row, and a statement misses the table    *)
(* only when the store's own CREATE TABLE was undone.                      *)
(***************************************************************************)
EXTENDS CheckpointStore, TLAPS

StoreType ==
    /\ table \in BOOLEAN
    /\ creator \in Consumers \cup {Nobody}
    /\ row \in [Consumers -> Nat] /\ applied \in [Consumers -> Nat]
    /\ wrote \in [Consumers -> Nat] /\ effect \in [Consumers -> BOOLEAN]
    /\ op \in [Consumers -> {"down", "idle", "load", "save"}]
    /\ at \in [Consumers -> Steps]
    /\ pos \in [Consumers -> Nat]
    /\ ready \in [Consumers -> BOOLEAN] /\ undone \in [Consumers -> BOOLEAN]

\* A process that is not starting knows its row, also in the middle of save.
KnowsRow(c) == op[c] \in {"idle", "save"} => pos[c] = row[c]

\* What the open transaction holds: the effect of a sink from the call of save
\* on, the upsert from Upsert on, nothing between calls and in load.
Holds(c) ==
    /\ effect[c] = (c \in Sinks /\ op[c] = "save")
    /\ wrote[c] = IF op[c] = "save" /\ at[c] = "upserted" THEN pos[c] + 1 ELSE 0

Together(c) == c \in Sinks => applied[c] = row[c]

\* Only a call that is past _ensure_schema has created the table and not
\* committed it.
CreatorInCall(c) ==
    creator = c => InCall(c) /\ at[c] \in {"ensured", "upserted"} /\ ready[c]

\* The flag of a store is right, unless its CREATE TABLE was rolled back.
FlagTrue(c) == op[c] # "down" /\ ready[c] => TableVisible(c) \/ undone[c]

\* Past _ensure_schema the flag is set.
FlagSet(c) ==
    InCall(c) /\ at[c] \in {"ensured", "committed", "upserted"} => ready[c]

ConsumerInv(c) ==
    /\ KnowsRow(c) /\ Holds(c) /\ Together(c)
    /\ CreatorInCall(c) /\ FlagTrue(c) /\ FlagSet(c)

StoreInv == StoreType /\ \A c \in Consumers : ConsumerInv(c)

-----------------------------------------------------------------------------
\* What a transaction of c leaves to the others is what it was.
OthersKept(c) ==
    \A d \in Consumers \ {c} :
        /\ row'[d] = row[d] /\ applied'[d] = applied[d]
        /\ wrote'[d] = wrote[d] /\ effect'[d] = effect[d]
        /\ undone'[d] = undone[d]
        /\ creator' = d <=> creator = d
        /\ table => table'

\* The variables of PostgreSQL and of the open transactions keep their types.
PgType ==
    /\ table \in BOOLEAN /\ creator \in Consumers \cup {Nobody}
    /\ row \in [Consumers -> Nat] /\ applied \in [Consumers -> Nat]
    /\ wrote \in [Consumers -> Nat] /\ effect \in [Consumers -> BOOLEAN]
    /\ undone \in [Consumers -> BOOLEAN]

\* COMMIT makes the row, the effect and the table of c visible at once.
LEMMA CommitFacts ==
    ASSUME StoreType, NEW c \in Consumers, Commit(c)
    PROVE  /\ PgType' /\ OthersKept(c)
           /\ row'[c] = IF wrote[c] > 0 THEN wrote[c] ELSE row[c]
           /\ applied'[c] = IF effect[c] THEN applied[c] + 1 ELSE applied[c]
           /\ wrote'[c] = 0 /\ effect'[c] = FALSE /\ undone'[c] = undone[c]
           /\ creator' # c
           /\ table' = (table \/ creator = c)
<1>1. PgType'
  <2>1. row' \in [Consumers -> Nat] /\ applied' \in [Consumers -> Nat]
    BY DEF StoreType, Commit
  <2>2. table' \in BOOLEAN /\ creator' \in Consumers \cup {Nobody}
    BY DEF StoreType, Commit, TableVisible
  <2>3. /\ wrote' \in [Consumers -> Nat] /\ effect' \in [Consumers -> BOOLEAN]
        /\ undone' \in [Consumers -> BOOLEAN]
    BY DEF StoreType, Commit
  <2>. QED  BY <2>1, <2>2, <2>3 DEF PgType
<1>2. ASSUME NEW d \in Consumers \ {c}
      PROVE  /\ row'[d] = row[d] /\ applied'[d] = applied[d]
             /\ wrote'[d] = wrote[d] /\ effect'[d] = effect[d]
             /\ undone'[d] = undone[d]
             /\ creator' = d <=> creator = d
             /\ table => table'
  <2>1. /\ row'[d] = row[d] /\ applied'[d] = applied[d]
        /\ wrote'[d] = wrote[d] /\ effect'[d] = effect[d]
        /\ undone'[d] = undone[d]
    BY DEF StoreType, Commit
  <2>2. creator' = d <=> creator = d
    BY StoreAssumption DEF StoreType, Commit
  <2>3. table => table'
    BY DEF Commit, TableVisible
  <2>. QED  BY <2>1, <2>2, <2>3
<1>3. /\ row'[c] = IF wrote[c] > 0 THEN wrote[c] ELSE row[c]
      /\ applied'[c] = IF effect[c] THEN applied[c] + 1 ELSE applied[c]
      /\ wrote'[c] = 0 /\ effect'[c] = FALSE /\ undone'[c] = undone[c]
  BY DEF StoreType, Commit
<1>4. creator' # c /\ table' = (table \/ creator = c)
  BY StoreAssumption DEF StoreType, Commit, TableVisible
<1>. QED  BY <1>1, <1>2, <1>3, <1>4 DEF OthersKept

\* ROLLBACK leaves the committed state as it was.
LEMMA RollbackFacts ==
    ASSUME StoreType, NEW c \in Consumers, Rollback(c)
    PROVE  /\ PgType' /\ OthersKept(c)
           /\ row'[c] = row[c] /\ applied'[c] = applied[c]
           /\ wrote'[c] = 0 /\ effect'[c] = FALSE
           /\ creator' # c
           /\ table' = table /\ undone'[c] = (undone[c] \/ creator = c)
  BY StoreAssumption DEF StoreType, Rollback, PgType, OthersKept, TableVisible

\* The initial state satisfies the invariant: every process is down.
LEMMA InitStore == Init => StoreInv
<1>. SUFFICES ASSUME Init PROVE StoreInv
  OBVIOUS
<1>1. StoreType
  BY DEF Init, StoreType, Steps
<1>2. ASSUME NEW c \in Consumers PROVE ConsumerInv(c)
  <2>1. op[c] = "down" /\ row[c] = applied[c] /\ wrote[c] = 0 /\ effect[c] = FALSE
    BY DEF Init
  <2>2. creator # c
    BY StoreAssumption DEF Init
  <2>. QED
    BY <2>1, <2>2
    DEF ConsumerInv, KnowsRow, Holds, Together, CreatorInCall, FlagTrue, FlagSet,
        InCall
<1>. QED  BY <1>1, <1>2 DEF StoreInv

\* The steps of a process between two calls.
LEMMA ProcessSteps ==
    ASSUME StoreInv, NEW c \in Consumers,
           Start(c) \/ CallSave(c) \/ LoadReturns(c) \/ Upsert(c)
                    \/ EnsureBlocks(c)
    PROVE  StoreInv'
<1>. USE DEF pgVars, txVars, procVars, faultVars
<1>1. CASE Start(c)
  <2>1. StoreType'
    BY <1>1, StoreAssumption DEF StoreInv, StoreType, Steps, Start
  <2>2. ASSUME NEW d \in Consumers PROVE ConsumerInv(d)'
    BY <1>1, StoreAssumption
    DEF StoreInv, StoreType, Steps, ConsumerInv, KnowsRow, Holds, Together,
        CreatorInCall, FlagTrue, FlagSet, InCall, TableVisible, Start
  <2>. QED  BY <2>1, <2>2 DEF StoreInv
<1>2. CASE CallSave(c)
  <2>1. StoreType'
    BY <1>2, StoreAssumption DEF StoreInv, StoreType, Steps, CallSave
  <2>2. ASSUME NEW d \in Consumers PROVE ConsumerInv(d)'
    BY <1>2, StoreAssumption
    DEF StoreInv, StoreType, Steps, ConsumerInv, KnowsRow, Holds, Together,
        CreatorInCall, FlagTrue, FlagSet, InCall, TableVisible, CallSave
  <2>. QED  BY <2>1, <2>2 DEF StoreInv
<1>3. CASE LoadReturns(c)
  <2>1. StoreType'
    BY <1>3, StoreAssumption DEF StoreInv, StoreType, Steps, LoadReturns
  <2>2. ASSUME NEW d \in Consumers PROVE ConsumerInv(d)'
    BY <1>3, StoreAssumption
    DEF StoreInv, StoreType, Steps, ConsumerInv, KnowsRow, Holds, Together,
        CreatorInCall, FlagTrue, FlagSet, InCall, TableVisible, LoadReturns
  <2>. QED  BY <2>1, <2>2 DEF StoreInv
<1>4. CASE Upsert(c)
  <2>1. StoreType'
    BY <1>4, StoreAssumption DEF StoreInv, StoreType, Steps, Upsert, Upserted
  <2>2. ASSUME NEW d \in Consumers PROVE ConsumerInv(d)'
    BY <1>4, StoreAssumption
    DEF StoreInv, StoreType, Steps, ConsumerInv, KnowsRow, Holds, Together,
        CreatorInCall, FlagTrue, FlagSet, InCall, TableVisible, Upsert, Upserted
  <2>. QED  BY <2>1, <2>2 DEF StoreInv
<1>5. CASE EnsureBlocks(c)
  <2>1. StoreType'
    BY <1>5, StoreAssumption DEF StoreInv, StoreType, Steps, EnsureBlocks, Blocked
  <2>2. ASSUME NEW d \in Consumers PROVE ConsumerInv(d)'
    BY <1>5, StoreAssumption
    DEF StoreInv, StoreType, Steps, ConsumerInv, KnowsRow, Holds, Together,
        CreatorInCall, FlagTrue, FlagSet, InCall, TableVisible, EnsureBlocks, Blocked
  <2>. QED  BY <2>1, <2>2 DEF StoreInv
<1>. QED  BY <1>1, <1>2, <1>3, <1>4, <1>5

\* _ensure_schema: the table is there, or created by the transaction of c.
LEMMA EnsureSteps ==
    ASSUME StoreInv, NEW c \in Consumers, EnsureSchema(c) \/ EnsureUnblocks(c)
    PROVE  StoreInv'
<1>. USE DEF pgVars, txVars, procVars, faultVars
<1>1. CASE EnsureSchema(c)
  <2>1. StoreType'
    BY <1>1, StoreAssumption DEF StoreInv, StoreType, Steps, EnsureSchema, Ensured
  <2>2. ASSUME NEW d \in Consumers PROVE ConsumerInv(d)'
    BY <1>1, StoreAssumption
    DEF StoreInv, StoreType, Steps, ConsumerInv, KnowsRow, Holds, Together,
        CreatorInCall, FlagTrue, FlagSet, InCall, TableVisible, EnsureSchema, Ensured
  <2>. QED  BY <2>1, <2>2 DEF StoreInv
<1>2. CASE EnsureUnblocks(c)
  <2>1. StoreType'
    BY <1>2, StoreAssumption DEF StoreInv, StoreType, Steps, EnsureUnblocks, Ensured
  <2>2. ASSUME NEW d \in Consumers PROVE ConsumerInv(d)'
    BY <1>2, StoreAssumption
    DEF StoreInv, StoreType, Steps, ConsumerInv, KnowsRow, Holds, Together,
        CreatorInCall, FlagTrue, FlagSet, InCall, TableVisible, EnsureUnblocks, Ensured
  <2>. QED  BY <2>1, <2>2 DEF StoreInv
<1>. QED  BY <1>1, <1>2

\* The transaction of c has ended and left nothing open.
Ended(c) ==
    /\ PgType' /\ OthersKept(c)
    /\ wrote'[c] = 0 /\ effect'[c] = FALSE /\ creator' # c
    /\ table \/ creator = c \/ undone[c] => table' \/ undone'[c]
    /\ Together(c)'

\* Where a call commits.
CommitPoint(c) ==
    \/ op[c] = "save" /\ at[c] = "upserted"
    \/ op[c] = "load" /\ at[c] = "ensured"

\* A transaction ends at a point where the effect and the upsert are both in it
\* or neither is, so both are committed or neither is.
LEMMA TransactionEnds ==
    ASSUME StoreInv, NEW c \in Consumers,
           \/ Rollback(c)
           \/ Commit(c) /\ CommitPoint(c)
    PROVE  /\ Ended(c)
           /\ Commit(c) /\ op[c] = "save" /\ at[c] = "upserted"
                 => row'[c] = pos[c] + 1
<1>. StoreType /\ ConsumerInv(c)
  BY DEF StoreInv
<1>. row[c] \in Nat /\ applied[c] \in Nat /\ pos[c] \in Nat
  BY DEF StoreType
<1>1. CASE Rollback(c)
  <2>1. Ended(c)
    BY <1>1, RollbackFacts DEF Ended, Together, ConsumerInv
  <2>2. row'[c] = row[c] /\ (Commit(c) => row'[c] = IF wrote[c] > 0 THEN wrote[c] ELSE row[c])
    BY <1>1, RollbackFacts, CommitFacts
  <2>. QED  BY <2>1, <2>2 DEF ConsumerInv, Holds
<1>0. ASSUME Commit(c)
      PROVE  /\ row'[c] = IF wrote[c] > 0 THEN wrote[c] ELSE row[c]
             /\ applied'[c] = IF effect[c] THEN applied[c] + 1 ELSE applied[c]
             /\ (c \in Sinks => applied'[c] = row'[c]) => Ended(c)
  BY <1>0, CommitFacts, Zenon DEF Ended, Together
<1>2. CASE Commit(c) /\ op[c] = "save" /\ at[c] = "upserted"
  <2>1. wrote[c] = pos[c] + 1 /\ pos[c] = row[c] /\ effect[c] = (c \in Sinks)
    BY <1>2 DEF ConsumerInv, Holds, KnowsRow
  <2>2. row'[c] = pos[c] + 1
    BY <1>2, <2>1, <1>0
  <2>3. c \in Sinks => applied'[c] = row'[c]
    BY <1>2, <2>1, <2>2, <1>0 DEF ConsumerInv, Together
  <2>. QED  BY <1>2, <2>2, <2>3, <1>0
<1>3. CASE Commit(c) /\ op[c] = "load" /\ at[c] = "ensured"
  <2>1. wrote[c] = 0 /\ effect[c] = FALSE
    BY <1>3 DEF ConsumerInv, Holds
  <2>2. c \in Sinks => applied'[c] = row'[c]
    BY <1>3, <2>1, <1>0 DEF ConsumerInv, Together
  <2>3. Ended(c)
    BY <1>0, <1>3, <2>2, Zenon
  <2>4. op[c] # "save"
    BY <1>3
  <2>. QED  BY <2>3, <2>4, Zenon
<1>. QED  BY <1>1, <1>2, <1>3 DEF CommitPoint

\* The end of c's transaction and a change of c's own process leave the
\* invariant of another consumer as it was.
LEMMA OthersUndisturbed ==
    ASSUME StoreInv, NEW c \in Consumers, Ended(c),
           NEW d \in Consumers, d # c,
           op'[d] = op[d], at'[d] = at[d], pos'[d] = pos[d], ready'[d] = ready[d]
    PROVE  ConsumerInv(d)'
  BY DEF StoreInv, ConsumerInv, KnowsRow, Holds, Together, CreatorInCall, FlagTrue,
         FlagSet, InCall, TableVisible, Ended, OthersKept

\* Commits make the effect, the row and the table visible at once.
LEMMA CommitSteps ==
    ASSUME StoreInv, NEW c \in Consumers, LoadCommits(c) \/ SaveCommits(c)
    PROVE  StoreInv'
<1>. USE DEF pgVars, txVars, procVars, faultVars
<1>. StoreType /\ ConsumerInv(c)
  BY DEF StoreInv
<1>0. Ended(c) /\ (SaveCommits(c) => row'[c] = pos[c] + 1)
  <2>1. CASE LoadCommits(c)
    <3>1. Commit(c) /\ op[c] = "load" /\ at[c] = "ensured" /\ ~SaveCommits(c)
      BY <2>1 DEF LoadCommits, SaveCommits
    <3>. QED  BY <3>1, TransactionEnds, Zenon DEF CommitPoint
  <2>2. CASE SaveCommits(c)
    <3>1. Commit(c) /\ op[c] = "save" /\ at[c] = "upserted"
      BY <2>2 DEF SaveCommits
    <3>. QED  BY <3>1, TransactionEnds, Zenon DEF CommitPoint
  <2>. QED  BY <2>1, <2>2
<1>1. CASE LoadCommits(c)
  <2>1. /\ StoreType'
        /\ \A d \in Consumers \ {c} : /\ op'[d] = op[d] /\ at'[d] = at[d]
                                       /\ pos'[d] = pos[d] /\ ready'[d] = ready[d]
    BY <1>1, <1>0 DEF StoreType, PgType, Ended, Steps, LoadCommits
  <2>2. ConsumerInv(c)'
    BY <1>1, <1>0
    DEF StoreType, PgType, Ended, ConsumerInv, KnowsRow, Holds, CreatorInCall,
        FlagTrue, FlagSet, InCall, TableVisible, LoadCommits
  <2>. QED  BY <1>0, <2>1, <2>2, OthersUndisturbed DEF StoreInv
<1>2. CASE SaveCommits(c)
  <2>1. /\ StoreType'
        /\ \A d \in Consumers \ {c} : /\ op'[d] = op[d] /\ at'[d] = at[d]
                                       /\ pos'[d] = pos[d] /\ ready'[d] = ready[d]
    BY <1>2, <1>0 DEF StoreType, PgType, Ended, Steps, SaveCommits
  <2>2. ConsumerInv(c)'
    BY <1>2, <1>0
    DEF StoreType, PgType, Ended, ConsumerInv, KnowsRow, Holds, CreatorInCall,
        FlagTrue, FlagSet, InCall, TableVisible, SaveCommits
  <2>. QED  BY <1>0, <2>1, <2>2, OthersUndisturbed DEF StoreInv
<1>. QED  BY <1>1, <1>2

\* A failure undoes all of the transaction, or the commit in doubt succeeded.
LEMMA FailureSteps ==
    ASSUME StoreInv, NEW c \in Consumers,
           StatementFails(c) \/ Fails(c) \/ Cancelled(c)
    PROVE  StoreInv'
<1>. USE DEF pgVars, txVars, procVars, faultVars
<1>. StoreType /\ ConsumerInv(c)
  BY DEF StoreInv
<1>0. Ended(c)
  <2>1. CASE StatementFails(c)
    BY <2>1, TransactionEnds DEF StatementFails
  <2>2. CASE Fails(c) \/ Cancelled(c)
    <3>1. \/ Rollback(c)
          \/ Commit(c) /\ CommitPoint(c)
      <4>1. InDoubt(c)
        BY <2>2, Zenon DEF Fails, Cancelled
      <4>. QED  BY <4>1, Zenon DEF InDoubt, CommitPoint
    <3>. QED  BY <3>1, TransactionEnds, Zenon
  <2>. QED  BY <2>1, <2>2
<1>1. CASE StatementFails(c)
  <2>1. /\ StoreType'
        /\ \A d \in Consumers \ {c} : /\ op'[d] = op[d] /\ at'[d] = at[d]
                                       /\ pos'[d] = pos[d] /\ ready'[d] = ready[d]
    BY <1>1, <1>0 DEF StoreType, PgType, Ended, Steps, StatementFails, Down
  <2>2. ConsumerInv(c)'
    BY <1>1, <1>0
    DEF StoreType, PgType, Ended, ConsumerInv, KnowsRow, Holds, CreatorInCall,
        FlagTrue, FlagSet, InCall, TableVisible, StatementFails, Down
  <2>. QED  BY <1>0, <2>1, <2>2, OthersUndisturbed DEF StoreInv
<1>2. CASE Fails(c)
  <2>1. /\ StoreType'
        /\ \A d \in Consumers \ {c} : /\ op'[d] = op[d] /\ at'[d] = at[d]
                                       /\ pos'[d] = pos[d] /\ ready'[d] = ready[d]
    BY <1>2, <1>0 DEF StoreType, PgType, Ended, Steps, Fails, Down
  <2>2. ConsumerInv(c)'
    BY <1>2, <1>0
    DEF StoreType, PgType, Ended, ConsumerInv, KnowsRow, Holds, CreatorInCall,
        FlagTrue, FlagSet, InCall, TableVisible, Fails, Down
  <2>. QED  BY <1>0, <2>1, <2>2, OthersUndisturbed DEF StoreInv
<1>3. CASE Cancelled(c)
  <2>1. /\ StoreType'
        /\ \A d \in Consumers \ {c} : /\ op'[d] = op[d] /\ at'[d] = at[d]
                                       /\ pos'[d] = pos[d] /\ ready'[d] = ready[d]
    BY <1>3, <1>0 DEF StoreType, PgType, Ended, Steps, Cancelled
  <2>2. ConsumerInv(c)'
    BY <1>3, <1>0
    DEF StoreType, PgType, Ended, ConsumerInv, KnowsRow, Holds, CreatorInCall,
        FlagTrue, FlagSet, InCall, TableVisible, Cancelled
  <2>. QED  BY <1>0, <2>1, <2>2, OthersUndisturbed DEF StoreInv
<1>. QED  BY <1>1, <1>2, <1>3

\* Every step keeps the invariant.
LEMMA NextStore == StoreInv /\ [Next]_vars => StoreInv'
<1>. SUFFICES ASSUME StoreInv, [Next]_vars PROVE StoreInv'
  OBVIOUS
<1>1. CASE Next
  <2>1. PICK c \in Consumers : Step(c) \/ Fails(c) \/ Cancelled(c)
    BY <1>1 DEF Next
  <2>2. CASE Step(c)
    BY <2>2, ProcessSteps, EnsureSteps, CommitSteps, FailureSteps DEF Step
  <2>. QED  BY <2>1, <2>2, FailureSteps
<1>2. CASE UNCHANGED vars
  BY <1>2
  DEF vars, pgVars, txVars, procVars, StoreInv, StoreType, ConsumerInv, KnowsRow,
      Holds, Together, CreatorInCall, FlagTrue, FlagSet, InCall, TableVisible
<1>. QED  BY <1>1, <1>2

\* The invariant holds in every reachable state.
LEMMA StoreInvariant == Spec => []StoreInv
  BY InitStore, NextStore, PTL DEF Spec

(* A sink's committed effects and its checkpoint row never come apart: save on
   the caller's connection is atomic with the effect even when _ensure_schema
   creates the table inside that transaction, when the answer to COMMIT is lost
   and when the call is cancelled. *)
THEOREM EffectsAndRowTogether == Spec => []AppliedMatchesRow
<1>1. StoreInv => AppliedMatchesRow
  BY StoreAssumption DEF StoreInv, ConsumerInv, Together, AppliedMatchesRow
<1>. QED  BY <1>1, StoreInvariant, PTL

(* Between two calls a process believes exactly what its row says, for any number
   of consumers in the table. *)
THEOREM ResumesAtRow == Spec => []PositionIsRow
<1>1. StoreInv => PositionIsRow
  BY DEF StoreInv, ConsumerInv, KnowsRow, PositionIsRow
<1>. QED  BY <1>1, StoreInvariant, PTL

(* _schema_ready lies in one case only: the transaction in which this store ran
   CREATE TABLE did not commit. *)
THEOREM FlagLiesOnlyWhenUndone == Spec => []TableThereUnlessUndone
<1>1. StoreInv => TableThereUnlessUndone
  BY DEF StoreInv, ConsumerInv, FlagTrue, FlagSet, InCall, TableThereUnlessUndone
<1>. QED  BY <1>1, StoreInvariant, PTL
=============================================================================
