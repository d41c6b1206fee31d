----------------------------- MODULE Assembler -----------------------------
(***************************************************************************)
(* TransactionAssembler (walbox/transaction.py) behind the Decoder's       *)
(* streaming flag (walbox/pgoutput.py), fed by a walsender that decodes    *)
(* concurrent sessions with savepoints and streams large transactions in   *)
(* chunks before they commit.                                              *)
(*                                                                         *)
(* The sessions and the walsender are external.  The walsender puts the    *)
(* messages of one WAL event on the wire at a time: what the assembler     *)
(* does depends only on the order of the messages.  A row change is a      *)
(* number; Insert, Update and Delete carry one, Truncate one per table.    *)
(***************************************************************************)
EXTENDS Integers, Sequences, SequencesExt

CONSTANTS
    MaxXid,      \* top-level transactions 1..MaxXid
    MaxSubxact,  \* savepoints taken, over all transactions
    MaxChange,   \* row changes made, over all transactions
    MaxTables,   \* most tables one Truncate names
    MaxDrops     \* connections lost

ASSUME BoundsAssumption ==
    /\ MaxXid \in Nat /\ MaxSubxact \in Nat /\ MaxChange \in Nat
    /\ MaxTables \in Nat \ {0} /\ MaxDrops \in Nat

Xids == 1..MaxXid
Subxids == (MaxXid + 1)..(MaxXid + MaxSubxact)
None == 0

VARIABLES
    \* sessions and walsender
    open,      \* transactions in progress
    stack,     \* per transaction, its savepoints: [sub, kids, at] records
    rows,      \* per transaction, its surviving changes in WAL order
    sent,      \* per transaction in progress, how many of them were streamed
    streamed,  \* per transaction in progress, the (sub)xids with streamed changes
    next_sub, next_change,
    history,   \* what was committed, in commit order
    wire,      \* what the assembler has not been fed yet
    drops,     \* connections lost
    start,     \* the position this connection started after
    reached,   \* the last position an earlier connection got to
    \* Decoder and TransactionAssembler
    streaming_active, \* Decoder._streaming_active
    pending,          \* _pending
    current_xid,      \* _current_xid
    active_stream_xid,\* _active_stream_xid
    emitted,          \* the Transactions feed returned on this connection
    error             \* the exception feed or decode raised

serverVars == <<open, stack, rows, sent, streamed, next_sub, next_change,
                history>>
connVars == <<drops, start, reached>>
asmVars == <<streaming_active, pending, current_xid, active_stream_xid,
             emitted, error>>
vars == <<serverVars, wire, connVars, asmVars>>

-----------------------------------------------------------------------------
(* Messages *)

(* The rows of a transaction from one position on.  pgoutput writes the (sub)xid
   of a row only inside a stream bracket.  A Truncate takes one place of the wire
   per table: they have the same msg and are read together. *)
RowMsgs(seq, from, prefixed) ==
    [i \in 1..(Len(seq) - from) |->
        [kind |-> "Row", sub |-> seq[from + i].owner, id |-> seq[from + i].id,
         msg |-> seq[from + i].msg, prefixed |-> prefixed]]

\* A transaction sent when it commits, at commit position lsn.
Plain(x, seq, lsn) ==
    <<[kind |-> "Begin", xid |-> x, final_lsn |-> lsn]>> \o RowMsgs(seq, 0, FALSE)
        \o <<[kind |-> "Commit", lsn |-> lsn]>>

\* One chunk of a transaction in progress.
Chunk(x, seq, from, first) ==
    IF from = Len(seq) THEN <<>>
    ELSE <<[kind |-> "StreamStart", xid |-> x, first_segment |-> first]>>
             \o RowMsgs(seq, from, TRUE) \o <<[kind |-> "StreamStop"]>>

StreamCommitMsg(x, lsn) == [kind |-> "StreamCommit", xid |-> x, lsn |-> lsn]

Ascending(S) == {s \in SetToSeqs(S) : \A i, j \in DOMAIN s : i < j => s[i] < s[j]}

\* Each streamed (sub)transaction of subs, in the order of their xids, gets a
\* StreamAbort of its own.
Aborts(x, subs) ==
    {[i \in DOMAIN order |-> [kind |-> "StreamAbort", xid |-> x, sub |-> order[i]]] :
        order \in Ascending(subs \cap streamed[x])}

-----------------------------------------------------------------------------
(* Sessions and walsender (external) *)

Idle == wire = <<>> /\ error = "none"

Owner(x) == IF stack[x] = <<>> THEN x ELSE Last(stack[x]).sub

Ids(seq) == [i \in DOMAIN seq |-> seq[i].id]

Change(x, n) ==
    /\ Idle
    /\ x \in open
    /\ next_change + n <= MaxChange + 1
    /\ rows' = [rows EXCEPT ![x] = @ \o
                  [i \in 1..n |-> [owner |-> Owner(x), id |-> next_change + i - 1,
                                   msg |-> next_change]]]
    /\ next_change' = next_change + n
    /\ UNCHANGED <<open, stack, sent, streamed, next_sub, history, wire,
                   connVars, asmVars>>

Savepoint(x) ==
    /\ Idle
    /\ x \in open
    /\ next_sub \in Subxids
    /\ stack' = [stack EXCEPT ![x] =
                    Append(@, [sub |-> next_sub, kids |-> {}, at |-> Len(rows[x])])]
    /\ next_sub' = next_sub + 1
    /\ UNCHANGED <<open, rows, sent, streamed, next_change, history, wire,
                   connVars, asmVars>>

\* A released savepoint belongs to the one around it from then on.
Release(x) ==
    /\ Idle
    /\ x \in open
    /\ stack[x] # <<>>
    /\ LET top == Last(stack[x])
           outer == Front(stack[x])
       IN  stack' = [stack EXCEPT ![x] =
                        IF outer = <<>> THEN <<>>
                        ELSE Append(Front(outer),
                                    [Last(outer) EXCEPT !.kids =
                                        @ \cup top.kids \cup {top.sub}])]
    /\ UNCHANGED <<open, rows, sent, streamed, next_sub, next_change,
                   history, wire, connVars, asmVars>>

\* ROLLBACK TO: everything since the savepoint is undone, its own changes and
\* those of the savepoints released into it, whose aborts come first.
RollbackTo(x) ==
    /\ Idle
    /\ x \in open
    /\ stack[x] # <<>>
    /\ LET top == Last(stack[x])
       IN  /\ rows' = [rows EXCEPT ![x] = SubSeq(@, 1, top.at)]
           /\ sent' = [sent EXCEPT ![x] = IF @ < top.at THEN @ ELSE top.at]
           /\ \E kids \in Aborts(x, top.kids), own \in Aborts(x, {top.sub}) :
                 wire' = kids \o own
    /\ stack' = [stack EXCEPT ![x] = Front(@)]
    /\ UNCHANGED <<open, streamed, next_sub, next_change, history, connVars,
                   asmVars>>

\* The last position this connection got to, and the one it sends next.
Received == start + Len(emitted)
NextLsn == Received + 1

\* Transactions in progress where the walsender reads the WAL.
InProgress == open \cup {history[i].xid : i \in NextLsn..Len(history)}

\* Over its memory limit the walsender streams what it holds of x.
StreamChunk(x) ==
    /\ Idle
    /\ x \in InProgress
    /\ sent[x] < Len(rows[x])
    /\ wire' = Chunk(x, rows[x], sent[x], streamed[x] = {})
    /\ streamed' = [streamed EXCEPT ![x] =
                        @ \cup {x} \cup {rows[x][i].owner : i \in (sent[x] + 1)..Len(rows[x])}]
    /\ sent' = [sent EXCEPT ![x] = Len(rows[x])]
    /\ UNCHANGED <<open, stack, rows, next_sub, next_change, history, connVars,
                   asmVars>>

\* The walsender is done with x.
Forget(x) ==
    /\ sent' = [sent EXCEPT ![x] = 0]
    /\ streamed' = [streamed EXCEPT ![x] = {}]

\* What is left of x, and its commit.  Positions are counted in transactions.
SendCommit(x) ==
    /\ wire' = IF streamed[x] = {} THEN Plain(x, rows[x], NextLsn)
               ELSE Chunk(x, rows[x], sent[x], FALSE) \o <<StreamCommitMsg(x, NextLsn)>>
    /\ Forget(x)

\* A session commits and the walsender has caught up.
CommitX(x) ==
    /\ Idle
    /\ x \in open
    /\ rows[x] # <<>> \/ streamed[x] # {}
    /\ Received = Len(history)
    /\ SendCommit(x)
    /\ history' = Append(history, [xid |-> x, commit_lsn |-> NextLsn,
                                   changes |-> Ids(rows[x])])
    /\ open' = open \ {x}
    /\ UNCHANGED <<stack, rows, next_sub, next_change, connVars, asmVars>>

\* The walsender gets to a commit that an earlier connection had got to.
Resend(x) ==
    /\ Idle
    /\ NextLsn \in DOMAIN history
    /\ x = history[NextLsn].xid
    /\ SendCommit(x)
    /\ UNCHANGED <<open, stack, rows, next_sub, next_change, history, connVars,
                   asmVars>>

AbortX(x) ==
    /\ Idle
    /\ x \in open
    /\ \E subs \in Aborts(x, Subxids), own \in Aborts(x, {x}) : wire' = subs \o own
    /\ Forget(x)
    /\ open' = open \ {x}
    /\ UNCHANGED <<stack, rows, next_sub, next_change, history, connVars, asmVars>>

Larger(m, n) == IF m < n THEN n ELSE m

(* The connection is lost and a new walsender decodes from before every
   transaction after the checkpoint, which is any position reached so far: what
   was emitted but not saved is sent again.  The client keeps its decoder and its
   assembler. *)
Drop ==
    /\ error = "none"
    /\ drops < MaxDrops
    /\ drops' = drops + 1
    /\ reached' = Larger(reached, Received)
    /\ start' \in 0..reached'
    /\ emitted' = <<>>
    /\ wire' = <<>>
    /\ sent' = [x \in Xids |-> 0]
    /\ streamed' = [x \in Xids |-> {}]
    /\ UNCHANGED <<open, stack, rows, next_sub, next_change, history,
                   streaming_active, pending, current_xid, active_stream_xid, error>>

-----------------------------------------------------------------------------
(* Decoder.decode and TransactionAssembler.feed *)

\* A new _Pending; final_lsn is None for a streamed transaction.
Bucket(final_lsn) == [changes |-> <<>>, final_lsn |-> final_lsn, bounds |-> <<>>]

Raise(why) ==
    /\ error' = why
    /\ UNCHANGED <<pending, current_xid, active_stream_xid, emitted>>

Remove1(f, x) == [y \in DOMAIN f \ {x} |-> f[y]]

Put(f, x, v) == [y \in DOMAIN f \cup {x} |-> IF y = x THEN v ELSE f[y]]

\* _build_transaction, and the bucket is given up.
BuildTransaction(x, lsn) ==
    /\ emitted' = Append(emitted, [xid |-> x, commit_lsn |-> lsn,
                                   changes |-> pending[x].changes])
    /\ pending' = Remove1(pending, x)

Begin(m) ==
    IF current_xid # None \/ m.xid \in DOMAIN pending
    THEN Raise("ProtocolError")
    ELSE /\ current_xid' = m.xid
         /\ pending' = Put(pending, m.xid, Bucket(m.final_lsn))
         /\ UNCHANGED <<active_stream_xid, emitted, error>>

\* The bucket a bare row belongs to.
ActiveXid == IF active_stream_xid # None THEN active_stream_xid ELSE current_xid

\* Mutant: every row of a subtransaction moves the mark.
MarkLatest(bucket, sub) ==
    IF sub = None THEN bucket.bounds
    ELSE Put(bucket.bounds, sub, Len(bucket.changes))

\* The first row of a subtransaction marks where its changes begin.
Mark(bucket, sub) ==
    IF sub = None \/ sub \in DOMAIN bucket.bounds THEN bucket.bounds
    ELSE Put(bucket.bounds, sub, Len(bucket.changes))

\* The changes of one Insert, Update, Delete or Truncate.
AppendChange(m, ids) ==
    IF ActiveXid = None
    THEN Raise("ProtocolError")
    ELSE LET bucket == pending[ActiveXid]
             sub == IF streaming_active THEN m.sub ELSE None
         IN  /\ pending' = [pending EXCEPT ![ActiveXid] =
                    [bucket EXCEPT !.changes = @ \o ids,
                                   !.bounds = Mark(bucket, sub)]]
             /\ UNCHANGED <<current_xid, active_stream_xid, emitted, error>>

\* Mutant: the open transaction is not reset.
FinishKeepsXid(m) ==
    /\ BuildTransaction(current_xid, m.lsn)
    /\ UNCHANGED <<current_xid, active_stream_xid, error>>

Finish(m) ==
    IF current_xid = None \/ pending[current_xid].final_lsn # m.lsn
    THEN Raise("ProtocolError")
    ELSE /\ BuildTransaction(current_xid, m.lsn)
         /\ current_xid' = None
         /\ UNCHANGED <<active_stream_xid, error>>

\* Mutant: a first segment for a known transaction resumes its bucket.
StreamStartResumes(m) ==
    /\ pending' = IF m.xid \in DOMAIN pending THEN pending
                  ELSE Put(pending, m.xid, Bucket(None))
    /\ active_stream_xid' = m.xid
    /\ UNCHANGED <<current_xid, emitted, error>>

StreamStart(m) ==
    IF m.first_segment <=> m.xid \in DOMAIN pending
    THEN Raise("ProtocolError")
    ELSE /\ pending' = IF m.first_segment THEN Put(pending, m.xid, Bucket(None)) ELSE pending
         /\ active_stream_xid' = m.xid
         /\ UNCHANGED <<current_xid, emitted, error>>

\* Mutant: the end of a chunk is ignored.
StreamStopIgnored == UNCHANGED <<pending, current_xid, active_stream_xid, emitted, error>>

StreamStop ==
    /\ active_stream_xid' = None
    /\ UNCHANGED <<pending, current_xid, emitted, error>>

\* A finished transaction is no longer the one being streamed.
LeaveStream(x) ==
    active_stream_xid' = IF active_stream_xid = x THEN None ELSE active_stream_xid

StreamCommit(m) ==
    IF m.xid \notin DOMAIN pending
    THEN Raise("ProtocolError")
    ELSE /\ BuildTransaction(m.xid, m.lsn)
         /\ LeaveStream(m.xid)
         /\ UNCHANGED <<current_xid, error>>

\* Mutant: marks inside the cut are kept.
TruncatedStale(bucket, sub) ==
    [bucket EXCEPT !.changes = SubSeq(@, 1, bucket.bounds[sub]),
                   !.bounds = Remove1(@, sub)]

\* Cut the bucket back to where sub began; marks inside the cut go with it.
Truncated(bucket, sub) ==
    LET boundary == bucket.bounds[sub]
        kept == {s \in DOMAIN bucket.bounds \ {sub} : bucket.bounds[s] < boundary}
    IN  [bucket EXCEPT !.changes = SubSeq(@, 1, boundary),
                       !.bounds = [s \in kept |-> @[s]]]

StreamAbort(m) ==
    IF m.sub = m.xid
    THEN /\ pending' = Remove1(pending, m.xid)
         /\ LeaveStream(m.xid)
         /\ UNCHANGED <<current_xid, emitted, error>>
    ELSE /\ pending' =
              IF m.xid \in DOMAIN pending /\ m.sub \in DOMAIN pending[m.xid].bounds
              THEN [pending EXCEPT ![m.xid] = Truncated(@, m.sub)]
              ELSE pending
         /\ UNCHANGED <<current_xid, active_stream_xid, emitted, error>>

\* Decoder: a row is parsed with or without an xid according to the flag.
DecodeFlag(m) ==
    CASE m.kind = "StreamStart" -> TRUE
      [] m.kind = "StreamStop" -> FALSE
      [] OTHER -> streaming_active

Misparsed(m) == m.kind = "Row" /\ m.prefixed # streaming_active

\* The first n places of the wire are one message.
OneMessage(n) ==
    /\ n > 1 => \A i \in 1..n : wire[i].kind = "Row" /\ wire[i].msg = wire[1].msg
    /\ wire[1].kind = "Row" /\ n < Len(wire) /\ wire[n + 1].kind = "Row" =>
           wire[n + 1].msg # wire[1].msg

Dispatch(m, n) ==
    \/ m.kind = "Begin" /\ Begin(m)
    \/ m.kind = "Row" /\ AppendChange(m, Ids(SubSeq(wire, 1, n)))
    \/ m.kind = "Commit" /\ Finish(m)
    \/ m.kind = "StreamStart" /\ StreamStart(m)
    \/ m.kind = "StreamStop" /\ StreamStop
    \/ m.kind = "StreamCommit" /\ StreamCommit(m)
    \/ m.kind = "StreamAbort" /\ StreamAbort(m)

Feed ==
    /\ error = "none"
    /\ wire # <<>>
    /\ \E n \in 1..Len(wire) :
          /\ OneMessage(n)
          /\ streaming_active' = DecodeFlag(wire[1])
          /\ IF Misparsed(wire[1]) THEN Raise("DecodeError") ELSE Dispatch(wire[1], n)
          /\ wire' = SubSeq(wire, n + 1, Len(wire))
    /\ UNCHANGED <<serverVars, connVars>>

-----------------------------------------------------------------------------
Init ==
    /\ open = Xids
    /\ stack = [x \in Xids |-> <<>>]
    /\ rows = [x \in Xids |-> <<>>]
    /\ sent = [x \in Xids |-> 0]
    /\ streamed = [x \in Xids |-> {}]
    /\ next_sub = MaxXid + 1
    /\ next_change = 1
    /\ history = <<>>
    /\ wire = <<>>
    /\ drops = 0
    /\ start = 0
    /\ reached = 0
    /\ streaming_active = FALSE
    /\ pending = <<>>
    /\ current_xid = None
    /\ active_stream_xid = None
    /\ emitted = <<>>
    /\ error = "none"

Session(x) ==
    \/ \E n \in 1..MaxTables : Change(x, n)
    \/ Savepoint(x) \/ Release(x) \/ RollbackTo(x)
    \/ StreamChunk(x) \/ CommitX(x) \/ Resend(x) \/ AbortX(x)

Next == (\E x \in Xids : Session(x)) \/ Drop \/ Feed

Spec == Init /\ [][Next]_vars

-----------------------------------------------------------------------------
(* Properties *)

BucketOK(b) ==
    /\ b.changes \in Seq(1..MaxChange)
    /\ b.final_lsn \in 0..Len(history)
    /\ DOMAIN b.bounds \subseteq Xids \cup Subxids
    /\ \A s \in DOMAIN b.bounds : b.bounds[s] \in 0..(Len(b.changes) - 1)

(* Every variable of the assembler keeps its type, and a recorded boundary
   always points at a change that is still buffered. *)
TypeOK ==
    /\ streaming_active \in BOOLEAN
    /\ DOMAIN pending \subseteq Xids
    /\ \A x \in DOMAIN pending : BucketOK(pending[x])
    /\ current_xid \in {None} \cup DOMAIN pending
    /\ active_stream_xid \in {None} \cup DOMAIN pending
    /\ error \in {"none", "ProtocolError", "DecodeError"}

(* What feed returns on a connection is what was committed after the position
   it started from: those transactions in commit order, none left out, each with
   exactly the changes that survived its savepoint rollbacks, in order, however
   the walsender cut it into chunks and whatever the assembler kept of a lost
   connection, which may have emitted some of them before. *)
EmitsCommitted == IsPrefix(emitted, SubSeq(history, start + 1, Len(history)))

(* On an intact connection the assembler never mistakes the stream of a
   correct server for a desync. *)
NoDesync == drops = 0 => error = "none"

(* On an intact connection, once everything sent was fed, the assembler buffers
   exactly the streamed transactions still in progress: nothing leaks after a
   commit or an abort, and nothing committed is still held back. *)
NothingLeaks ==
    drops = 0 /\ wire = <<>> /\ error = "none" =>
        /\ DOMAIN pending = {x \in open : streamed[x] # {}}
        /\ current_xid = None /\ active_stream_xid = None
        /\ ~streaming_active
        /\ Len(emitted) = Len(history)

(* A buffered transaction in progress holds exactly its streamed changes that
   have not been rolled back, as long as the connection is intact. *)
BufferFollowsRollbacks ==
    drops = 0 /\ wire = <<>> =>
        \A x \in DOMAIN pending \cap open :
            pending[x].changes = Ids(SubSeq(rows[x], 1, sent[x]))
=============================================================================
