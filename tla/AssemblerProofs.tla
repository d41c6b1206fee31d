--------------------------- MODULE AssemblerProofs ---------------------------
(***************************************************************************)
(* Proofs about Assembler.  The messages of one WAL event are on the wire  *)
(* at a time, so the state of the stream is one of a few phases: which     *)
(* transaction the wire is about and how much of it has been fed.  The     *)
(* inductive invariant says what the assembler holds in each.              *)
(***************************************************************************)
EXTENDS Assembler, FiniteSetTheorems, SequenceTheorems, TLAPS

Owners == Xids \cup Subxids
RowSet == [owner : Owners, id : 1..MaxChange, msg : Nat]
FrameSet == [sub : Subxids, kids : SUBSET Subxids, at : Nat]
CommitSet == [xid : Xids, commit_lsn : Nat, changes : Seq(1..MaxChange)]

ServerType ==
    /\ open \subseteq Xids
    /\ stack \in [Xids -> Seq(FrameSet)]
    /\ rows \in [Xids -> Seq(RowSet)]
    /\ sent \in [Xids -> Nat]
    /\ streamed \in [Xids -> SUBSET Owners]
    /\ next_sub \in Nat /\ next_sub > MaxXid
    /\ next_change \in Nat \ {0}
    /\ history \in Seq(CommitSet)
    /\ drops \in Nat /\ start \in Nat /\ reached \in Nat
    /\ start <= Len(history) /\ reached <= Len(history)
    /\ drops = 0 => start = 0

RowMsgSet ==
    [kind : {"Row"}, sub : Owners, id : 1..MaxChange, msg : Nat, prefixed : BOOLEAN]

Messages ==
    RowMsgSet
    \cup [kind : {"Begin"}, xid : Xids, final_lsn : Nat]
    \cup [kind : {"Commit"}, lsn : Nat]
    \cup [kind : {"StreamStart"}, xid : Xids, first_segment : BOOLEAN]
    \cup [kind : {"StreamStop"}]
    \cup [kind : {"StreamCommit"}, xid : Xids, lsn : Nat]
    \cup [kind : {"StreamAbort"}, xid : Xids, sub : Owners]

IsBucket(b) ==
    b = [changes |-> b.changes, final_lsn |-> b.final_lsn, bounds |-> b.bounds]

AssemblerType ==
    /\ TypeOK
    /\ \A x \in DOMAIN pending : IsBucket(pending[x])
    /\ emitted \in Seq(CommitSet)

-----------------------------------------------------------------------------
(* Savepoints *)

\* s is the savepoint of frame j, or was taken inside it.
Inside(st, j, s) == \E l \in j..Len(st) : s = st[l].sub \/ s \in st[l].kids

\* The rows of one message are of one subtransaction, and both are older than
\* the next ones.
RowsInOrder(x) ==
    /\ sent[x] <= Len(rows[x])
    /\ \A i \in 1..Len(rows[x]) :
          rows[x][i].owner < next_sub /\ rows[x][i].msg < next_change
    /\ \A i, j \in 1..Len(rows[x]) :
          rows[x][i].msg = rows[x][j].msg => rows[x][i].owner = rows[x][j].owner

\* The rows written since a savepoint are exactly those of the subtransactions
\* that a rollback to it undoes.
FramesCut(st, seq) ==
    \A j \in 1..Len(st) :
        /\ st[j].at <= Len(seq)
        /\ \A l \in j..Len(st) : st[j].at <= st[l].at
        /\ \A i \in 1..Len(seq) : i > st[j].at <=> Inside(st, j, seq[i].owner)

\* What was streamed of a transaction in progress, its walsender remembers.
StreamedSent(x) ==
    /\ streamed[x] # {} => x \in streamed[x]
    /\ \A i \in 1..sent[x] : rows[x][i].owner \in streamed[x]

\* A new savepoint gets a number of its own.
FramesOld(x) == \A j \in 1..Len(stack[x]) : stack[x][j].sub < next_sub

Savepoints ==
    \A x \in Xids :
        /\ RowsInOrder(x) /\ FramesOld(x) /\ StreamedSent(x)
        /\ x \in open => FramesCut(stack[x], rows[x])
        /\ drops = 0 /\ streamed[x] # {} => x \in open

\* The i-th commit is at position i, with what its transaction changed.
Recorded ==
    \A i \in 1..Len(history) :
        /\ history[i].xid \in Xids \ open
        /\ history[i] = [xid |-> history[i].xid, commit_lsn |-> i,
                         changes |-> Ids(rows[history[i].xid])]

-----------------------------------------------------------------------------
(* Buckets *)

\* The marks of a bucket with n changes, the i-th of them made by own[i].
Marks(m, own, n) ==
    /\ DOMAIN m = {own[i] : i \in 1..n}
    /\ \A s \in DOMAIN m :
          /\ m[s] \in 0..(n - 1) /\ own[m[s] + 1] = s
          /\ \A i \in 1..m[s] : own[i] # s

Carries(b, seq, n) ==
    Len(b.changes) = n /\ \A i \in 1..n : b.changes[i] = seq[i].id

OwnersOf(seq) == [i \in DOMAIN seq |-> seq[i].owner]

\* The bucket of a streamed transaction after n of its rows.
Holds(b, seq, n) == Carries(b, seq, n) /\ Marks(b.bounds, OwnersOf(seq), n)

\* Every streamed transaction in progress but x is buffered as far as it was
\* streamed, and while no connection was lost nothing else is.
Rest(x) ==
    /\ \A y \in Xids \ {x} : streamed[y] # {} =>
          /\ y \in DOMAIN pending /\ Holds(pending[y], rows[y], sent[y])
          /\ y # current_xid
    /\ drops = 0 => DOMAIN pending \ {x} = {y \in Xids \ {x} : streamed[y] # {}}

-----------------------------------------------------------------------------
(* Phases *)

\* A stream left open by a lost connection: nothing was streamed since.
StaleStream ==
    /\ active_stream_xid # None => \A y \in Xids : streamed[y] = {}
    /\ drops = 0 => active_stream_xid = None

\* A transaction left open by a lost connection.
StaleXid == drops = 0 => current_xid = None

\* The next transaction this connection gets to is the one on the wire.
Committing(x) ==
    /\ x \in Xids \ open /\ streamed[x] = {}
    /\ NextLsn <= Len(history) /\ (drops = 0 => NextLsn = Len(history))
    /\ history[NextLsn] = [xid |-> x, commit_lsn |-> NextLsn,
                           changes |-> Ids(rows[x])]

Settled == drops = 0 => Received = Len(history)

Waiting ==
    /\ wire = <<>> /\ Settled
    /\ StaleXid /\ StaleStream
    /\ Rest(None)

CommitMsg == [kind |-> "Commit", lsn |-> NextLsn]
BeginMsg(x) == [kind |-> "Begin", xid |-> x, final_lsn |-> NextLsn]
StartMsg(x, first) == [kind |-> "StreamStart", xid |-> x, first_segment |-> first]
StopMsg == [kind |-> "StreamStop"]

\* A first message for x, which a stale bucket of x turns into an error.
FirstOf(x) == StaleXid /\ (drops = 0 => x \notin DOMAIN pending)

PlainRest(x, k) == RowMsgs(rows[x], k, FALSE) \o <<CommitMsg>>

PlainDue(x) ==
    /\ Committing(x) /\ Rest(x)
    /\ wire = <<BeginMsg(x)>> \o PlainRest(x, 0)
    /\ FirstOf(x) /\ StaleStream

PlainRows(x, k) ==
    /\ Committing(x) /\ Rest(x)
    /\ wire = PlainRest(x, k)
    /\ current_xid = x /\ active_stream_xid # x /\ StaleStream
    /\ x \in DOMAIN pending /\ pending[x].final_lsn = NextLsn
    /\ Carries(pending[x], rows[x], k)

\* After the chunk comes the commit, or nothing.
After(x, last) == IF last THEN <<StreamCommitMsg(x, NextLsn)>> ELSE <<>>

ChunkRest(x, k, last) ==
    RowMsgs(rows[x], k, TRUE) \o (<<StopMsg>> \o After(x, last))

ChunkOf(x, last) ==
    /\ Rest(x)
    /\ last => Committing(x)
    /\ ~last => Settled /\ streamed[x] # {} /\ sent[x] = Len(rows[x])

Resumed(x, k) ==
    /\ StaleXid /\ current_xid # x
    /\ x \in DOMAIN pending /\ Holds(pending[x], rows[x], k)

ChunkDue(x, k, first, last) ==
    /\ ChunkOf(x, last)
    /\ wire = <<StartMsg(x, first)>> \o ChunkRest(x, k, last)
    /\ first => k = 0 /\ FirstOf(x) /\ (drops = 0 => active_stream_xid = None)
    /\ ~first => Resumed(x, k) /\ active_stream_xid = None

ChunkRows(x, k, last) ==
    /\ ChunkOf(x, last)
    /\ wire = ChunkRest(x, k, last)
    /\ Resumed(x, k) /\ active_stream_xid = x

StreamCommitDue(x) ==
    /\ Committing(x) /\ Rest(x)
    /\ wire = After(x, TRUE)
    /\ Resumed(x, Len(rows[x])) /\ active_stream_xid = None

AbortMsg(x, sub) == [kind |-> "StreamAbort", xid |-> x, sub |-> sub]

AbortsOf(x) ==
    /\ Settled /\ Rest(x)
    /\ StaleXid /\ current_xid # x /\ active_stream_xid = None
    /\ wire \in Seq({AbortMsg(x, s) : s \in Owners}) /\ wire # <<>>

Due == {wire[i].sub : i \in 1..Len(wire)}

\* The first n changes are to stay; the others were rolled back and belong to an
\* abort that is due, and no abort that is due reaches the first n.
Undoing(b, seq, n, due) ==
    /\ Len(b.changes) >= n /\ \A i \in 1..n : b.changes[i] = seq[i].id
    /\ \E own \in [1..Len(b.changes) -> Owners] :
          /\ Marks(b.bounds, own, Len(b.changes))
          /\ \A i \in 1..Len(b.changes) :
                IF i <= n THEN own[i] = seq[i].owner /\ own[i] \notin due
                ELSE own[i] \in due

RollingBack(x) ==
    /\ AbortsOf(x)
    /\ x \in open /\ x \notin Due /\ streamed[x] # {}
    /\ x \in DOMAIN pending
    /\ Undoing(pending[x], rows[x], sent[x], Due)

Aborting(x) ==
    /\ AbortsOf(x)
    /\ streamed[x] = {}
    /\ \A i \in 1..Len(wire) : wire[i].sub = x <=> i = Len(wire)

Phase ==
    \/ Waiting
    \/ \E x \in Xids :
          \/ PlainDue(x) \/ StreamCommitDue(x) \/ RollingBack(x) \/ Aborting(x)
          \/ \E k \in 0..Len(rows[x]) :
                \/ PlainRows(x, k)
                \/ \E last \in BOOLEAN :
                      \/ ChunkRows(x, k, last)
                      \/ \E first \in BOOLEAN : ChunkDue(x, k, first, last)

Synced == (streaming_active <=> active_stream_xid # None) /\ Phase

EmittedPrefix ==
    /\ Received <= Len(history)
    /\ \A i \in 1..Len(emitted) : emitted[i] = history[start + i]

AssemblerInv ==
    /\ ServerType /\ AssemblerType /\ Savepoints /\ Recorded /\ EmittedPrefix
    /\ error = "none" => Synced
    /\ NoDesync

-----------------------------------------------------------------------------
(* Sequences of messages *)

\* A function on 1..n is a sequence.
LEMMA FunctionSeq ==
    ASSUME NEW S, NEW n \in Nat, NEW c \in [1..n -> S]
    PROVE  c \in Seq(S) /\ Len(c) = n
OBVIOUS

\* The first n elements of a sequence.
LEMMA FirstOnes ==
    ASSUME NEW S, NEW c \in Seq(S), NEW n \in 0..Len(c)
    PROVE  /\ SubSeq(c, 1, n) \in Seq(S) /\ Len(SubSeq(c, 1, n)) = n
           /\ \A i \in 1..n : SubSeq(c, 1, n)[i] = c[i]
<1>1. \A i \in 1..n : c[i] \in S
  OBVIOUS
<1>2. /\ SubSeq(c, 1, n) \in Seq(S)
      /\ Len(SubSeq(c, 1, n)) = IF 1 <= n THEN n - 1 + 1 ELSE 0
      /\ \A i \in 1..(n - 1 + 1) : SubSeq(c, 1, n)[i] = c[1 + i - 1]
  BY <1>1, SubSeqProperties
<1>. QED  BY <1>2

\* The numbers of a sequence of rows or row messages.
LEMMA IdsOf ==
    ASSUME NEW S, NEW s \in Seq(S), \A i \in 1..Len(s) : s[i].id \in 1..MaxChange
    PROVE  /\ Ids(s) \in Seq(1..MaxChange) /\ Len(Ids(s)) = Len(s)
           /\ \A i \in 1..Len(s) : Ids(s)[i] = s[i].id
<1>. DEFINE c == Ids(s)
<1>1. c = [i \in 1..Len(s) |-> s[i].id] /\ Len(s) \in Nat
  BY DEF Ids
<1>2. \A i \in 1..Len(s) : c[i] = s[i].id
  BY <1>1
<1>3. c \in [1..Len(s) -> 1..MaxChange]
  BY <1>1
<1>4. c \in Seq(1..MaxChange) /\ Len(c) = Len(s)
  <2>1. Len(s) \in Nat
    BY <1>1
  <2>. HIDE DEF c
  <2>. QED  BY <2>1, <1>3, FunctionSeq
<1>. QED  BY <1>2, <1>4

\* The first message of a wire, and what is left when it was fed.
LEMMA HeadOf ==
    ASSUME NEW S, NEW m \in S, NEW s \in Seq(S)
    PROVE  /\ <<m>> \o s \in Seq(S) /\ <<m>> \o s # <<>>
           /\ Len(<<m>> \o s) = Len(s) + 1
           /\ (<<m>> \o s)[1] = m
           /\ SubSeq(<<m>> \o s, 2, Len(<<m>> \o s)) = s
<1>. DEFINE w == <<m>> \o s
<1>0. <<m>> \in Seq(S) /\ Len(<<m>>) = 1 /\ <<m>>[1] = m
  OBVIOUS
<1>1. /\ w \in Seq(S) /\ Len(w) = 1 + Len(s)
      /\ \A i \in 1..(1 + Len(s)) : w[i] = IF i <= 1 THEN <<m>>[i] ELSE s[i - 1]
  BY <1>0, ConcatProperties
<1>. HIDE DEF w
<1>2. Len(s) \in Nat
  OBVIOUS
<1>3. w # <<>> /\ w[1] = m
  BY <1>0, <1>1, <1>2
<1>4. \A i \in 2..Len(w) : w[i] \in S
  BY <1>1, <1>2
<1>5. /\ SubSeq(w, 2, Len(w)) \in Seq(S)
      /\ Len(SubSeq(w, 2, Len(w))) = IF 2 <= Len(w) THEN Len(w) - 2 + 1 ELSE 0
      /\ \A i \in 1..(Len(w) - 2 + 1) : SubSeq(w, 2, Len(w))[i] = w[2 + i - 1]
  BY <1>1, <1>2, <1>4, SubSeqProperties
<1>6. Len(SubSeq(w, 2, Len(w))) = Len(s)
  BY <1>1, <1>2, <1>5
<1>7. \A i \in 1..Len(s) : SubSeq(w, 2, Len(w))[i] = s[i]
  BY <1>1, <1>2, <1>5
<1>8. SubSeq(w, 2, Len(w)) = s
  BY <1>5, <1>6, <1>7, SeqEqual
<1>. QED  BY <1>1, <1>2, <1>3, <1>8 DEF w

\* RowMsgs sends one message per row left, in order.
LEMMA RowMsgsAre ==
    ASSUME NEW seq \in Seq(RowSet), NEW k \in 0..Len(seq), NEW p \in BOOLEAN
    PROVE  /\ RowMsgs(seq, k, p) \in Seq(RowMsgSet)
           /\ Len(RowMsgs(seq, k, p)) = Len(seq) - k
           /\ \A i \in 1..(Len(seq) - k) :
                 /\ k + i \in 1..Len(seq) /\ seq[k + i] \in RowSet
                 /\ RowMsgs(seq, k, p)[i] =
                       [kind |-> "Row", sub |-> seq[k + i].owner, id |-> seq[k + i].id,
                        msg |-> seq[k + i].msg, prefixed |-> p]
<1>. DEFINE r == RowMsgs(seq, k, p)
            n == Len(seq) - k
<1>1. n \in Nat /\ \A i \in 1..n : k + i \in 1..Len(seq) /\ seq[k + i] \in RowSet
  OBVIOUS
<1>2. r = [i \in 1..n |-> [kind |-> "Row", sub |-> seq[k + i].owner,
                           id |-> seq[k + i].id, msg |-> seq[k + i].msg,
                           prefixed |-> p]]
  BY DEF RowMsgs
<1>3. \A i \in 1..n : r[i] = [kind |-> "Row", sub |-> seq[k + i].owner,
                              id |-> seq[k + i].id, msg |-> seq[k + i].msg,
                              prefixed |-> p]
  BY <1>2
<1>4. \A i \in 1..n : r[i] \in RowMsgSet
  <2>. TAKE i \in 1..n
  <2>1. PICK row \in RowSet : row = seq[k + i]
    BY <1>1
  <2>2. row.owner \in Owners /\ row.id \in 1..MaxChange /\ row.msg \in Nat
    BY DEF RowSet
  <2>3. r[i] = [kind |-> "Row", sub |-> row.owner, id |-> row.id, msg |-> row.msg,
                prefixed |-> p]
    BY <2>1, <1>3
  <2>. HIDE DEF r
  <2>. QED  BY <2>2, <2>3 DEF RowMsgSet
<1>5. r \in [1..n -> RowMsgSet]
  <2>1. r = [i \in 1..n |-> r[i]]
    BY <1>2
  <2>. HIDE DEF r, n
  <2>. QED  BY <2>1, <1>4
<1>6. r \in Seq(RowMsgSet) /\ Len(r) = n
  <2>. HIDE DEF r, n
  <2>. QED  BY <1>1, <1>5
<1>. QED  BY <1>1, <1>3, <1>6

\* A message of n rows takes n rows off the wire.
LEMMA RowsThen ==
    ASSUME NEW seq \in Seq(RowSet), NEW k \in 0..Len(seq), NEW p \in BOOLEAN,
           NEW t \in Seq(Messages), t # <<>>, t[1].kind # "Row"
    PROVE  /\ RowMsgs(seq, k, p) \o t \in Seq(Messages)
           /\ RowMsgs(seq, k, p) \o t # <<>>
           /\ k = Len(seq) => RowMsgs(seq, k, p) \o t = t
           /\ k < Len(seq) =>
                 (RowMsgs(seq, k, p) \o t)[1] =
                    [kind |-> "Row", sub |-> seq[k + 1].owner, id |-> seq[k + 1].id,
                     msg |-> seq[k + 1].msg, prefixed |-> p]
<1>. DEFINE r == RowMsgs(seq, k, p)
            w == r \o t
<1>1. r \in Seq(RowMsgSet) /\ Len(r) = Len(seq) - k
  BY RowMsgsAre
<1>2. r \in Seq(Messages)
  BY <1>1 DEF Messages
<1>3. /\ w \in Seq(Messages) /\ Len(w) = Len(r) + Len(t)
      /\ \A i \in 1..(Len(r) + Len(t)) : w[i] = IF i <= Len(r) THEN r[i] ELSE t[i - Len(r)]
  <2>. HIDE DEF r
  <2>. QED  BY <1>2, ConcatProperties
<1>4. w # <<>>
  <2>. HIDE DEF w, r
  <2>. QED  BY <1>1, <1>3
<1>5. ASSUME k = Len(seq) PROVE w = t
  <2>1. r = <<>>
    <3>. HIDE DEF r
    <3>. QED  BY <1>1, <1>5
  <2>. HIDE DEF r
  <2>. QED  BY <2>1, ConcatEmptySeq
<1>6. ASSUME k < Len(seq)
      PROVE  w[1] = [kind |-> "Row", sub |-> seq[k + 1].owner, id |-> seq[k + 1].id,
                     msg |-> seq[k + 1].msg, prefixed |-> p]
  <2>1. 1 \in 1..(Len(seq) - k)
    BY <1>6
  <2>2. r[1] = [kind |-> "Row", sub |-> seq[k + 1].owner, id |-> seq[k + 1].id,
                msg |-> seq[k + 1].msg, prefixed |-> p]
    BY <2>1, RowMsgsAre
  <2>3. w[1] = r[1]
    <3>. HIDE DEF w, r
    <3>. QED  BY <2>1, <1>1, <1>3
  <2>. QED  BY <2>2, <2>3
<1>. QED  BY <1>3, <1>4, <1>5, <1>6

\* What a message of n rows carries, and what it leaves.
LEMMA RowsTaken ==
    ASSUME NEW seq \in Seq(RowSet), NEW k \in 0..Len(seq), NEW p \in BOOLEAN,
           NEW t \in Seq(Messages), t # <<>>, t[1].kind # "Row",
           wire = RowMsgs(seq, k, p) \o t,
           NEW n \in 1..Len(wire), \A i \in 1..n : wire[i].kind = "Row"
    PROVE  /\ k + n \in 0..Len(seq)
           /\ \A i \in 1..n : wire[i].id = seq[k + i].id /\ wire[i].msg = seq[k + i].msg
           /\ SubSeq(wire, n + 1, Len(wire)) = RowMsgs(seq, k + n, p) \o t
<1>. DEFINE r == RowMsgs(seq, k, p)
            q == RowMsgs(seq, k + n, p)
            v == SubSeq(wire, n + 1, Len(wire))
            u == q \o t
<1>0. RowMsgSet \subseteq Messages /\ Len(t) \in Nat
  BY DEF Messages
<1>1. r \in Seq(Messages) /\ Len(r) = Len(seq) - k
  <2>1. r \in Seq(RowMsgSet) /\ Len(r) = Len(seq) - k
    BY RowMsgsAre
  <2>. HIDE DEF r
  <2>. QED  BY <2>1, <1>0
<1>2. /\ wire \in Seq(Messages) /\ Len(wire) = Len(r) + Len(t)
      /\ \A i \in 1..(Len(r) + Len(t)) : wire[i] = IF i <= Len(r) THEN r[i] ELSE t[i - Len(r)]
  <2>. HIDE DEF r
  <2>. QED  BY <1>1, ConcatProperties DEF r
<1>3. n <= Len(seq) - k
  <2>. SUFFICES ASSUME n > Len(r) PROVE FALSE
    BY <1>1
  <2>. HIDE DEF r
  <2>1. Len(r) \in Nat /\ Len(r) + 1 \in 1..n /\ Len(t) \in Nat \ {0}
    BY <1>1
  <2>2. wire[Len(r) + 1] = t[1]
    BY <2>1, <1>2
  <2>. QED  BY <2>1, <2>2
<1>4. k + n \in 0..Len(seq)
  BY <1>3
<1>5. \A i \in 1..n : wire[i].id = seq[k + i].id /\ wire[i].msg = seq[k + i].msg
  <2>. TAKE i \in 1..n
  <2>1. i \in 1..(Len(seq) - k)
    BY <1>3
  <2>2. r[i] = [kind |-> "Row", sub |-> seq[k + i].owner, id |-> seq[k + i].id,
                msg |-> seq[k + i].msg, prefixed |-> p]
    BY <2>1, RowMsgsAre
  <2>3. wire[i] = r[i]
    <3>. HIDE DEF r
    <3>1. i \in 1..(Len(r) + Len(t)) /\ i <= Len(r)
      BY <2>1, <1>0, <1>1
    <3>. QED  BY <3>1, <1>2, Zenon
  <2>. QED  BY <2>2, <2>3
<1>6. q \in Seq(Messages) /\ Len(q) = Len(seq) - (k + n)
  BY <1>4, RowMsgsAre DEF Messages
<1>7. /\ u \in Seq(Messages) /\ Len(u) = Len(q) + Len(t)
      /\ \A i \in 1..(Len(q) + Len(t)) : u[i] = IF i <= Len(q) THEN q[i] ELSE t[i - Len(q)]
  <2>. HIDE DEF q
  <2>. QED  BY <1>6, ConcatProperties
<1>8. \A i \in (n + 1)..Len(wire) : wire[i] \in Messages
  BY <1>2
<1>9. /\ v \in Seq(Messages)
      /\ Len(v) = IF n + 1 <= Len(wire) THEN Len(wire) - (n + 1) + 1 ELSE 0
      /\ \A i \in 1..(Len(wire) - (n + 1) + 1) : v[i] = wire[(n + 1) + i - 1]
  <2>1. n + 1 \in Int /\ Len(wire) \in Int
    BY <1>2
  <2>. QED  BY <2>1, <1>8, SubSeqProperties
<1>10. Len(v) = Len(u)
  <2>. HIDE DEF v, u, q, r
  <2>. QED  BY <1>1, <1>2, <1>3, <1>6, <1>7, <1>9
<1>11. \A i \in 1..Len(v) : v[i] = u[i]
  <2>. TAKE i \in 1..Len(v)
  <2>1. v[i] = wire[n + i] /\ Len(v) = Len(q) + Len(t) /\ n + i \in 1..Len(wire)
    <3>. HIDE DEF v, u, q, r
    <3>1. Len(v) = Len(wire) - n /\ n + i \in 1..Len(wire) /\ (n + 1) + i - 1 = n + i
      BY <1>0, <1>1, <1>2, <1>3, <1>9
    <3>2. i \in 1..(Len(wire) - (n + 1) + 1)
      BY <1>0, <1>1, <1>2, <1>3, <3>1
    <3>3. v[i] = wire[(n + 1) + i - 1]
      BY <3>2, <1>9, Zenon
    <3>. QED  BY <3>1, <3>3, <1>7, <1>10
  <2>2. CASE i <= Len(q)
    <3>0. Len(q) = Len(seq) - (k + n) /\ Len(r) = Len(seq) - k
      BY <1>1, <1>6
    <3>1. i \in 1..(Len(seq) - (k + n)) /\ n + i \in 1..(Len(seq) - k)
      <4>. HIDE DEF v, u, q, r
      <4>. QED  BY <2>2, <1>3, <3>0
    <3>2. q[i] = [kind |-> "Row", sub |-> seq[(k + n) + i].owner,
                  id |-> seq[(k + n) + i].id,
                  msg |-> seq[(k + n) + i].msg, prefixed |-> p]
      BY <1>4, <3>1, RowMsgsAre
    <3>3. r[n + i] = [kind |-> "Row", sub |-> seq[k + (n + i)].owner,
                      id |-> seq[k + (n + i)].id,
                      msg |-> seq[k + (n + i)].msg, prefixed |-> p]
      BY <3>1, RowMsgsAre
    <3>4. (k + n) + i = k + (n + i)
      OBVIOUS
    <3>5. q[i] = r[n + i]
      BY <3>2, <3>3, <3>4
    <3>6. u[i] = q[i] /\ wire[n + i] = r[n + i]
      <4>. HIDE DEF v, u, q, r
      <4>1. /\ i \in 1..(Len(q) + Len(t))
            /\ n + i \in 1..(Len(r) + Len(t)) /\ n + i <= Len(r)
        BY <1>0, <2>1, <2>2, <3>0, <3>1
      <4>. QED  BY <2>2, <1>2, <1>7, <4>1, Zenon
    <3>. QED  BY <2>1, <3>5, <3>6
  <2>3. CASE ~(i <= Len(q))
    <3>. HIDE DEF v, u, q, r
    <3>1. u[i] = t[i - Len(q)]
      BY <2>1, <2>3, <1>7
    <3>2. wire[n + i] = t[(n + i) - Len(r)]
      BY <2>1, <2>3, <1>1, <1>2, <1>6
    <3>3. (n + i) - Len(r) = i - Len(q)
      BY <1>1, <1>6
    <3>. QED  BY <2>1, <3>1, <3>2, <3>3
  <2>. QED  BY <2>2, <2>3
<1>12. v = u
  <2>. HIDE DEF v, u
  <2>. QED  BY <1>7, <1>9, <1>10, <1>11, SeqEqual
<1>. QED  BY <1>4, <1>5, <1>12

-----------------------------------------------------------------------------
(* One message fed *)

\* A message that is not a row is fed alone.
LEMMA OtherFed ==
    ASSUME NEW m \in Messages, NEW s \in Seq(Messages), wire = <<m>> \o s,
           m.kind # "Row", NEW n \in 1..Len(wire), OneMessage(n)
    PROVE  wire[1] = m /\ n = 1 /\ SubSeq(wire, n + 1, Len(wire)) = s
<1>1. wire[1] = m /\ SubSeq(wire, 2, Len(wire)) = s
  BY HeadOf
<1>2. n > 1 => wire[1].kind = "Row"
  BY DEF OneMessage
<1>3. n = 1
  BY <1>1, <1>2
<1>. QED  BY <1>1, <1>3

\* The rows of one message are consecutive rows of the transaction.
LEMMA RowFed ==
    ASSUME NEW seq \in Seq(RowSet), NEW k \in 0..Len(seq), NEW p \in BOOLEAN,
           NEW t \in Seq(Messages), t # <<>>, t[1].kind # "Row",
           wire = RowMsgs(seq, k, p) \o t, k < Len(seq),
           NEW n \in 1..Len(wire), OneMessage(n)
    PROVE  /\ k + n \in 0..Len(seq)
           /\ wire[1] = [kind |-> "Row", sub |-> seq[k + 1].owner,
                         id |-> seq[k + 1].id, msg |-> seq[k + 1].msg,
                         prefixed |-> p]
           /\ \A i \in 1..n : seq[k + i].msg = seq[k + 1].msg
           /\ Ids(SubSeq(wire, 1, n)) \in Seq(1..MaxChange)
           /\ Len(Ids(SubSeq(wire, 1, n))) = n
           /\ \A i \in 1..n : Ids(SubSeq(wire, 1, n))[i] = seq[k + i].id
           /\ SubSeq(wire, n + 1, Len(wire)) = RowMsgs(seq, k + n, p) \o t
<1>1. /\ wire \in Seq(Messages)
      /\ wire[1] = [kind |-> "Row", sub |-> seq[k + 1].owner, id |-> seq[k + 1].id,
                    msg |-> seq[k + 1].msg, prefixed |-> p]
  BY RowsThen
<1>2. \A i \in 1..n : wire[i].kind = "Row" /\ wire[i].msg = wire[1].msg
  <2>1. wire[1].kind = "Row"
    BY <1>1
  <2>. QED  BY <2>1 DEF OneMessage
<1>3. /\ k + n \in 0..Len(seq)
      /\ \A i \in 1..n : wire[i].id = seq[k + i].id /\ wire[i].msg = seq[k + i].msg
      /\ SubSeq(wire, n + 1, Len(wire)) = RowMsgs(seq, k + n, p) \o t
  <2>1. \A i \in 1..n : wire[i].kind = "Row"
    BY <1>2
  <2>. QED  BY <2>1, RowsTaken
<1>. n \in Nat /\ 1 \in 1..n
  BY <1>1
<1>4. \A i \in 1..n : seq[k + i].msg = seq[k + 1].msg
  BY <1>2, <1>3
<1>. DEFINE h == SubSeq(wire, 1, n)
            c == Ids(h)
<1>5. h \in Seq(Messages) /\ Len(h) = n /\ \A i \in 1..n : h[i] = wire[i]
  BY <1>1
<1>8. \A i \in 1..n : seq[k + i].id \in 1..MaxChange
  <2>. TAKE i \in 1..n
  <2>1. k + i \in 1..Len(seq)
    BY <1>3
  <2>2. seq[k + i] \in RowSet
    BY <2>1
  <2>. QED  BY <2>2 DEF RowSet
<1>9. \A i \in 1..Len(h) : h[i].id = seq[k + i].id /\ h[i].id \in 1..MaxChange
  <2>. HIDE DEF h
  <2>1. \A i \in 1..n : h[i].id = wire[i].id
    BY <1>5
  <2>. QED  BY <1>3, <1>5, <1>8, <2>1
<1>10. /\ c \in Seq(1..MaxChange) /\ Len(c) = Len(h)
       /\ \A i \in 1..Len(h) : c[i] = h[i].id
  <2>. HIDE DEF h
  <2>. QED  BY <1>5, <1>9, IdsOf
<1>11. c \in Seq(1..MaxChange) /\ Len(c) = n /\ \A i \in 1..n : c[i] = seq[k + i].id
  <2>. HIDE DEF c, h
  <2>. QED  BY <1>5, <1>9, <1>10
<1>. QED  BY <1>1, <1>3, <1>4, <1>11

\* Feeding leaves the sessions and the walsender alone.
LEMMA ServerKept ==
    ASSUME ServerType, Savepoints, UNCHANGED <<serverVars, connVars>>
    PROVE  /\ ServerType' /\ Savepoints' /\ (Recorded => Recorded')
           /\ emitted' = emitted =>
                 /\ Received' = Received /\ NextLsn' = NextLsn
                 /\ EmittedPrefix => EmittedPrefix'
<1>1. ServerType'
  BY DEF ServerType, serverVars, connVars
<1>2. Savepoints'
  BY DEF Savepoints, serverVars, connVars, RowsInOrder, FramesOld, FramesCut, Inside,
         StreamedSent
<1>3. Recorded => Recorded'
  BY DEF Recorded, serverVars, Ids
<1>4. emitted' = emitted =>
         /\ Received' = Received /\ NextLsn' = NextLsn
         /\ EmittedPrefix => EmittedPrefix'
  BY DEF Received, NextLsn, EmittedPrefix, serverVars, connVars
<1>. QED  BY <1>1, <1>2, <1>3, <1>4

\* The other buckets are as they were.
SameElsewhere(x) ==
    \A y \in Xids \ {x} :
        /\ y \in DOMAIN pending' <=> y \in DOMAIN pending
        /\ y \in DOMAIN pending => pending'[y] = pending[y]

\* What holds of the other buckets holds while x is fed.
LEMMA RestKept ==
    ASSUME NEW x \in Xids, Rest(x), SameElsewhere(x),
           DOMAIN pending \subseteq Xids, DOMAIN pending' \subseteq Xids,
           current_xid' \in {current_xid, None, x},
           UNCHANGED <<serverVars, connVars>>
    PROVE  Rest(x)'
<1>. streamed' = streamed /\ rows' = rows /\ sent' = sent /\ drops' = drops
  BY DEF serverVars, connVars
<1>1. ASSUME NEW y \in Xids \ {x}, streamed[y] # {}
      PROVE  /\ y \in DOMAIN pending' /\ Holds(pending'[y], rows[y], sent[y])
             /\ y # current_xid'
  <2>1. y \in DOMAIN pending /\ Holds(pending[y], rows[y], sent[y]) /\ y # current_xid
    BY <1>1 DEF Rest
  <2>2. y # None
    BY BoundsAssumption DEF Xids, None
  <2>. QED  BY <2>1, <2>2 DEF SameElsewhere
<1>2. drops = 0 => DOMAIN pending' \ {x} = {y \in Xids \ {x} : streamed[y] # {}}
  <2>. SUFFICES ASSUME drops = 0
                PROVE  DOMAIN pending' \ {x} = {y \in Xids \ {x} : streamed[y] # {}}
    OBVIOUS
  <2>1. DOMAIN pending' \ {x} = DOMAIN pending \ {x}
    BY DEF SameElsewhere
  <2>. QED  BY <2>1 DEF Rest
<1>. QED  BY <1>1, <1>2, Zenon DEF Rest

\* What is on the wire is a matter of the server's state.
LEMMA WireKept ==
    ASSUME UNCHANGED <<serverVars, connVars>>, emitted' = emitted,
           NEW x, NEW k, NEW last
    PROVE  /\ PlainRest(x, k)' = PlainRest(x, k)
           /\ ChunkRest(x, k, last)' = ChunkRest(x, k, last)
           /\ After(x, last)' = After(x, last)
           /\ Committing(x) => Committing(x)'
           /\ Settled => Settled'
<1>. /\ rows' = rows /\ history' = history /\ open' = open /\ streamed' = streamed
     /\ drops' = drops /\ Received' = Received /\ NextLsn' = NextLsn
  BY DEF serverVars, connVars, Received, NextLsn
<1>1. After(x, last)' = After(x, last) /\ PlainRest(x, k)' = PlainRest(x, k)
  BY DEF PlainRest, RowMsgs, After, StreamCommitMsg, CommitMsg
<1>2. ChunkRest(x, k, last)' = ChunkRest(x, k, last)
  BY <1>1 DEF ChunkRest, RowMsgs, StopMsg
<1>3. Committing(x) => Committing(x)'
  BY DEF Committing, Ids
<1>4. Settled => Settled'
  BY DEF Settled
<1>. QED  BY <1>1, <1>2, <1>3, <1>4

\* An exception is raised only after a connection was lost, and changes nothing
\* else.
LEMMA RaiseKeeps ==
    ASSUME AssemblerInv, UNCHANGED <<serverVars, connVars>>, drops # 0,
           streaming_active' \in BOOLEAN,
           Raise("ProtocolError") \/ Raise("DecodeError")
    PROVE  AssemblerInv'
<1>1. ServerType' /\ Savepoints' /\ Recorded'
  BY ServerKept DEF AssemblerInv
<1>2. AssemblerType'
  BY DEF AssemblerInv, AssemblerType, TypeOK, BucketOK, IsBucket, Raise, serverVars
<1>3. EmittedPrefix'
  BY ServerKept DEF AssemblerInv, Raise
<1>4. error' # "none" /\ NoDesync'
  BY DEF Raise, NoDesync, connVars
<1>. QED  BY <1>1, <1>2, <1>3, <1>4 DEF AssemblerInv

\* A message fed without an exception.
LEMMA FedKeeps ==
    ASSUME AssemblerInv, UNCHANGED <<serverVars, connVars>>, error' = "none",
           AssemblerType', EmittedPrefix', Synced'
    PROVE  AssemblerInv'
<1>1. ServerType' /\ Savepoints' /\ Recorded'
  BY ServerKept DEF AssemblerInv
<1>. QED  BY <1>1 DEF AssemblerInv, NoDesync, connVars

\* What Feed does with a message that is not a row.
LEMMA OtherDispatched ==
    ASSUME Feed, NEW m \in Messages, NEW s \in Seq(Messages), wire = <<m>> \o s,
           m.kind # "Row"
    PROVE  /\ wire' = s /\ streaming_active' = DecodeFlag(m)
           /\ UNCHANGED <<serverVars, connVars>>
           /\ \E n \in Nat : Dispatch(m, n)
<1>1. PICK n \in 1..Len(wire) :
          /\ OneMessage(n)
          /\ streaming_active' = DecodeFlag(wire[1])
          /\ IF Misparsed(wire[1]) THEN Raise("DecodeError") ELSE Dispatch(wire[1], n)
          /\ wire' = SubSeq(wire, n + 1, Len(wire))
  BY DEF Feed
<1>2. wire[1] = m /\ n = 1 /\ SubSeq(wire, n + 1, Len(wire)) = s
  BY <1>1, OtherFed
<1>3. ~Misparsed(m)
  BY DEF Misparsed
<1>4. Dispatch(m, n)
  BY <1>1, <1>2, <1>3
<1>. QED  BY <1>1, <1>2, <1>4 DEF Feed

\* What Feed does with the rows of one message.
LEMMA RowsDispatched ==
    ASSUME Feed, NEW seq \in Seq(RowSet), NEW k \in 0..Len(seq), NEW p \in BOOLEAN,
           NEW t \in Seq(Messages), t # <<>>, t[1].kind # "Row",
           wire = RowMsgs(seq, k, p) \o t, k < Len(seq)
    PROVE  /\ UNCHANGED <<serverVars, connVars, streaming_active>>
           /\ \E n \in Nat \ {0}, ids \in Seq(1..MaxChange) :
                /\ k + n \in 0..Len(seq)
                /\ wire' = RowMsgs(seq, k + n, p) \o t
                /\ \A i \in 1..n : seq[k + i].msg = seq[k + 1].msg
                /\ Len(ids) = n /\ \A i \in 1..n : ids[i] = seq[k + i].id
                /\ \/ p # streaming_active /\ Raise("DecodeError")
                   \/ /\ p = streaming_active
                      /\ AppendChange([kind |-> "Row", sub |-> seq[k + 1].owner,
                                       id |-> seq[k + 1].id, msg |-> seq[k + 1].msg,
                                       prefixed |-> p], ids)
<1>. DEFINE m == [kind |-> "Row", sub |-> seq[k + 1].owner, id |-> seq[k + 1].id,
                  msg |-> seq[k + 1].msg, prefixed |-> p]
<1>1. PICK n \in 1..Len(wire) :
          /\ OneMessage(n)
          /\ streaming_active' = DecodeFlag(wire[1])
          /\ IF Misparsed(wire[1]) THEN Raise("DecodeError") ELSE Dispatch(wire[1], n)
          /\ wire' = SubSeq(wire, n + 1, Len(wire))
  BY DEF Feed
<1>. DEFINE ids == Ids(SubSeq(wire, 1, n))
<1>2. /\ k + n \in 0..Len(seq)
      /\ wire[1] = m
      /\ \A i \in 1..n : seq[k + i].msg = seq[k + 1].msg
      /\ ids \in Seq(1..MaxChange)
      /\ Len(ids) = n
      /\ \A i \in 1..n : ids[i] = seq[k + i].id
      /\ SubSeq(wire, n + 1, Len(wire)) = RowMsgs(seq, k + n, p) \o t
  BY <1>1, RowFed
<1>3. n \in Nat \ {0}
  <2>1. wire \in Seq(Messages)
    BY RowsThen
  <2>. QED  BY <2>1
<1>4. m.kind = "Row" /\ m.prefixed = p
  OBVIOUS
<1>. HIDE DEF m
<1>5. streaming_active' = streaming_active
  BY <1>1, <1>2, <1>4 DEF DecodeFlag
<1>6. p # streaming_active => Raise("DecodeError")
  BY <1>1, <1>2, <1>4, Zenon DEF Misparsed
<1>7. p = streaming_active => AppendChange(m, ids)
  <2>. SUFFICES ASSUME p = streaming_active PROVE AppendChange(m, ids)
    OBVIOUS
  <2>1. ~Misparsed(m)
    BY <1>4, Zenon DEF Misparsed
  <2>2. Dispatch(m, n)
    BY <2>1, <1>1, <1>2, Zenon
  <2>. QED  BY <2>2, <1>4 DEF Dispatch
<1>8. \/ p # streaming_active /\ Raise("DecodeError")
      \/ p = streaming_active /\ AppendChange(m, ids)
  BY <1>6, <1>7, Zenon
<1>9. wire' = RowMsgs(seq, k + n, p) \o t
  BY <1>1, <1>2
<1>10. UNCHANGED <<serverVars, connVars, streaming_active>>
  BY <1>5 DEF Feed
<1>. HIDE DEF ids
<1>. QED  BY <1>2, <1>3, <1>8, <1>9, <1>10, Zenon DEF m

\* What is left on the wire after the first message.
LEMMA RestIs ==
    ASSUME ServerType, AssemblerType, NEW x \in Xids, NEW k \in 0..Len(rows[x]),
           NEW last \in BOOLEAN
    PROVE  /\ CommitMsg \in Messages /\ StopMsg \in Messages
           /\ StreamCommitMsg(x, NextLsn) \in Messages
           /\ After(x, last) \in Seq(Messages)
           /\ <<StopMsg>> \o After(x, last) \in Seq(Messages)
           /\ <<StopMsg>> \o After(x, last) # <<>>
           /\ (<<StopMsg>> \o After(x, last))[1] = StopMsg
           /\ PlainRest(x, k) \in Seq(Messages) /\ PlainRest(x, k) # <<>>
           /\ ChunkRest(x, k, last) \in Seq(Messages)
           /\ ChunkRest(x, k, last) # <<>>
<1>1. NextLsn \in Nat /\ rows[x] \in Seq(RowSet)
  BY DEF ServerType, AssemblerType, NextLsn, Received
<1>2. CommitMsg \in Messages
  BY <1>1 DEF CommitMsg, Messages
<1>3. StopMsg \in Messages
  BY DEF StopMsg, Messages
<1>4. StreamCommitMsg(x, NextLsn) \in Messages
  BY <1>1 DEF StreamCommitMsg, Messages
<1>5. After(x, last) \in Seq(Messages)
  <2>1. CASE last = TRUE
    BY <2>1, <1>4 DEF After
  <2>2. CASE last = FALSE
    BY <2>2 DEF After
  <2>. QED  BY <2>1, <2>2
<1>6. /\ <<StopMsg>> \o After(x, last) \in Seq(Messages)
      /\ <<StopMsg>> \o After(x, last) # <<>>
      /\ (<<StopMsg>> \o After(x, last))[1] = StopMsg
  BY <1>3, <1>5, HeadOf
<1>7. /\ ChunkRest(x, k, last) \in Seq(Messages)
      /\ ChunkRest(x, k, last) # <<>>
  <2>1. (<<StopMsg>> \o After(x, last))[1].kind # "Row"
    BY <1>6 DEF StopMsg
  <2>. QED  BY <1>1, <1>6, <2>1, RowsThen DEF ChunkRest
<1>8. PlainRest(x, k) \in Seq(Messages) /\ PlainRest(x, k) # <<>>
  <2>1. <<CommitMsg>> \in Seq(Messages) /\ <<CommitMsg>> # <<>>
        /\ <<CommitMsg>>[1].kind # "Row"
    BY <1>2 DEF CommitMsg
  <2>. QED  BY <1>1, <2>1, RowsThen DEF PlainRest
<1>. QED  BY <1>2, <1>3, <1>4, <1>5, <1>6, <1>7, <1>8

-----------------------------------------------------------------------------
(* Buckets *)

\* Marks looks only at the changes it counts.
LEMMA MarksSame ==
    ASSUME NEW m, NEW o, NEW q, NEW n \in Nat, Marks(m, o, n),
           \A i \in 1..n : o[i] = q[i]
    PROVE  Marks(m, q, n)
<1>1. {o[i] : i \in 1..n} = {q[i] : i \in 1..n}
  OBVIOUS
<1>2. DOMAIN m = {q[i] : i \in 1..n}
  BY <1>1 DEF Marks
<1>3. ASSUME NEW r \in DOMAIN m
      PROVE  /\ m[r] \in 0..(n - 1) /\ q[m[r] + 1] = r
             /\ \A i \in 1..m[r] : q[i] # r
  <2>1. /\ m[r] \in 0..(n - 1) /\ o[m[r] + 1] = r
        /\ \A i \in 1..m[r] : o[i] # r
    BY DEF Marks
  <2>2. m[r] + 1 \in 1..n /\ \A i \in 1..m[r] : i \in 1..n
    BY <2>1
  <2>. QED  BY <2>1, <2>2
<1>. QED  BY <1>2, <1>3 DEF Marks

\* Holds looks only at the rows it counts.
LEMMA HoldsPrefix ==
    ASSUME NEW b, NEW s \in Seq(RowSet), NEW t \in Seq(RowSet), NEW n \in Nat,
           n <= Len(s), n <= Len(t), \A i \in 1..n : s[i] = t[i], Holds(b, s, n)
    PROVE  Holds(b, t, n)
<1>1. Carries(b, t, n)
  BY DEF Holds, Carries
<1>2. \A i \in 1..n : OwnersOf(s)[i] = s[i].owner /\ OwnersOf(t)[i] = t[i].owner
  BY DEF OwnersOf
<1>3. \A i \in 1..n : OwnersOf(s)[i] = OwnersOf(t)[i]
  BY <1>2
<1>4. Marks(b.bounds, OwnersOf(s), n)
  BY DEF Holds
<1>5. Marks(b.bounds, OwnersOf(t), n)
  BY <1>3, <1>4, MarksSame
<1>. QED  BY <1>1, <1>5 DEF Holds

\* c holds the numbers of the rows after the k-th.
Numbers(c, seq, k) == \A i \in 1..Len(c) : c[i] = seq[k + i].id

\* Rows appended to the changes of a bucket.
LEMMA NumbersMore ==
    ASSUME NEW c \in Seq(1..MaxChange), NEW d \in Seq(1..MaxChange), NEW seq,
           Numbers(c, seq, 0), Numbers(d, seq, Len(c))
    PROVE  /\ c \o d \in Seq(1..MaxChange) /\ Len(c \o d) = Len(c) + Len(d)
           /\ Numbers(c \o d, seq, 0)
<1>. DEFINE e == c \o d
            k == Len(c)
            n == Len(d)
<1>0. k \in Nat /\ n \in Nat
  OBVIOUS
<1>1. /\ e \in Seq(1..MaxChange) /\ Len(e) = k + n
      /\ \A i \in 1..(k + n) : e[i] = IF i <= k THEN c[i] ELSE d[i - k]
  BY ConcatProperties
<1>2. /\ \A i \in 1..k : c[i] = seq[0 + i].id
      /\ \A i \in 1..n : d[i] = seq[k + i].id
  BY DEF Numbers
<1>. HIDE DEF e, k, n
<1>3. ASSUME NEW i \in 1..(k + n) PROVE e[i] = seq[0 + i].id
  <2>1. CASE i <= k
    BY <1>0, <1>1, <1>2, <2>1
  <2>2. CASE ~(i <= k)
    <3>1. i - k \in 1..n /\ k + (i - k) = 0 + i
      BY <1>0, <2>2
    <3>2. d[i - k] = seq[k + (i - k)].id
      BY <1>2, <3>1
    <3>. QED  BY <1>1, <2>2, <3>1, <3>2
  <2>. QED  BY <2>1, <2>2
<1>4. Numbers(e, seq, 0)
  BY <1>1, <1>3 DEF Numbers
<1>. QED  BY <1>1, <1>4 DEF e, k, n

\* The same for a bucket that carries the first k rows.
LEMMA CarriesMore ==
    ASSUME NEW b, NEW ids \in Seq(1..MaxChange), NEW seq, NEW k \in Nat,
           b.changes \in Seq(1..MaxChange), Carries(b, seq, k),
           Numbers(ids, seq, k), NEW d, d.changes = b.changes \o ids
    PROVE  d.changes \in Seq(1..MaxChange) /\ Carries(d, seq, k + Len(ids))
<1>1. Len(b.changes) = k /\ Numbers(b.changes, seq, 0)
  BY DEF Carries, Numbers
<1>. DEFINE c == b.changes
<1>2. c \in Seq(1..MaxChange) /\ Numbers(c, seq, 0) /\ Numbers(ids, seq, Len(c))
  BY <1>1
<1>3. Len(c) = k /\ d.changes = c \o ids
  BY <1>1
<1>. HIDE DEF c
<1>4. /\ c \o ids \in Seq(1..MaxChange) /\ Len(c \o ids) = Len(c) + Len(ids)
      /\ Numbers(c \o ids, seq, 0)
  BY <1>2, NumbersMore
<1>. QED  BY <1>3, <1>4 DEF Carries, Numbers

\* The first row of a subtransaction marks it; later ones do not.
LEMMA MarksMore ==
    ASSUME NEW m, NEW own, NEW k \in Nat, NEW n \in Nat \ {0}, NEW s,
           Marks(m, own, k), \A i \in 1..n : own[k + i] = s
    PROVE  /\ s \in DOMAIN m => Marks(m, own, k + n)
           /\ s \notin DOMAIN m => Marks(Put(m, s, k), own, k + n)
<1>0. \A i \in (k + 1)..(k + n) : own[i] = s
  <2>. TAKE i \in (k + 1)..(k + n)
  <2>1. i - k \in 1..n /\ k + (i - k) = i
    OBVIOUS
  <2>2. own[k + (i - k)] = s
    BY <2>1
  <2>. QED  BY <2>1, <2>2
<1>1. {own[i] : i \in 1..(k + n)} = DOMAIN m \cup {s}
  <2>1. ASSUME NEW r \in {own[i] : i \in 1..(k + n)} PROVE r \in DOMAIN m \cup {s}
    <3>1. PICK i \in 1..(k + n) : r = own[i]
      OBVIOUS
    <3>2. CASE i <= k
      BY <3>1, <3>2 DEF Marks
    <3>3. CASE ~(i <= k)
      BY <3>1, <3>3, <1>0
    <3>. QED  BY <3>2, <3>3
  <2>2. ASSUME NEW r \in DOMAIN m PROVE r \in {own[i] : i \in 1..(k + n)}
    <3>1. PICK i \in 1..k : r = own[i]
      BY DEF Marks
    <3>2. i \in 1..(k + n)
      OBVIOUS
    <3>. QED  BY <3>1, <3>2
  <2>3. s \in {own[i] : i \in 1..(k + n)}
    <3>1. k + 1 \in 1..(k + n) /\ own[k + 1] = s
      BY <1>0
    <3>. QED  BY <3>1
  <2>. QED  BY <2>1, <2>2, <2>3
<1>2. ASSUME s \in DOMAIN m PROVE Marks(m, own, k + n)
  <2>1. \A r \in DOMAIN m : m[r] \in 0..(k + n - 1)
    BY DEF Marks
  <2>. QED  BY <1>1, <1>2, <2>1 DEF Marks
<1>3. ASSUME s \notin DOMAIN m PROVE Marks(Put(m, s, k), own, k + n)
  <2>. DEFINE q == Put(m, s, k)
  <2>1. DOMAIN q = DOMAIN m \cup {s} /\ q[s] = k /\ \A r \in DOMAIN m : q[r] = m[r]
    BY <1>3 DEF Put
  <2>. HIDE DEF q
  <2>2. ASSUME NEW r \in DOMAIN m
        PROVE  /\ q[r] \in 0..(k + n - 1) /\ own[q[r] + 1] = r
               /\ \A i \in 1..q[r] : own[i] # r
    BY <2>1 DEF Marks
  <2>3. /\ q[s] \in 0..(k + n - 1) /\ own[q[s] + 1] = s
        /\ \A i \in 1..q[s] : own[i] # s
    <3>1. k + 1 \in (k + 1)..(k + n)
      OBVIOUS
    <3>. QED  BY <1>0, <1>3, <2>1, <3>1 DEF Marks
  <2>4. ASSUME NEW r \in DOMAIN q
        PROVE  /\ q[r] \in 0..(k + n - 1) /\ own[q[r] + 1] = r
               /\ \A i \in 1..q[r] : own[i] # r
    BY <2>1, <2>2, <2>3
  <2>5. Marks(q, own, k + n)
    BY <1>1, <2>1, <2>4 DEF Marks
  <2>. QED  BY <2>5 DEF q
<1>. QED  BY <1>2, <1>3

\* Cut back to the first row of s, exactly the marks of the rows kept are kept.
LEMMA MarksCut ==
    ASSUME NEW m, NEW own, NEW n \in Nat, Marks(m, own, n), NEW s \in DOMAIN m,
           NEW kept, kept = {r \in DOMAIN m \ {s} : m[r] < m[s]}
    PROVE  Marks([r \in kept |-> m[r]], own, m[s])
<1>0. m[s] \in 0..(n - 1) /\ \A i \in 1..m[s] : own[i] # s
  BY DEF Marks
<1>. DEFINE q == [r \in kept |-> m[r]]
<1>1. DOMAIN q = kept /\ \A r \in kept : q[r] = m[r]
  OBVIOUS
<1>. HIDE DEF q
<1>2. kept = {own[i] : i \in 1..m[s]}
  <2>1. ASSUME NEW r \in kept PROVE r \in {own[i] : i \in 1..m[s]}
    <3>1. m[r] + 1 \in 1..m[s] /\ own[m[r] + 1] = r
      BY <1>0 DEF Marks
    <3>. QED  BY <3>1
  <2>2. ASSUME NEW i \in 1..m[s] PROVE own[i] \in kept
    <3>1. i \in 1..n /\ own[i] # s
      BY <1>0
    <3>2. own[i] \in DOMAIN m
      BY <3>1 DEF Marks
    <3>3. m[own[i]] \in 0..(n - 1) /\ \A j \in 1..m[own[i]] : own[j] # own[i]
      BY <3>2 DEF Marks
    <3>4. m[own[i]] < i
      BY <3>3
    <3>5. m[own[i]] < m[s]
      BY <3>3, <3>4, <1>0
    <3>. QED  BY <3>1, <3>2, <3>5
  <2>. QED  BY <2>1, <2>2
<1>3. ASSUME NEW r \in kept
      PROVE  /\ m[r] \in 0..(m[s] - 1) /\ own[m[r] + 1] = r
             /\ \A i \in 1..m[r] : own[i] # r
  BY <1>0 DEF Marks
<1>. QED  BY <1>1, <1>2, <1>3 DEF Marks, q

-----------------------------------------------------------------------------
(* Feed, phase by phase *)

\* A step on the bucket of x alone keeps the types.
LEMMA TypesKept ==
    ASSUME AssemblerType, ServerType, NEW x \in Xids, UNCHANGED serverVars,
           SameElsewhere(x), DOMAIN pending' \subseteq Xids,
           x \in DOMAIN pending' => IsBucket(pending[x])' /\ BucketOK(pending[x])',
           streaming_active' \in BOOLEAN, error' = "none",
           current_xid' \in {None} \cup DOMAIN pending',
           active_stream_xid' \in {None} \cup DOMAIN pending',
           emitted' \in Seq(CommitSet)
    PROVE  AssemblerType'
<1>. history' = history
  BY DEF serverVars
<1>1. ASSUME NEW y \in DOMAIN pending'
      PROVE  IsBucket(pending[y])' /\ BucketOK(pending[y])'
  <2>1. CASE y = x
    BY <2>1
  <2>2. CASE y # x
    <3>1. y \in DOMAIN pending /\ pending'[y] = pending[y]
      BY <2>2 DEF SameElsewhere
    <3>2. IsBucket(pending[y]) /\ BucketOK(pending[y])
      BY <3>1 DEF AssemblerType, TypeOK
    <3>. QED  BY <3>1, <3>2 DEF IsBucket, BucketOK
  <2>. QED  BY <2>1, <2>2
<1>2. TypeOK'
  BY <1>1 DEF TypeOK
<1>. QED  BY <1>1, <1>2 DEF AssemblerType

\* The facts about a Feed step that every phase uses.
LEMMA InvParts ==
    ASSUME AssemblerInv
    PROVE  /\ ServerType /\ AssemblerType /\ Savepoints /\ EmittedPrefix /\ TypeOK
           /\ BoundsAssumption
           /\ DOMAIN pending \subseteq Xids
           /\ \A x \in Xids : x # None /\ rows[x] \in Seq(RowSet)
           /\ Len(history) \in Nat /\ Len(emitted) \in Nat
           /\ start \in Nat /\ NextLsn \in Nat /\ Received \in Nat
           /\ NextLsn = Received + 1 /\ Received = start + Len(emitted)
<1>1. ServerType /\ AssemblerType /\ Savepoints /\ EmittedPrefix /\ TypeOK
  BY DEF AssemblerInv, AssemblerType
<1>2. /\ DOMAIN pending \subseteq Xids
      /\ \A x \in Xids : x # None /\ rows[x] \in Seq(RowSet)
  BY <1>1, BoundsAssumption DEF ServerType, TypeOK, Xids, None
<1>3. /\ Len(history) \in Nat /\ Len(emitted) \in Nat /\ start \in Nat
  BY <1>1 DEF AssemblerType, ServerType
<1>4. NextLsn = Received + 1 /\ Received = start + Len(emitted)
  BY DEF NextLsn, Received
<1>. QED  BY <1>1, <1>2, <1>3, <1>4, BoundsAssumption

\* Begin opens a bucket, unless a lost connection left one.
LEMMA BeginFed ==
    ASSUME AssemblerInv, error = "none", Feed, NEW x \in Xids, PlainDue(x),
           streaming_active <=> active_stream_xid # None
    PROVE  AssemblerInv'
<1>0. /\ ServerType /\ AssemblerType /\ Savepoints /\ EmittedPrefix /\ TypeOK
      /\ DOMAIN pending \subseteq Xids
      /\ x # None /\ rows[x] \in Seq(RowSet)
      /\ Len(history) \in Nat /\ Len(emitted) \in Nat /\ NextLsn \in Nat
  BY InvParts
<1>. DEFINE m == BeginMsg(x)
<1>1. m \in Messages /\ m.kind = "Begin" /\ m.xid = x /\ m.final_lsn = NextLsn
  BY <1>0 DEF BeginMsg, Messages
<1>2. 0 \in 0..Len(rows[x]) /\ PlainRest(x, 0) \in Seq(Messages)
  <2>1. 0 \in 0..Len(rows[x])
    BY <1>0
  <2>. QED  BY <2>1, <1>0, RestIs
<1>3. wire = <<m>> \o PlainRest(x, 0)
  BY DEF PlainDue
<1>. HIDE DEF m
<1>4. /\ wire' = PlainRest(x, 0) /\ streaming_active' = DecodeFlag(m)
      /\ UNCHANGED <<serverVars, connVars>>
      /\ \E n \in Nat : Dispatch(m, n)
  BY <1>1, <1>2, <1>3, OtherDispatched
<1>5. Begin(m)
  BY <1>1, <1>4 DEF Dispatch
<1>6. streaming_active' = streaming_active
  BY <1>1, <1>4 DEF DecodeFlag
<1>7. CASE current_xid # None \/ x \in DOMAIN pending
  <2>1. Raise("ProtocolError")
    BY <1>1, <1>5, <1>7 DEF Begin
  <2>2. drops # 0
    BY <1>7 DEF PlainDue, FirstOf, StaleXid
  <2>3. streaming_active' \in BOOLEAN
    BY <1>0, <1>6 DEF TypeOK
  <2>. QED  BY <2>1, <2>2, <2>3, <1>4, RaiseKeeps
<1>8. CASE current_xid = None /\ x \notin DOMAIN pending
  <2>1. /\ current_xid' = x /\ pending' = Put(pending, x, Bucket(NextLsn))
        /\ active_stream_xid' = active_stream_xid /\ emitted' = emitted
        /\ error' = error
    BY <1>1, <1>5, <1>8 DEF Begin
  <2>2. /\ DOMAIN pending' = DOMAIN pending \cup {x}
        /\ pending'[x] = Bucket(NextLsn)
        /\ \A y \in DOMAIN pending : pending'[y] = pending[y]
    BY <2>1, <1>8 DEF Put
  <2>3. SameElsewhere(x) /\ DOMAIN pending' \subseteq Xids
    BY <2>2, <1>0 DEF SameElsewhere
  <2>4. IsBucket(pending[x])' /\ BucketOK(pending[x])'
    <3>1. NextLsn \in 0..Len(history) /\ history' = history
      BY <1>0, <1>4 DEF PlainDue, Committing, serverVars
    <3>. QED  BY <2>2, <3>1 DEF IsBucket, BucketOK, Bucket
  <2>5. AssemblerType'
    <3>1. /\ streaming_active' \in BOOLEAN /\ error' = "none"
          /\ current_xid' \in {None} \cup DOMAIN pending'
          /\ active_stream_xid' \in {None} \cup DOMAIN pending'
          /\ emitted' \in Seq(CommitSet)
      BY <1>0, <1>6, <2>1, <2>2 DEF TypeOK, AssemblerType
    <3>. QED  BY <3>1, <1>0, <1>4, <2>3, <2>4, TypesKept
  <2>6. EmittedPrefix'
    BY <1>0, <1>4, <2>1, ServerKept
  <2>7. PlainRows(x, 0)'
    <3>1. Committing(x)' /\ PlainRest(x, 0)' = PlainRest(x, 0)
      BY <1>4, <2>1, WireKept DEF PlainDue
    <3>2. Rest(x)'
      BY <1>0, <1>4, <2>1, <2>3, RestKept DEF PlainDue
    <3>3. StaleStream'
      BY <1>4, <2>1 DEF PlainDue, StaleStream, serverVars, connVars
    <3>4. active_stream_xid' # x
      BY <1>0, <1>8, <2>1 DEF TypeOK
    <3>5. /\ x \in DOMAIN pending' /\ pending'[x].final_lsn = NextLsn'
          /\ Carries(pending[x], rows[x], 0)'
      <4>1. NextLsn' = NextLsn /\ rows' = rows
        BY <1>0, <1>4, <2>1, ServerKept DEF serverVars
      <4>. QED  BY <4>1, <2>2 DEF Bucket, Carries
    <3>. QED  BY <1>4, <2>1, <3>1, <3>2, <3>3, <3>4, <3>5 DEF PlainRows
  <2>8. Synced'
    <3>1. 0 \in 0..Len(rows'[x])
      BY <1>2, <1>4 DEF serverVars
    <3>2. Phase'
      BY <2>7, <3>1 DEF Phase
    <3>. QED  BY <1>6, <2>1, <3>2 DEF Synced
  <2>. QED  BY <1>4, <2>1, <2>5, <2>6, <2>8, FedKeeps
<1>. QED  BY <1>7, <1>8

\* A bucket with other changes and marks.
LEMMA BucketUpdate ==
    ASSUME NEW b, IsBucket(b), NEW c, NEW q
    PROVE  [b EXCEPT !.changes = c, !.bounds = q] =
               [changes |-> c, final_lsn |-> b.final_lsn, bounds |-> q]
<1>1. PICK d : d = [b EXCEPT !.changes = c, !.bounds = q]
  OBVIOUS
<1>2. d \in [changes : {c}, final_lsn : {b.final_lsn}, bounds : {q}]
  BY <1>1 DEF IsBucket
<1>3. d = [changes |-> c, final_lsn |-> b.final_lsn, bounds |-> q]
  BY <1>2
<1>. QED  BY <1>1, <1>3

\* Appending a message's rows to the bucket of x.
LEMMA Appended ==
    ASSUME AssemblerInv, NEW x \in Xids, x \in DOMAIN pending, ActiveXid = x,
           NEW m, NEW ids \in Seq(1..MaxChange), AppendChange(m, ids)
    PROVE  /\ DOMAIN pending' = DOMAIN pending /\ SameElsewhere(x)
           /\ DOMAIN pending' \subseteq Xids
           /\ IsBucket(pending[x])'
           /\ pending'[x].changes = pending[x].changes \o ids
           /\ pending'[x].final_lsn = pending[x].final_lsn
           /\ pending'[x].bounds =
                 Mark(pending[x], IF streaming_active THEN m.sub ELSE None)
           /\ UNCHANGED <<current_xid, active_stream_xid, emitted, error>>
<1>0. x # None /\ IsBucket(pending[x]) /\ DOMAIN pending \subseteq Xids
  BY InvParts DEF AssemblerType
<1>. DEFINE b == pending[x]
            marks == Mark(b, IF streaming_active THEN m.sub ELSE None)
            c == b.changes \o ids
            d == [b EXCEPT !.changes = c, !.bounds = marks]
<1>1. /\ pending' = [pending EXCEPT ![x] = d]
      /\ UNCHANGED <<current_xid, active_stream_xid, emitted, error>>
  BY <1>0 DEF AppendChange
<1>2. d = [changes |-> c, final_lsn |-> b.final_lsn, bounds |-> marks]
  BY <1>0, BucketUpdate
<1>. HIDE DEF d
<1>3. /\ DOMAIN pending' = DOMAIN pending /\ pending'[x] = d
      /\ \A y \in DOMAIN pending \ {x} : pending'[y] = pending[y]
  BY <1>1
<1>4. SameElsewhere(x) /\ DOMAIN pending' \subseteq Xids
  BY <1>0, <1>3 DEF SameElsewhere
<1>5. /\ IsBucket(d) /\ d.changes = c /\ d.final_lsn = b.final_lsn
      /\ d.bounds = marks
  <2>. HIDE DEF c, marks, b
  <2>. QED  BY <1>2 DEF IsBucket
<1>. HIDE DEF c, marks
<1>6. IsBucket(pending[x])'
  BY <1>3, <1>5 DEF IsBucket
<1>. QED  BY <1>1, <1>3, <1>4, <1>5, <1>6 DEF c, marks

\* The rows of a transaction sent at commit go to its bucket.
LEMMA PlainRowFed ==
    ASSUME AssemblerInv, error = "none", Feed, NEW x \in Xids,
           NEW k \in 0..Len(rows[x]), PlainRows(x, k), k < Len(rows[x]),
           streaming_active <=> active_stream_xid # None
    PROVE  AssemblerInv'
<1>0. /\ ServerType /\ AssemblerType /\ Savepoints /\ EmittedPrefix /\ TypeOK
      /\ DOMAIN pending \subseteq Xids
      /\ x # None /\ rows[x] \in Seq(RowSet)
      /\ Len(history) \in Nat /\ Len(emitted) \in Nat /\ NextLsn \in Nat
  BY InvParts
<1>. DEFINE t == <<CommitMsg>>
            m == [kind |-> "Row", sub |-> rows[x][k + 1].owner,
                  id |-> rows[x][k + 1].id, msg |-> rows[x][k + 1].msg,
                  prefixed |-> FALSE]
<1>1. t \in Seq(Messages) /\ t # <<>> /\ t[1].kind # "Row"
  <2>1. CommitMsg \in Messages
    BY <1>0, RestIs
  <2>. QED  BY <2>1 DEF CommitMsg
<1>2. wire = RowMsgs(rows[x], k, FALSE) \o t
  BY DEF PlainRows, PlainRest
<1>. HIDE DEF t
<1>3. /\ UNCHANGED <<serverVars, connVars, streaming_active>>
      /\ \E n \in Nat \ {0}, ids \in Seq(1..MaxChange) :
           /\ k + n \in 0..Len(rows[x])
           /\ wire' = RowMsgs(rows[x], k + n, FALSE) \o t
           /\ \A i \in 1..n : rows[x][k + i].msg = rows[x][k + 1].msg
           /\ Len(ids) = n /\ \A i \in 1..n : ids[i] = rows[x][k + i].id
           /\ \/ FALSE # streaming_active /\ Raise("DecodeError")
              \/ FALSE = streaming_active /\ AppendChange(m, ids)
  BY <1>0, <1>1, <1>2, RowsDispatched
<1>4. PICK n \in Nat \ {0}, ids \in Seq(1..MaxChange) :
           /\ k + n \in 0..Len(rows[x])
           /\ wire' = RowMsgs(rows[x], k + n, FALSE) \o t
           /\ Len(ids) = n /\ \A i \in 1..n : ids[i] = rows[x][k + i].id
           /\ \/ FALSE # streaming_active /\ Raise("DecodeError")
              \/ FALSE = streaming_active /\ AppendChange(m, ids)
  BY <1>3
<1>5. UNCHANGED <<serverVars, connVars>> /\ streaming_active' = streaming_active
  BY <1>3
<1>6. CASE Raise("DecodeError") /\ FALSE # streaming_active
  <2>1. streaming_active' \in BOOLEAN /\ streaming_active = TRUE
    BY <1>0, <1>5, <1>6 DEF TypeOK
  <2>2. drops # 0
    BY <2>1 DEF PlainRows, StaleStream
  <2>. QED  BY <2>1, <2>2, <1>5, <1>6, RaiseKeeps
<1>7. CASE FALSE = streaming_active /\ AppendChange(m, ids)
  <2>. HIDE DEF m
  <2>1. active_stream_xid = None /\ x \in DOMAIN pending /\ ActiveXid = x
    BY <1>7, <1>0 DEF PlainRows, ActiveXid
  <2>2. /\ DOMAIN pending' = DOMAIN pending /\ SameElsewhere(x)
        /\ DOMAIN pending' \subseteq Xids
        /\ IsBucket(pending[x])'
        /\ pending'[x].changes = pending[x].changes \o ids
        /\ pending'[x].final_lsn = pending[x].final_lsn
        /\ pending'[x].bounds =
              Mark(pending[x], IF streaming_active THEN m.sub ELSE None)
        /\ UNCHANGED <<current_xid, active_stream_xid, emitted, error>>
    BY <1>7, <2>1, Appended
  <2>3. pending'[x].bounds = pending[x].bounds
    BY <1>7, <2>2 DEF Mark
  <2>4. /\ pending[x].changes \in Seq(1..MaxChange) /\ Len(pending[x].changes) = k
        /\ \A i \in 1..k : pending[x].changes[i] = rows[x][i].id
        /\ BucketOK(pending[x])
    BY <1>0, <2>1 DEF TypeOK, BucketOK, PlainRows, Carries
  <2>5. Numbers(ids, rows[x], k) /\ k \in Nat /\ Len(ids) = n
    BY <1>0, <1>4 DEF Numbers
  <2>6. Carries(pending[x], rows[x], k + n)'
        /\ pending'[x].changes \in Seq(1..MaxChange)
    <3>1. Carries(pending[x], rows[x], k)
      BY DEF PlainRows
    <3>2. /\ pending'[x].changes \in Seq(1..MaxChange)
          /\ Carries(pending'[x], rows[x], k + Len(ids))
      BY <2>2, <2>4, <2>5, <3>1, CarriesMore
    <3>. QED  BY <1>5, <2>5, <3>2 DEF Carries, serverVars
  <2>7. BucketOK(pending[x])'
    <3>1. history' = history /\ Len(pending'[x].changes) = k + n
      BY <1>5, <2>6 DEF serverVars, Carries
    <3>. QED  BY <3>1, <2>2, <2>3, <2>4, <2>5, <2>6 DEF BucketOK
  <2>8. AssemblerType'
    <3>1. /\ streaming_active' \in BOOLEAN /\ error' = "none"
          /\ current_xid' \in {None} \cup DOMAIN pending'
          /\ active_stream_xid' \in {None} \cup DOMAIN pending'
          /\ emitted' \in Seq(CommitSet)
      BY <1>0, <1>5, <2>2 DEF TypeOK, AssemblerType
    <3>. QED  BY <3>1, <1>0, <1>5, <2>2, <2>7, TypesKept
  <2>9. EmittedPrefix'
    BY <1>0, <1>5, <2>2, ServerKept
  <2>10. PlainRows(x, k + n)'
    <3>1. Committing(x)' /\ PlainRest(x, k + n)' = PlainRest(x, k + n)
      BY <1>5, <2>2, WireKept DEF PlainRows
    <3>2. Rest(x)'
      BY <1>0, <1>5, <2>2, RestKept DEF PlainRows
    <3>3. StaleStream'
      BY <1>5, <2>2 DEF PlainRows, StaleStream, serverVars, connVars
    <3>4. wire' = PlainRest(x, k + n)
      BY <1>4 DEF PlainRest, t
    <3>5. /\ current_xid' = x /\ active_stream_xid' # x /\ x \in DOMAIN pending'
          /\ pending'[x].final_lsn = NextLsn'
      <4>1. NextLsn' = NextLsn
        BY <1>0, <1>5, <2>2, ServerKept
      <4>. QED  BY <4>1, <2>2 DEF PlainRows
    <3>. QED  BY <2>6, <3>1, <3>2, <3>3, <3>4, <3>5 DEF PlainRows
  <2>11. Synced'
    <3>1. k + n \in 0..Len(rows'[x])
      BY <1>4, <1>5 DEF serverVars
    <3>2. Phase'
      BY <2>10, <3>1 DEF Phase
    <3>. QED  BY <1>5, <2>2, <3>2 DEF Synced
  <2>. QED  BY <1>5, <2>2, <2>8, <2>9, <2>11, FedKeeps
<1>. QED  BY <1>4, <1>6, <1>7, Zenon

\* A transaction that is not to be buffered, and is not.
LEMMA RestWithout ==
    ASSUME NEW x \in Xids, DOMAIN pending' \subseteq Xids,
           Rest(x)', streamed'[x] = {}, drops' = 0 => x \notin DOMAIN pending'
    PROVE  Rest(None)'
<1>1. None \notin Xids
  BY BoundsAssumption DEF Xids, None
<1>2. ASSUME NEW y \in Xids \ {None}, streamed'[y] # {}
      PROVE  /\ y \in DOMAIN pending' /\ Holds(pending[y], rows[y], sent[y])'
             /\ y # current_xid'
  <2>1. y \in Xids \ {x}
    BY <1>2
  <2>. QED  BY <1>2, <2>1 DEF Rest
<1>3. drops' = 0 =>
        DOMAIN pending' \ {None} = {y \in Xids \ {None} : streamed'[y] # {}}
  <2>. SUFFICES ASSUME drops' = 0
                PROVE  DOMAIN pending' \ {None} =
                          {y \in Xids \ {None} : streamed'[y] # {}}
    OBVIOUS
  <2>1. DOMAIN pending' \ {x} = {y \in Xids \ {x} : streamed'[y] # {}}
    BY DEF Rest
  <2>. QED  BY <1>1, <2>1
<1>. QED  BY <1>2, <1>3 DEF Rest

\* The transaction on the wire is emitted with the changes of its bucket, and
\* nothing else is buffered in its place.
LEMMA Built ==
    ASSUME AssemblerInv, NEW x \in Xids, Committing(x), Rest(x),
           x \in DOMAIN pending, Carries(pending[x], rows[x], Len(rows[x])),
           BuildTransaction(x, NextLsn), current_xid' \in {current_xid, None},
           UNCHANGED <<serverVars, connVars>>
    PROVE  /\ EmittedPrefix' /\ Settled' /\ emitted' \in Seq(CommitSet)
           /\ DOMAIN pending' = DOMAIN pending \ {x}
           /\ SameElsewhere(x) /\ Rest(None)'
<1>0. /\ ServerType /\ AssemblerType /\ EmittedPrefix /\ TypeOK
      /\ DOMAIN pending \subseteq Xids
      /\ x # None /\ rows[x] \in Seq(RowSet)
      /\ Len(history) \in Nat /\ Len(emitted) \in Nat /\ start \in Nat
      /\ NextLsn = start + Len(emitted) + 1
  BY InvParts
<1>. DEFINE h == history[NextLsn]
<1>1. /\ emitted' = Append(emitted, [xid |-> x, commit_lsn |-> NextLsn,
                                     changes |-> pending[x].changes])
      /\ pending' = [y \in DOMAIN pending \ {x} |-> pending[y]]
  BY DEF BuildTransaction, Remove1
<1>2. pending[x].changes = Ids(rows[x])
  <2>1. \A i \in 1..Len(rows[x]) : rows[x][i].id \in 1..MaxChange
    <3>. TAKE i \in 1..Len(rows[x])
    <3>1. rows[x][i] \in RowSet
      BY <1>0
    <3>. QED  BY <3>1 DEF RowSet
  <2>2. /\ Ids(rows[x]) \in Seq(1..MaxChange) /\ Len(Ids(rows[x])) = Len(rows[x])
        /\ \A i \in 1..Len(rows[x]) : Ids(rows[x])[i] = rows[x][i].id
    BY <1>0, <2>1, IdsOf
  <2>3. pending[x].changes \in Seq(1..MaxChange)
    BY <1>0 DEF TypeOK, BucketOK
  <2>4. /\ Len(pending[x].changes) = Len(Ids(rows[x]))
        /\ \A i \in 1..Len(pending[x].changes) :
              pending[x].changes[i] = Ids(rows[x])[i]
    BY <2>2 DEF Carries
  <2>. QED  BY <2>2, <2>3, <2>4, SeqEqual
<1>3. emitted' = Append(emitted, h)
  BY <1>1, <1>2 DEF Committing
<1>4. /\ NextLsn \in 1..Len(history) /\ h \in CommitSet
      /\ history' = history /\ emitted \in Seq(CommitSet)
      /\ start' = start /\ drops' = drops
  <2>1. NextLsn \in 1..Len(history) /\ history \in Seq(CommitSet)
    BY <1>0 DEF Committing, ServerType
  <2>2. h \in CommitSet
    BY <2>1
  <2>. QED  BY <2>1, <2>2, <1>0 DEF serverVars, connVars, AssemblerType
<1>5. /\ emitted' \in Seq(CommitSet) /\ Len(emitted') = Len(emitted) + 1
      /\ emitted'[Len(emitted) + 1] = h
      /\ \A i \in 1..Len(emitted) : emitted'[i] = emitted[i]
  <2>. HIDE DEF h
  <2>. QED  BY <1>3, <1>4
<1>6. EmittedPrefix' /\ Received' = NextLsn
  <2>1. ASSUME NEW i \in 1..Len(emitted') PROVE emitted'[i] = history[start + i]
    <3>1. CASE i = Len(emitted) + 1
      <4>1. start + i = NextLsn
        BY <3>1, <1>0
      <4>. QED  BY <3>1, <4>1, <1>5
    <3>2. CASE i # Len(emitted) + 1
      <4>1. i \in 1..Len(emitted)
        BY <3>2, <1>0, <1>5
      <4>. QED  BY <4>1, <1>0, <1>5 DEF EmittedPrefix
    <3>. QED  BY <3>1, <3>2
  <2>2. Received' = NextLsn
    BY <1>0, <1>4, <1>5 DEF Received
  <2>. QED  BY <2>1, <2>2, <1>0, <1>4 DEF EmittedPrefix
<1>7. Settled'
  BY <1>4, <1>6 DEF Settled, Committing
<1>8. /\ DOMAIN pending' = DOMAIN pending \ {x}
      /\ \A y \in DOMAIN pending' : pending'[y] = pending[y]
  BY <1>1
<1>9. SameElsewhere(x) /\ DOMAIN pending' \subseteq Xids
  BY <1>0, <1>8 DEF SameElsewhere
<1>10. Rest(None)'
  <2>1. Rest(x)'
    BY <1>0, <1>9, RestKept
  <2>2. streamed'[x] = {} /\ x \notin DOMAIN pending' /\ None \notin Xids
    BY <1>8, <1>0, BoundsAssumption DEF Committing, serverVars, Xids, None
  <2>. QED  BY <2>1, <2>2, <1>9, RestWithout
<1>. QED  BY <1>5, <1>6, <1>7, <1>8, <1>9, <1>10

\* The only message left on the wire.
LEMMA LastDispatched ==
    ASSUME Feed, NEW m \in Messages, wire = <<m>>, m.kind # "Row"
    PROVE  /\ wire' = <<>> /\ streaming_active' = DecodeFlag(m)
           /\ UNCHANGED <<serverVars, connVars>>
           /\ \E n \in Nat : Dispatch(m, n)
<1>1. <<m>> \in Seq(Messages) /\ <<>> \in Seq(Messages)
  OBVIOUS
<1>2. <<m>> \o <<>> = <<m>>
  BY <1>1, ConcatEmptySeq
<1>3. wire = <<m>> \o <<>>
  BY <1>2
<1>. QED  BY <1>1, <1>3, OtherDispatched

\* Commit emits the transaction.
LEMMA CommitFed ==
    ASSUME AssemblerInv, error = "none", Feed, NEW x \in Xids,
           PlainRows(x, Len(rows[x])),
           streaming_active <=> active_stream_xid # None
    PROVE  AssemblerInv'
<1>0. /\ ServerType /\ AssemblerType /\ Savepoints /\ EmittedPrefix /\ TypeOK
      /\ DOMAIN pending \subseteq Xids
      /\ x # None /\ rows[x] \in Seq(RowSet)
      /\ Len(history) \in Nat /\ Len(emitted) \in Nat /\ NextLsn \in Nat
  BY InvParts
<1>. DEFINE m == CommitMsg
            k == Len(rows[x])
<1>1. k \in 0..Len(rows[x]) /\ m \in Messages /\ m.kind = "Commit" /\ m.lsn = NextLsn
  <2>1. k \in 0..Len(rows[x])
    BY <1>0
  <2>2. m \in Messages
    BY <2>1, <1>0, RestIs
  <2>. QED  BY <2>1, <2>2 DEF CommitMsg
<1>2. wire = <<m>>
  <2>1. <<m>> \in Seq(Messages) /\ <<m>> # <<>> /\ <<m>>[1].kind # "Row"
    BY <1>1
  <2>2. RowMsgs(rows[x], k, FALSE) \o <<m>> = <<m>>
    BY <1>0, <1>1, <2>1, RowsThen
  <2>. QED  BY <2>2 DEF PlainRows, PlainRest
<1>. HIDE DEF m, k
<1>3. /\ wire' = <<>> /\ streaming_active' = DecodeFlag(m)
      /\ UNCHANGED <<serverVars, connVars>>
      /\ \E n \in Nat : Dispatch(m, n)
  BY <1>1, <1>2, LastDispatched
<1>4. Finish(m) /\ streaming_active' = streaming_active
  BY <1>1, <1>3 DEF Dispatch, DecodeFlag
<1>5. /\ current_xid = x /\ x \in DOMAIN pending /\ active_stream_xid # x
      /\ pending[x].final_lsn = NextLsn /\ Committing(x) /\ Rest(x)
      /\ Carries(pending[x], rows[x], Len(rows[x]))
  BY DEF PlainRows
<1>6. /\ BuildTransaction(x, NextLsn) /\ current_xid' = None
      /\ active_stream_xid' = active_stream_xid /\ error' = error
  BY <1>0, <1>1, <1>4, <1>5 DEF Finish
<1>7. /\ EmittedPrefix' /\ Settled' /\ emitted' \in Seq(CommitSet)
      /\ DOMAIN pending' = DOMAIN pending \ {x}
      /\ SameElsewhere(x) /\ Rest(None)'
  BY <1>3, <1>5, <1>6, Built
<1>8. AssemblerType'
  <2>1. /\ streaming_active' \in BOOLEAN /\ error' = "none"
        /\ current_xid' \in {None} \cup DOMAIN pending'
        /\ active_stream_xid' \in {None} \cup DOMAIN pending'
        /\ x \notin DOMAIN pending' /\ DOMAIN pending' \subseteq Xids
    BY <1>0, <1>4, <1>5, <1>6, <1>7 DEF TypeOK
  <2>. QED  BY <2>1, <1>0, <1>3, <1>7, TypesKept
<1>9. Waiting'
  <2>1. StaleStream'
    BY <1>3, <1>6 DEF PlainRows, StaleStream, serverVars, connVars
  <2>2. StaleXid'
    BY <1>6 DEF StaleXid
  <2>. QED  BY <2>1, <2>2, <1>3, <1>7 DEF Waiting
<1>10. Synced'
  BY <1>4, <1>6, <1>9 DEF Synced, Phase
<1>. QED  BY <1>3, <1>6, <1>7, <1>8, <1>10, FedKeeps

\* A bucket that holds rows of a transaction has the type of a bucket.
LEMMA HoldsTyped ==
    ASSUME NEW b, NEW seq \in Seq(RowSet), NEW n \in 0..Len(seq), Holds(b, seq, n),
           b.changes \in Seq(1..MaxChange), b.final_lsn \in 0..Len(history)
    PROVE  BucketOK(b)
<1>1. DOMAIN b.bounds = {OwnersOf(seq)[i] : i \in 1..n} /\ Len(b.changes) = n
  BY DEF Holds, Marks, Carries
<1>2. \A i \in 1..n : OwnersOf(seq)[i] \in Owners
  <2>. TAKE i \in 1..n
  <2>1. i \in DOMAIN seq /\ seq[i] \in RowSet
    OBVIOUS
  <2>. QED  BY <2>1 DEF OwnersOf, RowSet
<1>3. DOMAIN b.bounds \subseteq Xids \cup Subxids
  BY <1>1, <1>2 DEF Owners
<1>4. \A s \in DOMAIN b.bounds : b.bounds[s] \in 0..(n - 1)
  BY DEF Holds, Marks
<1>. QED  BY <1>1, <1>3, <1>4 DEF BucketOK

\* A chunk being fed stays the chunk of x.
LEMMA ChunkKept ==
    ASSUME AssemblerInv, NEW x \in Xids, NEW last \in BOOLEAN, ChunkOf(x, last),
           SameElsewhere(x), current_xid' = current_xid, DOMAIN pending' \subseteq Xids,
           UNCHANGED <<serverVars, connVars>>, emitted' = emitted
    PROVE  ChunkOf(x, last)'
<1>1. Rest(x)'
  BY InvParts, RestKept DEF ChunkOf
<1>2. last => Committing(x)'
  BY WireKept DEF ChunkOf
<1>3. ~last => Settled' /\ streamed'[x] # {} /\ sent'[x] = Len(rows'[x])
  BY WireKept DEF ChunkOf, serverVars
<1>. QED  BY <1>1, <1>2, <1>3 DEF ChunkOf

\* StreamStart opens a bucket for a first segment and finds one for another,
\* unless a lost connection left one.
LEMMA StartFed ==
    ASSUME AssemblerInv, error = "none", Feed, NEW x \in Xids,
           NEW k \in 0..Len(rows[x]), NEW first \in BOOLEAN, NEW last \in BOOLEAN,
           ChunkDue(x, k, first, last)
    PROVE  AssemblerInv'
<1>0. /\ ServerType /\ AssemblerType /\ Savepoints /\ EmittedPrefix /\ TypeOK
      /\ DOMAIN pending \subseteq Xids
      /\ x # None /\ rows[x] \in Seq(RowSet)
      /\ Len(history) \in Nat /\ Len(emitted) \in Nat /\ NextLsn \in Nat
  BY InvParts
<1>. DEFINE m == StartMsg(x, first)
<1>1. m \in Messages /\ m.kind = "StreamStart" /\ m.xid = x /\ m.first_segment = first
  BY <1>0 DEF StartMsg, Messages
<1>2. ChunkRest(x, k, last) \in Seq(Messages)
  BY <1>0, RestIs
<1>3. wire = <<m>> \o ChunkRest(x, k, last)
  BY DEF ChunkDue
<1>. HIDE DEF m
<1>4. /\ wire' = ChunkRest(x, k, last) /\ streaming_active' = DecodeFlag(m)
      /\ UNCHANGED <<serverVars, connVars>>
      /\ \E n \in Nat : Dispatch(m, n)
  BY <1>1, <1>2, <1>3, OtherDispatched
<1>5. StreamStart(m) /\ streaming_active' = TRUE
  BY <1>1, <1>4 DEF Dispatch, DecodeFlag
<1>6. CASE first /\ x \in DOMAIN pending
  <2>1. Raise("ProtocolError")
    BY <1>1, <1>5, <1>6 DEF StreamStart
  <2>2. drops # 0
    BY <1>6 DEF ChunkDue, FirstOf
  <2>. QED  BY <2>1, <2>2, <1>4, <1>5, RaiseKeeps
<1>7. ASSUME ~(first /\ x \in DOMAIN pending) PROVE AssemblerInv'
  <2>1. first <=> x \notin DOMAIN pending
    BY <1>7 DEF ChunkDue, Resumed
  <2>2. /\ pending' = IF first THEN Put(pending, x, Bucket(None)) ELSE pending
        /\ active_stream_xid' = x
        /\ current_xid' = current_xid /\ emitted' = emitted /\ error' = error
    BY <1>1, <1>5, <2>1 DEF StreamStart
  <2>3. StaleXid /\ current_xid # x
    <3>1. CASE first
      BY <3>1, <2>1, <1>0 DEF ChunkDue, FirstOf, TypeOK
    <3>2. CASE ~first
      BY <3>2 DEF ChunkDue, Resumed
    <3>. QED  BY <3>1, <3>2
  <2>4. /\ DOMAIN pending' = DOMAIN pending \cup {x}
        /\ pending'[x] = IF first THEN Bucket(None) ELSE pending[x]
        /\ \A y \in DOMAIN pending : pending'[y] = pending[y]
    <3>1. CASE first
      BY <3>1, <2>1, <2>2 DEF Put
    <3>2. CASE ~first
      BY <3>2, <2>1, <2>2
    <3>. QED  BY <3>1, <3>2
  <2>5. SameElsewhere(x) /\ DOMAIN pending' \subseteq Xids
    BY <2>4, <1>0 DEF SameElsewhere
  <2>6. IsBucket(pending[x])' /\ BucketOK(pending[x])' /\ Holds(pending[x], rows[x], k)'
    <3>. history' = history /\ rows' = rows
      BY <1>4 DEF serverVars
    <3>1. CASE first
      <4>1. k = 0 /\ pending'[x] = Bucket(None)
        BY <3>1, <2>4 DEF ChunkDue
      <4>2. IsBucket(Bucket(None)) /\ BucketOK(Bucket(None))
        BY <1>0 DEF IsBucket, BucketOK, Bucket, None
      <4>3. Holds(Bucket(None), rows[x], 0)
        BY DEF Holds, Carries, Marks, Bucket
      <4>. QED  BY <4>1, <4>2, <4>3 DEF IsBucket, BucketOK, Holds, Carries, Marks
    <3>2. CASE ~first
      <4>1. pending'[x] = pending[x] /\ x \in DOMAIN pending
        BY <3>2, <2>1, <2>4
      <4>2. IsBucket(pending[x]) /\ BucketOK(pending[x])
        BY <4>1, <1>0 DEF TypeOK, AssemblerType
      <4>3. Holds(pending[x], rows[x], k)
        BY <3>2 DEF ChunkDue, Resumed
      <4>. QED  BY <4>1, <4>2, <4>3 DEF IsBucket, BucketOK, Holds, Carries, Marks
    <3>. QED  BY <3>1, <3>2
  <2>7. AssemblerType'
    <3>1. /\ streaming_active' \in BOOLEAN /\ error' = "none"
          /\ current_xid' \in {None} \cup DOMAIN pending'
          /\ active_stream_xid' \in {None} \cup DOMAIN pending'
          /\ emitted' \in Seq(CommitSet)
      BY <1>0, <1>5, <2>2, <2>4 DEF AssemblerType, TypeOK
    <3>. QED  BY <3>1, <1>0, <1>4, <2>5, <2>6, TypesKept
  <2>8. EmittedPrefix'
    BY <1>0, <1>4, <2>2, ServerKept
  <2>9. ChunkRows(x, k, last)'
    <3>1. ChunkOf(x, last)'
      BY <1>4, <2>2, <2>5, ChunkKept DEF ChunkDue
    <3>2. ChunkRest(x, k, last)' = ChunkRest(x, k, last)
      BY <1>4, <2>2, WireKept
    <3>3. Resumed(x, k)'
      BY <1>4, <2>2, <2>3, <2>4, <2>6 DEF Resumed, StaleXid, connVars
    <3>. QED  BY <1>4, <2>2, <3>1, <3>2, <3>3 DEF ChunkRows
  <2>10. Synced'
    <3>1. k \in 0..Len(rows'[x])
      BY <1>4 DEF serverVars
    <3>2. Phase'
      BY <2>9, <3>1 DEF Phase
    <3>. QED  BY <1>0, <1>5, <2>2, <3>2 DEF Synced
  <2>. QED  BY <1>4, <2>2, <2>7, <2>8, <2>10, FedKeeps
<1>. QED  BY <1>6, <1>7

\* The rows of a chunk go to the bucket of its transaction.
LEMMA ChunkRowFed ==
    ASSUME AssemblerInv, error = "none", Feed, NEW x \in Xids,
           NEW k \in 0..Len(rows[x]), k < Len(rows[x]), NEW last \in BOOLEAN,
           ChunkRows(x, k, last), streaming_active <=> active_stream_xid # None
    PROVE  AssemblerInv'
<1>0. /\ ServerType /\ AssemblerType /\ Savepoints /\ EmittedPrefix /\ TypeOK
      /\ DOMAIN pending \subseteq Xids
      /\ x # None /\ rows[x] \in Seq(RowSet)
      /\ Len(history) \in Nat /\ Len(emitted) \in Nat /\ NextLsn \in Nat
  BY InvParts
<1>. DEFINE t == <<StopMsg>> \o After(x, last)
            m == [kind |-> "Row", sub |-> rows[x][k + 1].owner,
                  id |-> rows[x][k + 1].id, msg |-> rows[x][k + 1].msg,
                  prefixed |-> TRUE]
<1>1. t \in Seq(Messages) /\ t # <<>> /\ t[1].kind # "Row"
  <2>1. t \in Seq(Messages) /\ t # <<>> /\ t[1] = StopMsg
    BY <1>0, RestIs
  <2>. QED  BY <2>1 DEF StopMsg
<1>2. wire = RowMsgs(rows[x], k, TRUE) \o t
  BY DEF ChunkRows, ChunkRest
<1>. HIDE DEF t
<1>3. /\ UNCHANGED <<serverVars, connVars, streaming_active>>
      /\ \E n \in Nat \ {0}, ids \in Seq(1..MaxChange) :
           /\ k + n \in 0..Len(rows[x])
           /\ wire' = RowMsgs(rows[x], k + n, TRUE) \o t
           /\ \A i \in 1..n : rows[x][k + i].msg = rows[x][k + 1].msg
           /\ Len(ids) = n /\ \A i \in 1..n : ids[i] = rows[x][k + i].id
           /\ \/ TRUE # streaming_active /\ Raise("DecodeError")
              \/ TRUE = streaming_active /\ AppendChange(m, ids)
  BY <1>0, <1>1, <1>2, RowsDispatched
<1>. DEFINE s == rows[x][k + 1].owner
<1>4. m.sub = s
  OBVIOUS
<1>. HIDE DEF m
<1>5. UNCHANGED <<serverVars, connVars>> /\ streaming_active' = streaming_active
  BY <1>3
<1>6. /\ active_stream_xid = x /\ streaming_active = TRUE /\ ActiveXid = x
      /\ StaleXid /\ current_xid # x /\ x \in DOMAIN pending
      /\ Holds(pending[x], rows[x], k) /\ ChunkOf(x, last)
  <2>1. /\ active_stream_xid = x /\ StaleXid /\ current_xid # x /\ x \in DOMAIN pending
        /\ Holds(pending[x], rows[x], k) /\ ChunkOf(x, last)
    BY DEF ChunkRows, Resumed
  <2>2. streaming_active = TRUE
    BY <2>1, <1>0 DEF TypeOK
  <2>. QED  BY <2>1, <2>2, <1>0 DEF ActiveXid
<1>7. PICK n \in Nat \ {0}, ids \in Seq(1..MaxChange) :
           /\ k + n \in 0..Len(rows[x])
           /\ wire' = RowMsgs(rows[x], k + n, TRUE) \o t
           /\ \A i \in 1..n : rows[x][k + i].msg = rows[x][k + 1].msg
           /\ Len(ids) = n /\ \A i \in 1..n : ids[i] = rows[x][k + i].id
           /\ AppendChange(m, ids)
  BY <1>3, <1>6, Zenon
<1>8. /\ DOMAIN pending' = DOMAIN pending /\ SameElsewhere(x)
      /\ DOMAIN pending' \subseteq Xids
      /\ IsBucket(pending[x])'
      /\ pending'[x].changes = pending[x].changes \o ids
      /\ pending'[x].final_lsn = pending[x].final_lsn
      /\ pending'[x].bounds =
            Mark(pending[x], IF streaming_active THEN m.sub ELSE None)
      /\ UNCHANGED <<current_xid, active_stream_xid, emitted, error>>
  BY <1>6, <1>7, Appended
<1>9. /\ BucketOK(pending[x]) /\ pending[x].changes \in Seq(1..MaxChange)
      /\ Carries(pending[x], rows[x], k)
      /\ Marks(pending[x].bounds, OwnersOf(rows[x]), k)
  BY <1>0, <1>6 DEF TypeOK, BucketOK, Holds
<1>10. k \in Nat /\ Len(ids) = n /\ Numbers(ids, rows[x], k)
  BY <1>0, <1>7 DEF Numbers
<1>11. /\ pending'[x].changes \in Seq(1..MaxChange)
       /\ Carries(pending'[x], rows[x], k + Len(ids))
  BY <1>8, <1>9, <1>10, CarriesMore
<1>12. s # None /\ \A i \in 1..n : OwnersOf(rows[x])[k + i] = s
  <2>1. k + 1 \in 1..Len(rows[x]) /\ \A i \in 1..n : k + i \in 1..Len(rows[x])
    BY <1>0, <1>7
  <2>2. rows[x][k + 1] \in RowSet
    BY <2>1, <1>0
  <2>3. s \in Owners
    BY <2>2 DEF RowSet
  <2>4. s # None
    BY <2>3, BoundsAssumption DEF Owners, Xids, Subxids, None
  <2>5. \A i \in 1..n : rows[x][k + i].owner = s
    BY <2>1, <1>0, <1>7 DEF Savepoints, RowsInOrder
  <2>6. \A i \in 1..n : OwnersOf(rows[x])[k + i] = rows[x][k + i].owner
    <3>1. DOMAIN rows[x] = 1..Len(rows[x])
      BY <1>0
    <3>. QED  BY <2>1, <3>1 DEF OwnersOf
  <2>. QED  BY <2>4, <2>5, <2>6
<1>13. pending'[x].bounds =
          IF s \in DOMAIN pending[x].bounds THEN pending[x].bounds
          ELSE Put(pending[x].bounds, s, k)
  <2>1. pending'[x].bounds = Mark(pending[x], s)
    BY <1>4, <1>6, <1>8
  <2>2. Len(pending[x].changes) = k
    BY <1>9 DEF Carries
  <2>. HIDE DEF s
  <2>. QED  BY <2>1, <2>2, <1>12 DEF Mark
<1>14. Marks(pending'[x].bounds, OwnersOf(rows[x]), k + n)
  <2>. HIDE DEF s
  <2>1. /\ s \in DOMAIN pending[x].bounds =>
              Marks(pending[x].bounds, OwnersOf(rows[x]), k + n)
        /\ s \notin DOMAIN pending[x].bounds =>
              Marks(Put(pending[x].bounds, s, k), OwnersOf(rows[x]), k + n)
    BY <1>9, <1>10, <1>12, MarksMore
  <2>. QED  BY <1>13, <2>1
<1>15. Holds(pending'[x], rows[x], k + n)
  BY <1>10, <1>11, <1>14 DEF Holds
<1>16. Holds(pending[x], rows[x], k + n)'
  <2>1. rows' = rows
    BY <1>5 DEF serverVars
  <2>. QED  BY <1>15, <2>1
<1>17. BucketOK(pending[x])'
  <2>1. pending'[x].final_lsn \in 0..Len(history)
    BY <1>8, <1>9 DEF BucketOK
  <2>2. BucketOK(pending'[x])
    BY <2>1, <1>0, <1>7, <1>11, <1>15, HoldsTyped
  <2>. QED  BY <2>2, <1>5 DEF BucketOK, serverVars
<1>18. AssemblerType'
  <2>1. /\ streaming_active' \in BOOLEAN /\ error' = "none"
        /\ current_xid' \in {None} \cup DOMAIN pending'
        /\ active_stream_xid' \in {None} \cup DOMAIN pending'
        /\ emitted' \in Seq(CommitSet)
    BY <1>0, <1>5, <1>8 DEF TypeOK, AssemblerType
  <2>. QED  BY <2>1, <1>0, <1>5, <1>8, <1>17, TypesKept
<1>19. EmittedPrefix'
  BY <1>0, <1>5, <1>8, ServerKept
<1>20. ChunkRows(x, k + n, last)'
  <2>1. ChunkOf(x, last)'
    BY <1>5, <1>6, <1>8, ChunkKept
  <2>2. ChunkRest(x, k + n, last)' = ChunkRest(x, k + n, last)
    BY <1>5, <1>8, WireKept
  <2>3. Resumed(x, k + n)'
    BY <1>5, <1>6, <1>8, <1>16 DEF Resumed, StaleXid, connVars
  <2>4. wire' = ChunkRest(x, k + n, last)
    BY <1>7 DEF ChunkRest, t
  <2>. QED  BY <1>6, <1>8, <2>1, <2>2, <2>3, <2>4 DEF ChunkRows
<1>21. Synced'
  <2>1. k + n \in 0..Len(rows'[x])
    BY <1>5, <1>7 DEF serverVars
  <2>2. Phase'
    BY <1>20, <2>1 DEF Phase
  <2>. QED  BY <1>5, <1>8, <2>2 DEF Synced
<1>. QED  BY <1>5, <1>8, <1>18, <1>19, <1>21, FedKeeps

\* When x is fed as far as it was sent, every transaction is.
LEMMA RestAll ==
    ASSUME NEW x \in Xids, DOMAIN pending' \subseteq Xids,
           Rest(x)', x \in DOMAIN pending', streamed'[x] # {}, current_xid' # x,
           Holds(pending[x], rows[x], sent[x])'
    PROVE  Rest(None)'
<1>1. None \notin Xids
  BY BoundsAssumption DEF Xids, None
<1>2. ASSUME NEW y \in Xids \ {None}, streamed'[y] # {}
      PROVE  /\ y \in DOMAIN pending' /\ Holds(pending[y], rows[y], sent[y])'
             /\ y # current_xid'
  <2>1. CASE y = x
    BY <2>1
  <2>2. CASE y # x
    BY <2>2, <1>2 DEF Rest
  <2>. QED  BY <2>1, <2>2
<1>3. drops' = 0 =>
        DOMAIN pending' \ {None} = {y \in Xids \ {None} : streamed'[y] # {}}
  <2>. SUFFICES ASSUME drops' = 0
                PROVE  DOMAIN pending' \ {None} =
                          {y \in Xids \ {None} : streamed'[y] # {}}
    OBVIOUS
  <2>1. DOMAIN pending' \ {x} = {y \in Xids \ {x} : streamed'[y] # {}}
    BY DEF Rest
  <2>. QED  BY <2>1, <1>1
<1>. QED  BY <1>2, <1>3 DEF Rest

\* StreamStop ends the chunk.
LEMMA StopFed ==
    ASSUME AssemblerInv, error = "none", Feed, NEW x \in Xids,
           NEW last \in BOOLEAN, ChunkRows(x, Len(rows[x]), last)
    PROVE  AssemblerInv'
<1>0. /\ ServerType /\ AssemblerType /\ Savepoints /\ EmittedPrefix /\ TypeOK
      /\ DOMAIN pending \subseteq Xids
      /\ x # None /\ rows[x] \in Seq(RowSet)
      /\ Len(history) \in Nat /\ Len(emitted) \in Nat /\ NextLsn \in Nat
  BY InvParts
<1>. DEFINE k == Len(rows[x])
            t == <<StopMsg>> \o After(x, last)
<1>1. /\ k \in 0..Len(rows[x]) /\ StopMsg \in Messages /\ StopMsg.kind = "StreamStop"
      /\ t \in Seq(Messages) /\ t # <<>> /\ t[1].kind # "Row"
      /\ After(x, last) \in Seq(Messages)
  <2>1. k \in 0..Len(rows[x])
    BY <1>0
  <2>2. /\ StopMsg \in Messages /\ t \in Seq(Messages) /\ t # <<>> /\ t[1] = StopMsg
        /\ After(x, last) \in Seq(Messages)
    BY <2>1, <1>0, RestIs
  <2>. QED  BY <2>1, <2>2 DEF StopMsg
<1>2. wire = t
  <2>. HIDE DEF t
  <2>1. RowMsgs(rows[x], k, TRUE) \o t = t
    BY <1>0, <1>1, RowsThen
  <2>. QED  BY <2>1 DEF ChunkRows, ChunkRest, t
<1>. HIDE DEF k
<1>3. /\ wire' = After(x, last) /\ streaming_active' = DecodeFlag(StopMsg)
      /\ UNCHANGED <<serverVars, connVars>>
      /\ \E n \in Nat : Dispatch(StopMsg, n)
  BY <1>1, <1>2, OtherDispatched
<1>4. StreamStop /\ streaming_active' = FALSE
  BY <1>1, <1>3 DEF Dispatch, DecodeFlag
<1>5. /\ active_stream_xid' = None
      /\ UNCHANGED <<pending, current_xid, emitted, error>>
  BY <1>4 DEF StreamStop
<1>6. /\ StaleXid /\ current_xid # x /\ x \in DOMAIN pending
      /\ Holds(pending[x], rows[x], k) /\ ChunkOf(x, last)
  BY DEF ChunkRows, Resumed, k
<1>7. SameElsewhere(x) /\ DOMAIN pending' \subseteq Xids
  BY <1>0, <1>5 DEF SameElsewhere
<1>8. AssemblerType'
  <2>1. BucketOK(pending[x]) /\ IsBucket(pending[x])
    BY <1>0, <1>6 DEF AssemblerType, TypeOK
  <2>2. IsBucket(pending[x])' /\ BucketOK(pending[x])'
    BY <2>1, <1>3, <1>5 DEF IsBucket, BucketOK, serverVars
  <2>3. /\ streaming_active' \in BOOLEAN /\ error' = "none"
        /\ current_xid' \in {None} \cup DOMAIN pending'
        /\ active_stream_xid' \in {None} \cup DOMAIN pending'
        /\ emitted' \in Seq(CommitSet)
    BY <1>0, <1>4, <1>5 DEF TypeOK, AssemblerType
  <2>. QED  BY <2>2, <2>3, <1>0, <1>3, <1>7, TypesKept
<1>9. EmittedPrefix'
  BY <1>0, <1>3, <1>5, ServerKept
<1>10. ChunkOf(x, last)'
  BY <1>3, <1>5, <1>6, <1>7, ChunkKept
<1>11. Holds(pending[x], rows[x], Len(rows[x]))'
  <2>1. rows' = rows /\ pending' = pending
    BY <1>3, <1>5 DEF serverVars
  <2>. QED  BY <1>6, <2>1 DEF k
<1>12. CASE last = TRUE
  <2>1. After(x, TRUE)' = After(x, TRUE)
    BY <1>3, <1>5, WireKept
  <2>2. StreamCommitDue(x)'
    BY <1>3, <1>5, <1>6, <1>10, <1>11, <1>12, <2>1
       DEF StreamCommitDue, ChunkOf, Resumed, StaleXid, connVars
  <2>3. Synced'
    BY <2>2, <1>4, <1>5 DEF Synced, Phase
  <2>. QED  BY <1>3, <1>5, <1>8, <1>9, <2>3, FedKeeps
<1>13. CASE last = FALSE
  <2>1. wire' = <<>>
    BY <1>3, <1>13 DEF After
  <2>2. /\ Rest(x)' /\ Settled' /\ streamed'[x] # {}
        /\ sent'[x] = Len(rows'[x])
    BY <1>10, <1>13 DEF ChunkOf
  <2>3. Rest(None)'
    <3>1. current_xid' # x
      BY <1>5, <1>6
    <3>2. x \in DOMAIN pending' /\ Holds(pending[x], rows[x], sent[x])'
      BY <1>5, <1>6, <1>11, <2>2 DEF Holds
    <3>. QED  BY <1>7, <2>2, <3>1, <3>2, RestAll
  <2>4. Waiting'
    <3>1. StaleXid'
      BY <1>3, <1>5, <1>6 DEF StaleXid, connVars
    <3>. QED  BY <1>5, <2>1, <2>2, <2>3, <3>1 DEF Waiting, StaleStream
  <2>5. Synced'
    BY <2>4, <1>4, <1>5 DEF Synced, Phase
  <2>. QED  BY <1>3, <1>5, <1>8, <1>9, <2>5, FedKeeps
<1>. QED  BY <1>12, <1>13

\* StreamCommit emits the transaction.
LEMMA StreamCommitFed ==
    ASSUME AssemblerInv, error = "none", Feed, NEW x \in Xids, StreamCommitDue(x),
           streaming_active <=> active_stream_xid # None
    PROVE  AssemblerInv'
<1>0. /\ ServerType /\ AssemblerType /\ Savepoints /\ EmittedPrefix /\ TypeOK
      /\ DOMAIN pending \subseteq Xids
      /\ x # None /\ rows[x] \in Seq(RowSet)
      /\ Len(history) \in Nat /\ Len(emitted) \in Nat /\ NextLsn \in Nat
  BY InvParts
<1>. DEFINE m == StreamCommitMsg(x, NextLsn)
<1>1. /\ m \in Messages /\ m.kind = "StreamCommit" /\ m.lsn = NextLsn
      /\ m.xid = x
  <2>1. 0 \in 0..Len(rows[x])
    BY <1>0
  <2>2. m \in Messages
    BY <2>1, <1>0, RestIs
  <2>. QED  BY <2>2 DEF StreamCommitMsg
<1>2. wire = <<m>>
  BY DEF StreamCommitDue, After
<1>. HIDE DEF m
<1>3. /\ wire' = <<>> /\ streaming_active' = DecodeFlag(m)
      /\ UNCHANGED <<serverVars, connVars>>
      /\ \E n \in Nat : Dispatch(m, n)
  BY <1>1, <1>2, LastDispatched
<1>4. StreamCommit(m) /\ streaming_active' = streaming_active
  BY <1>1, <1>3 DEF Dispatch, DecodeFlag
<1>5. /\ StaleXid /\ current_xid # x
      /\ x \in DOMAIN pending /\ active_stream_xid = None
      /\ Committing(x) /\ Rest(x) /\ Holds(pending[x], rows[x], Len(rows[x]))
  BY DEF StreamCommitDue, Resumed
<1>6. /\ BuildTransaction(x, NextLsn) /\ current_xid' = current_xid
      /\ active_stream_xid' = None /\ error' = error
  BY <1>0, <1>1, <1>4, <1>5 DEF StreamCommit, LeaveStream
<1>7. /\ EmittedPrefix' /\ Settled' /\ emitted' \in Seq(CommitSet)
      /\ DOMAIN pending' = DOMAIN pending \ {x}
      /\ SameElsewhere(x) /\ Rest(None)'
  BY <1>3, <1>5, <1>6, Built DEF Holds
<1>8. AssemblerType'
  <2>1. /\ streaming_active' \in BOOLEAN /\ error' = "none"
        /\ current_xid' \in {None} \cup DOMAIN pending'
        /\ active_stream_xid' \in {None} \cup DOMAIN pending'
        /\ x \notin DOMAIN pending' /\ DOMAIN pending' \subseteq Xids
    BY <1>0, <1>4, <1>5, <1>6, <1>7 DEF TypeOK
  <2>. QED  BY <2>1, <1>0, <1>3, <1>7, TypesKept
<1>9. Waiting'
  <2>1. StaleXid'
    BY <1>3, <1>5, <1>6 DEF StaleXid, connVars
  <2>. QED  BY <1>3, <1>6, <1>7, <2>1 DEF Waiting, StaleStream
<1>10. Synced'
  BY <1>4, <1>5, <1>6, <1>9 DEF Synced, Phase
<1>. QED  BY <1>3, <1>6, <1>7, <1>8, <1>10, FedKeeps

-----------------------------------------------------------------------------
(* Aborts *)

\* Cutting a bucket keeps its type.
LEMMA CutTyped ==
    ASSUME NEW b, IsBucket(b), BucketOK(b), NEW s \in DOMAIN b.bounds
    PROVE  /\ IsBucket(Truncated(b, s)) /\ BucketOK(Truncated(b, s))
           /\ Truncated(b, s).changes = SubSeq(b.changes, 1, b.bounds[s])
           /\ Truncated(b, s).bounds =
                [r \in {q \in DOMAIN b.bounds \ {s} : b.bounds[q] < b.bounds[s]} |->
                    b.bounds[r]]
<1>. DEFINE n == b.bounds[s]
            kept == {q \in DOMAIN b.bounds \ {s} : b.bounds[q] < n}
            c == SubSeq(b.changes, 1, n)
            m == [r \in kept |-> b.bounds[r]]
            d == Truncated(b, s)
<1>1. d = [b EXCEPT !.changes = c, !.bounds = m]
  BY DEF Truncated
<1>. HIDE DEF d
<1>2. d = [changes |-> c, final_lsn |-> b.final_lsn, bounds |-> m]
  BY <1>1, BucketUpdate
<1>3. /\ b.changes \in Seq(1..MaxChange) /\ n \in 0..(Len(b.changes) - 1)
      /\ DOMAIN b.bounds \subseteq Xids \cup Subxids
      /\ b.final_lsn \in 0..Len(history)
  BY DEF BucketOK
<1>4. c \in Seq(1..MaxChange) /\ Len(c) = n
  <2>1. n \in 0..Len(b.changes)
    BY <1>3
  <2>. QED  BY <2>1, <1>3, FirstOnes
<1>5. /\ DOMAIN m \subseteq Xids \cup Subxids
      /\ \A r \in DOMAIN m : m[r] \in 0..(n - 1)
  <2>1. \A r \in kept : b.bounds[r] \in 0..(n - 1)
    BY <1>3 DEF BucketOK
  <2>. QED  BY <2>1, <1>3
<1>. HIDE DEF c, m
<1>6. /\ IsBucket(d) /\ d.changes = c /\ d.bounds = m /\ d.final_lsn = b.final_lsn
  BY <1>2 DEF IsBucket
<1>7. BucketOK(d)
  BY <1>3, <1>4, <1>5, <1>6 DEF BucketOK
<1>. QED  BY <1>6, <1>7 DEF c, m, d

\* An abort that finds rows of s cuts the bucket there.
LEMMA UndoneCut ==
    ASSUME NEW b, NEW seq, NEW n \in Nat, NEW due, NEW s \in due, NEW due2,
           due \subseteq due2 \cup {s}, due2 \subseteq due, Undoing(b, seq, n, due),
           b.changes \in Seq(1..MaxChange), s \in DOMAIN b.bounds, NEW d,
           d.changes = SubSeq(b.changes, 1, b.bounds[s]),
           d.bounds = [r \in {q \in DOMAIN b.bounds \ {s} : b.bounds[q] < b.bounds[s]}
                          |-> b.bounds[r]]
    PROVE  Undoing(d, seq, n, due2)
<1>. DEFINE L == Len(b.changes)
            k == b.bounds[s]
<1>1. L \in Nat /\ L >= n /\ \A i \in 1..n : b.changes[i] = seq[i].id
  BY DEF Undoing
<1>2. PICK own \in [1..L -> Owners] :
         /\ Marks(b.bounds, own, L)
         /\ \A i \in 1..L : IF i <= n THEN own[i] = seq[i].owner /\ own[i] \notin due
                            ELSE own[i] \in due
  BY DEF Undoing
<1>3. k \in 0..(L - 1) /\ own[k + 1] = s /\ \A i \in 1..k : own[i] # s
  BY <1>2 DEF Marks
<1>4. Marks(d.bounds, own, k)
  <2>. DEFINE kept == {q \in DOMAIN b.bounds \ {s} : b.bounds[q] < k}
  <2>1. Marks([r \in kept |-> b.bounds[r]], own, k)
    BY <1>1, <1>2, MarksCut
  <2>. QED  BY <2>1
<1>. HIDE DEF L, k
<1>5. k >= n
  <2>. SUFFICES ASSUME k < n PROVE FALSE
    BY <1>1, <1>3
  <2>1. k + 1 \in 1..L /\ k + 1 <= n
    BY <1>1, <1>3
  <2>. QED  BY <2>1, <1>2, <1>3
<1>6. /\ Len(d.changes) = k /\ \A i \in 1..k : d.changes[i] = b.changes[i]
  <2>1. k \in 0..Len(b.changes) /\ d.changes = SubSeq(b.changes, 1, k)
    BY <1>1, <1>3 DEF L, k
  <2>2. PICK c \in Seq(1..MaxChange) : c = b.changes
    OBVIOUS
  <2>3. k \in 0..Len(c)
    BY <2>1, <2>2
  <2>4. Len(SubSeq(c, 1, k)) = k /\ \A i \in 1..k : SubSeq(c, 1, k)[i] = c[i]
    BY <2>3, FirstOnes
  <2>. QED  BY <2>1, <2>2, <2>4
<1>. DEFINE o == [i \in 1..k |-> own[i]]
<1>7. o \in [1..k -> Owners] /\ \A i \in 1..k : o[i] = own[i]
  BY <1>1, <1>2, <1>3
<1>. HIDE DEF o
<1>8. Marks(d.bounds, o, k)
  <2>1. k \in Nat /\ \A i \in 1..k : own[i] = o[i]
    BY <1>1, <1>3, <1>7
  <2>. QED  BY <2>1, <1>4, MarksSame
<1>9. ASSUME NEW i \in 1..k
      PROVE  IF i <= n THEN o[i] = seq[i].owner /\ o[i] \notin due2
             ELSE o[i] \in due2
  <2>1. i \in 1..L /\ o[i] = own[i] /\ own[i] # s
    BY <1>1, <1>3, <1>7
  <2>. QED  BY <2>1, <1>2
<1>10. \A i \in 1..n : d.changes[i] = seq[i].id
  <2>1. \A i \in 1..n : i \in 1..k
    BY <1>1, <1>3, <1>5
  <2>. QED  BY <2>1, <1>1, <1>6
<1>. QED  BY <1>5, <1>6, <1>7, <1>8, <1>9, <1>10 DEF Undoing

\* An abort that finds none changes nothing.
LEMMA UndoneSkip ==
    ASSUME NEW b, NEW seq, NEW n \in Nat, NEW due, NEW s \in due, NEW due2,
           due \subseteq due2 \cup {s}, due2 \subseteq due, Undoing(b, seq, n, due),
           s \notin DOMAIN b.bounds
    PROVE  Undoing(b, seq, n, due2)
<1>. DEFINE L == Len(b.changes)
<1>1. PICK own \in [1..L -> Owners] :
         /\ Marks(b.bounds, own, L)
         /\ \A i \in 1..L : IF i <= n THEN own[i] = seq[i].owner /\ own[i] \notin due
                            ELSE own[i] \in due
  BY DEF Undoing
<1>2. \A i \in 1..L : own[i] # s
  BY <1>1 DEF Marks
<1>3. \A i \in 1..L : IF i <= n THEN own[i] = seq[i].owner /\ own[i] \notin due2
                      ELSE own[i] \in due2
  BY <1>1, <1>2
<1>4. L >= n /\ \A i \in 1..n : b.changes[i] = seq[i].id
  BY DEF Undoing
<1>. QED  BY <1>1, <1>3, <1>4 DEF Undoing

\* When no abort is due any more, exactly the rows that stay are buffered.
LEMMA UndoneAll ==
    ASSUME NEW b, b.changes \in Seq(1..MaxChange), NEW seq \in Seq(RowSet),
           NEW n \in 0..Len(seq), Undoing(b, seq, n, {})
    PROVE  Holds(b, seq, n)
<1>. DEFINE L == Len(b.changes)
<1>1. PICK own \in [1..L -> Owners] :
         /\ Marks(b.bounds, own, L)
         /\ \A i \in 1..L : IF i <= n THEN own[i] = seq[i].owner /\ own[i] \notin {}
                            ELSE own[i] \in {}
  BY DEF Undoing
<1>2. L \in Nat /\ L >= n /\ \A i \in 1..n : b.changes[i] = seq[i].id
  BY DEF Undoing
<1>. HIDE DEF L
<1>3. L = n
  <2>. SUFFICES ASSUME L > n PROVE FALSE
    BY <1>2
  <2>1. L \in 1..L /\ ~(L <= n)
    BY <1>2
  <2>. QED  BY <2>1, <1>1
<1>4. Carries(b, seq, n)
  BY <1>2, <1>3 DEF Carries, L
<1>5. \A i \in 1..n : own[i] = OwnersOf(seq)[i]
  <2>. TAKE i \in 1..n
  <2>1. i \in DOMAIN seq /\ i \in 1..L /\ i <= n
    BY <1>3
  <2>2. OwnersOf(seq)[i] = seq[i].owner
    BY <2>1 DEF OwnersOf
  <2>. QED  BY <2>1, <2>2, <1>1
<1>6. Marks(b.bounds, OwnersOf(seq), n)
  <2>1. n \in Nat /\ Marks(b.bounds, own, n)
    BY <1>1, <1>3
  <2>. QED  BY <2>1, <1>5, MarksSame
<1>. QED  BY <1>4, <1>6 DEF Holds

\* One abort fed.
LEMMA AbortDispatched ==
    ASSUME Feed, NEW x \in Xids, AbortsOf(x)
    PROVE  /\ UNCHANGED <<serverVars, connVars>>
           /\ streaming_active' = streaming_active
           /\ \E s \in Owners : wire[1] = AbortMsg(x, s) /\ StreamAbort(AbortMsg(x, s))
           /\ Len(wire) \in Nat \ {0} /\ Len(wire') = Len(wire) - 1
           /\ wire' \in Seq({AbortMsg(x, s) : s \in Owners})
           /\ \A i \in 1..Len(wire') : wire'[i] = wire[i + 1]
<1>. DEFINE S == {AbortMsg(x, s) : s \in Owners}
<1>1. wire \in Seq(S) /\ wire # <<>>
  BY DEF AbortsOf
<1>. HIDE DEF S
<1>2. Len(wire) \in Nat \ {0} /\ wire[1] \in S
  BY <1>1
<1>3. PICK s \in Owners : wire[1] = AbortMsg(x, s)
  BY <1>2 DEF S
<1>4. PICK n \in 1..Len(wire) :
          /\ OneMessage(n)
          /\ streaming_active' = DecodeFlag(wire[1])
          /\ IF Misparsed(wire[1]) THEN Raise("DecodeError") ELSE Dispatch(wire[1], n)
          /\ wire' = SubSeq(wire, n + 1, Len(wire))
  BY DEF Feed
<1>5. wire[1].kind = "StreamAbort"
  BY <1>3 DEF AbortMsg
<1>6. n = 1
  <2>1. n > 1 => wire[1].kind = "Row"
    BY <1>2, <1>4 DEF OneMessage
  <2>. QED  BY <2>1, <1>2, <1>5
<1>7. Dispatch(wire[1], n) /\ streaming_active' = streaming_active
  BY <1>4, <1>5 DEF Misparsed, DecodeFlag
<1>8. StreamAbort(AbortMsg(x, s))
  BY <1>3, <1>5, <1>7 DEF Dispatch
<1>9. /\ wire' \in Seq(S) /\ Len(wire') = Len(wire) - 1
      /\ \A i \in 1..Len(wire') : wire'[i] = wire[i + 1]
  <2>1. wire' = SubSeq(wire, 2, Len(wire))
    BY <1>4, <1>6
  <2>2. \A i \in 2..Len(wire) : wire[i] \in S
    BY <1>1
  <2>3. /\ wire' \in Seq(S)
        /\ Len(wire') = IF 2 <= Len(wire) THEN Len(wire) - 2 + 1 ELSE 0
        /\ \A i \in 1..(Len(wire) - 2 + 1) : wire'[i] = wire[2 + i - 1]
    BY <1>2, <2>1, <2>2, SubSeqProperties
  <2>4. Len(wire') = Len(wire) - 1
    <3>1. PICK l \in Nat \ {0} : l = Len(wire)
      BY <1>2
    <3>2. Len(wire') = IF 2 <= l THEN l - 2 + 1 ELSE 0
      BY <2>3, <3>1
    <3>3. (IF 2 <= l THEN l - 2 + 1 ELSE 0) = l - 1
      OBVIOUS
    <3>. QED  BY <3>1, <3>2, <3>3
  <2>5. ASSUME NEW i \in 1..Len(wire') PROVE wire'[i] = wire[i + 1]
    <3>1. i \in 1..(Len(wire) - 2 + 1) /\ 2 + i - 1 = i + 1
      BY <1>2, <2>4
    <3>. QED  BY <3>1, <2>3
  <2>. QED  BY <2>3, <2>4, <2>5
<1>. QED  BY <1>2, <1>3, <1>7, <1>8, <1>9 DEF Feed, S

\* The abort of a subtransaction touches only the bucket of its transaction.
LEMMA SubAborted ==
    ASSUME AssemblerInv, NEW x \in Xids, NEW s \in Owners, s # x,
           StreamAbort(AbortMsg(x, s)), UNCHANGED <<serverVars, connVars>>,
           streaming_active' = streaming_active, error = "none"
    PROVE  /\ DOMAIN pending' = DOMAIN pending /\ SameElsewhere(x)
           /\ UNCHANGED <<current_xid, active_stream_xid, emitted, error>>
           /\ x \in DOMAIN pending =>
                 IF s \in DOMAIN pending[x].bounds
                 THEN pending'[x] = Truncated(pending[x], s)
                 ELSE pending'[x] = pending[x]
           /\ AssemblerType' /\ EmittedPrefix'
<1>0. /\ ServerType /\ AssemblerType /\ Savepoints /\ EmittedPrefix /\ TypeOK
      /\ DOMAIN pending \subseteq Xids
  BY InvParts
<1>1. /\ pending' =
            IF x \in DOMAIN pending /\ s \in DOMAIN pending[x].bounds
            THEN [pending EXCEPT ![x] = Truncated(@, s)]
            ELSE pending
      /\ UNCHANGED <<current_xid, active_stream_xid, emitted, error>>
  BY DEF StreamAbort, AbortMsg
<1>2. /\ DOMAIN pending' = DOMAIN pending
      /\ \A y \in DOMAIN pending \ {x} : pending'[y] = pending[y]
      /\ x \in DOMAIN pending =>
            IF s \in DOMAIN pending[x].bounds
            THEN pending'[x] = Truncated(pending[x], s)
            ELSE pending'[x] = pending[x]
  BY <1>1
<1>3. SameElsewhere(x) /\ DOMAIN pending' \subseteq Xids
  BY <1>0, <1>2 DEF SameElsewhere
<1>4. x \in DOMAIN pending' => IsBucket(pending[x])' /\ BucketOK(pending[x])'
  <2>. SUFFICES ASSUME x \in DOMAIN pending
                PROVE  IsBucket(pending[x])' /\ BucketOK(pending[x])'
    BY <1>2
  <2>1. IsBucket(pending[x]) /\ BucketOK(pending[x])
    BY <1>0 DEF AssemblerType, TypeOK
  <2>2. IsBucket(pending'[x]) /\ BucketOK(pending'[x])
    <3>1. CASE s \in DOMAIN pending[x].bounds
      <4>1. pending'[x] = Truncated(pending[x], s)
        BY <1>2, <3>1
      <4>2. /\ IsBucket(Truncated(pending[x], s))
            /\ BucketOK(Truncated(pending[x], s))
        BY <2>1, <3>1, CutTyped
      <4>. QED  BY <4>1, <4>2
    <3>2. CASE s \notin DOMAIN pending[x].bounds
      BY <1>2, <2>1, <3>2
    <3>. QED  BY <3>1, <3>2
  <2>3. history' = history
    BY DEF serverVars
  <2>. QED  BY <2>2, <2>3 DEF IsBucket, BucketOK
<1>5. AssemblerType'
  <2>1. /\ streaming_active' \in BOOLEAN /\ error' = "none"
        /\ current_xid' \in {None} \cup DOMAIN pending'
        /\ active_stream_xid' \in {None} \cup DOMAIN pending'
        /\ emitted' \in Seq(CommitSet)
    BY <1>0, <1>1, <1>2 DEF TypeOK, AssemblerType
  <2>. QED  BY <2>1, <1>0, <1>3, <1>4, TypesKept
<1>6. EmittedPrefix'
  BY <1>0, <1>1, ServerKept
<1>. QED  BY <1>1, <1>2, <1>3, <1>5, <1>6

\* The abort of a rolled back subtransaction.
LEMMA RollbackFed ==
    ASSUME AssemblerInv, error = "none", Feed, NEW x \in Xids, RollingBack(x),
           streaming_active <=> active_stream_xid # None
    PROVE  AssemblerInv'
<1>0. /\ ServerType /\ AssemblerType /\ Savepoints /\ EmittedPrefix /\ TypeOK
      /\ DOMAIN pending \subseteq Xids
      /\ x # None /\ rows[x] \in Seq(RowSet)
  BY InvParts
<1>1. /\ AbortsOf(x) /\ x \in open /\ x \notin Due /\ streamed[x] # {}
      /\ x \in DOMAIN pending /\ Undoing(pending[x], rows[x], sent[x], Due)
      /\ Rest(x) /\ Settled /\ StaleXid /\ current_xid # x /\ active_stream_xid = None
  BY DEF RollingBack, AbortsOf
<1>2. /\ UNCHANGED <<serverVars, connVars>>
      /\ streaming_active' = streaming_active
      /\ \E s \in Owners : wire[1] = AbortMsg(x, s) /\ StreamAbort(AbortMsg(x, s))
      /\ Len(wire) \in Nat \ {0} /\ Len(wire') = Len(wire) - 1
      /\ wire' \in Seq({AbortMsg(x, s) : s \in Owners})
      /\ \A i \in 1..Len(wire') : wire'[i] = wire[i + 1]
  BY <1>1, AbortDispatched
<1>3. PICK s \in Owners : wire[1] = AbortMsg(x, s) /\ StreamAbort(AbortMsg(x, s))
  BY <1>2
<1>4. s \in Due
  <2>1. wire[1].sub = s
    BY <1>3 DEF AbortMsg
  <2>. QED  BY <1>2, <2>1 DEF Due
<1>5. Due \subseteq Due' \cup {s} /\ Due' \subseteq Due
  <2>1. ASSUME NEW i \in 1..Len(wire), wire[i].sub # s PROVE wire[i].sub \in Due'
    <3>1. i # 1
      BY <1>3, <2>1 DEF AbortMsg
    <3>2. i - 1 \in 1..Len(wire') /\ (i - 1) + 1 = i
      BY <1>2, <3>1
    <3>3. wire'[i - 1] = wire[(i - 1) + 1]
      BY <1>2, <3>2
    <3>4. wire'[i - 1].sub = wire[i].sub
      BY <3>2, <3>3
    <3>. QED  BY <3>2, <3>4 DEF Due
  <2>2. ASSUME NEW i \in 1..Len(wire') PROVE wire'[i].sub \in Due
    <3>1. i + 1 \in 1..Len(wire) /\ wire'[i] = wire[i + 1]
      BY <1>2
    <3>. QED  BY <3>1 DEF Due
  <2>. QED  BY <2>1, <2>2 DEF Due
<1>6. s # x
  BY <1>1, <1>4
<1>7. /\ DOMAIN pending' = DOMAIN pending /\ SameElsewhere(x)
      /\ UNCHANGED <<current_xid, active_stream_xid, emitted, error>>
      /\ IF s \in DOMAIN pending[x].bounds
         THEN pending'[x] = Truncated(pending[x], s)
         ELSE pending'[x] = pending[x]
      /\ AssemblerType' /\ EmittedPrefix'
  BY <1>1, <1>2, <1>3, <1>6, SubAborted
<1>8. sent[x] \in Nat /\ sent[x] <= Len(rows[x])
  BY <1>0 DEF ServerType, Savepoints, RowsInOrder
<1>9. Undoing(pending'[x], rows[x], sent[x], Due')
  <2>1. CASE s \in DOMAIN pending[x].bounds
    <3>1. IsBucket(pending[x]) /\ BucketOK(pending[x])
      BY <1>0, <1>1 DEF AssemblerType, TypeOK
    <3>2. pending[x].changes \in Seq(1..MaxChange)
      BY <3>1 DEF BucketOK
    <3>3. pending'[x] = Truncated(pending[x], s)
      BY <1>7, <2>1
    <3>4. /\ Truncated(pending[x], s).changes =
                SubSeq(pending[x].changes, 1, pending[x].bounds[s])
          /\ Truncated(pending[x], s).bounds =
                [r \in {q \in DOMAIN pending[x].bounds \ {s} :
                           pending[x].bounds[q] < pending[x].bounds[s]} |->
                    pending[x].bounds[r]]
      BY <2>1, <3>1, CutTyped
    <3>5. PICK b, d, due2 : b = pending[x] /\ d = pending'[x] /\ due2 = Due'
      OBVIOUS
    <3>6. /\ d.changes = SubSeq(b.changes, 1, b.bounds[s])
          /\ d.bounds = [r \in {q \in DOMAIN b.bounds \ {s} :
                                  b.bounds[q] < b.bounds[s]} |-> b.bounds[r]]
      BY <3>3, <3>4, <3>5
    <3>7. /\ s \in DOMAIN b.bounds /\ b.changes \in Seq(1..MaxChange)
          /\ Undoing(b, rows[x], sent[x], Due)
          /\ Due \subseteq due2 \cup {s} /\ due2 \subseteq Due
      BY <1>1, <1>5, <2>1, <3>2, <3>5
    <3>8. Undoing(d, rows[x], sent[x], due2)
      BY <1>4, <1>8, <3>6, <3>7, UndoneCut
    <3>. QED  BY <3>5, <3>8
  <2>2. CASE s \notin DOMAIN pending[x].bounds
    <3>1. pending'[x] = pending[x]
      BY <1>7, <2>2
    <3>2. PICK due2 : due2 = Due'
      OBVIOUS
    <3>3. Due \subseteq due2 \cup {s} /\ due2 \subseteq Due
      BY <1>5, <3>2
    <3>4. Undoing(pending[x], rows[x], sent[x], due2)
      BY <1>1, <1>4, <1>8, <2>2, <3>3, UndoneSkip
    <3>. QED  BY <3>1, <3>2, <3>4
  <2>. QED  BY <2>1, <2>2
<1>10. Rest(x)' /\ DOMAIN pending' \subseteq Xids
  BY <1>0, <1>1, <1>2, <1>7, RestKept
<1>11. /\ Settled' /\ StaleXid' /\ x \in open' /\ streamed'[x] # {}
       /\ rows' = rows /\ sent' = sent
  <2>1. Settled'
    BY <1>1, <1>2, <1>7, WireKept
  <2>2. StaleXid'
    BY <1>1, <1>2, <1>7 DEF StaleXid, connVars
  <2>. QED  BY <2>1, <2>2, <1>1, <1>2 DEF serverVars
<1>12. CASE wire' = <<>>
  <2>1. Due' = {}
    BY <1>12 DEF Due
  <2>2. Undoing(pending'[x], rows[x], sent[x], {})
    BY <1>9, <2>1
  <2>3. pending'[x].changes \in Seq(1..MaxChange)
    BY <1>1, <1>7 DEF AssemblerType, TypeOK, BucketOK
  <2>4. Holds(pending'[x], rows[x], sent[x])
    <3>1. sent[x] \in 0..Len(rows[x])
      BY <1>0, <1>8
    <3>. QED  BY <1>0, <2>2, <2>3, <3>1, UndoneAll
  <2>5. Holds(pending[x], rows[x], sent[x])'
    BY <2>4, <1>11
  <2>6. Rest(None)'
    BY <1>1, <1>7, <1>10, <1>11, <2>5, RestAll
  <2>7. Waiting'
    BY <1>1, <1>7, <1>11, <1>12, <2>6 DEF Waiting, StaleStream
  <2>8. Synced'
    BY <1>2, <1>7, <2>7 DEF Synced, Phase
  <2>. QED  BY <1>2, <1>7, <2>8, FedKeeps
<1>13. CASE wire' # <<>>
  <2>1. AbortsOf(x)'
    BY <1>1, <1>2, <1>7, <1>10, <1>11, <1>13 DEF AbortsOf, AbortMsg
  <2>2. RollingBack(x)'
    BY <1>1, <1>5, <1>7, <1>9, <1>11, <2>1 DEF RollingBack
  <2>3. Synced'
    BY <1>2, <1>7, <2>2 DEF Synced, Phase
  <2>. QED  BY <1>2, <1>7, <2>3, FedKeeps
<1>. QED  BY <1>12, <1>13

\* The abort of a transaction, after those of its subtransactions.
LEMMA AbortFed ==
    ASSUME AssemblerInv, error = "none", Feed, NEW x \in Xids, Aborting(x),
           streaming_active <=> active_stream_xid # None
    PROVE  AssemblerInv'
<1>0. /\ ServerType /\ AssemblerType /\ Savepoints /\ EmittedPrefix /\ TypeOK
      /\ DOMAIN pending \subseteq Xids
      /\ x # None /\ rows[x] \in Seq(RowSet)
  BY InvParts
<1>1. /\ AbortsOf(x) /\ streamed[x] = {}
      /\ \A i \in 1..Len(wire) : wire[i].sub = x <=> i = Len(wire)
      /\ Rest(x) /\ Settled /\ StaleXid /\ current_xid # x /\ active_stream_xid = None
  BY DEF Aborting, AbortsOf
<1>2. /\ UNCHANGED <<serverVars, connVars>>
      /\ streaming_active' = streaming_active
      /\ \E s \in Owners : wire[1] = AbortMsg(x, s) /\ StreamAbort(AbortMsg(x, s))
      /\ Len(wire) \in Nat \ {0} /\ Len(wire') = Len(wire) - 1
      /\ wire' \in Seq({AbortMsg(x, s) : s \in Owners})
      /\ \A i \in 1..Len(wire') : wire'[i] = wire[i + 1]
  BY <1>1, AbortDispatched
<1>3. PICK s \in Owners : wire[1] = AbortMsg(x, s) /\ StreamAbort(AbortMsg(x, s))
  BY <1>2
<1>4. s = x <=> Len(wire) = 1
  <2>1. wire[1].sub = s /\ 1 \in 1..Len(wire)
    BY <1>2, <1>3 DEF AbortMsg
  <2>. QED  BY <1>1, <2>1
<1>5. CASE s # x
  <2>1. /\ DOMAIN pending' = DOMAIN pending /\ SameElsewhere(x)
        /\ UNCHANGED <<current_xid, active_stream_xid, emitted, error>>
        /\ AssemblerType' /\ EmittedPrefix'
    BY <1>1, <1>2, <1>3, <1>5, SubAborted
  <2>2. Rest(x)' /\ Settled' /\ StaleXid' /\ streamed'[x] = {}
    <3>1. Rest(x)'
      BY <1>0, <1>1, <1>2, <2>1, RestKept
    <3>2. Settled'
      BY <1>1, <1>2, <2>1, WireKept
    <3>3. StaleXid'
      BY <1>1, <1>2, <2>1 DEF StaleXid, connVars
    <3>. QED  BY <3>1, <3>2, <3>3, <1>1, <1>2 DEF serverVars
  <2>3. wire' # <<>>
    BY <1>2, <1>4, <1>5
  <2>4. \A i \in 1..Len(wire') : wire'[i].sub = x <=> i = Len(wire')
    <3>. TAKE i \in 1..Len(wire')
    <3>1. i + 1 \in 1..Len(wire) /\ wire'[i] = wire[i + 1]
      BY <1>2
    <3>2. wire[i + 1].sub = x <=> i + 1 = Len(wire)
      BY <1>1, <3>1
    <3>. QED  BY <1>2, <3>1, <3>2
  <2>5. AbortsOf(x)'
    BY <1>1, <1>2, <2>1, <2>2, <2>3 DEF AbortsOf, AbortMsg
  <2>6. Aborting(x)'
    BY <2>2, <2>4, <2>5 DEF Aborting
  <2>7. Synced'
    BY <1>2, <2>1, <2>6 DEF Synced, Phase
  <2>. QED  BY <1>2, <2>1, <2>7, FedKeeps
<1>6. CASE s = x
  <2>1. /\ pending' = Remove1(pending, x) /\ active_stream_xid' = None
        /\ UNCHANGED <<current_xid, emitted, error>>
    BY <1>0, <1>1, <1>3, <1>6 DEF StreamAbort, AbortMsg, LeaveStream
  <2>2. /\ DOMAIN pending' = DOMAIN pending \ {x}
        /\ \A y \in DOMAIN pending' : pending'[y] = pending[y]
    BY <2>1 DEF Remove1
  <2>3. SameElsewhere(x) /\ DOMAIN pending' \subseteq Xids
    BY <1>0, <2>2 DEF SameElsewhere
  <2>4. AssemblerType'
    <3>1. /\ streaming_active' \in BOOLEAN /\ error' = "none"
          /\ current_xid' \in {None} \cup DOMAIN pending'
          /\ active_stream_xid' \in {None} \cup DOMAIN pending'
          /\ emitted' \in Seq(CommitSet) /\ x \notin DOMAIN pending'
      BY <1>0, <1>1, <1>2, <2>1, <2>2 DEF TypeOK, AssemblerType
    <3>. QED  BY <3>1, <1>0, <1>2, <2>3, TypesKept
  <2>5. EmittedPrefix' /\ Settled' /\ StaleXid'
    <3>1. EmittedPrefix'
      BY <1>0, <1>2, <2>1, ServerKept
    <3>2. Settled'
      BY <1>1, <1>2, <2>1, WireKept
    <3>3. StaleXid'
      BY <1>1, <1>2, <2>1 DEF StaleXid, connVars
    <3>. QED  BY <3>1, <3>2, <3>3
  <2>6. Rest(None)'
    <3>1. Rest(x)'
      BY <1>0, <1>1, <1>2, <2>1, <2>3, RestKept
    <3>2. streamed'[x] = {} /\ x \notin DOMAIN pending' /\ None \notin Xids
      BY <1>1, <1>2, <2>2, BoundsAssumption DEF serverVars, Xids, None
    <3>. QED  BY <3>1, <3>2, <2>3, RestWithout
  <2>7. wire' = <<>>
    <3>1. Len(wire') = 0
      <4>1. Len(wire') = Len(wire) - 1 /\ Len(wire) = 1
        BY <1>2, <1>4, <1>6, Zenon
      <4>. QED  BY <4>1
    <3>2. PICK S : wire' \in Seq(S)
      BY <1>2
    <3>. QED  BY <3>1, <3>2
  <2>8. Waiting'
    BY <1>1, <2>1, <2>5, <2>6, <2>7 DEF Waiting, StaleStream
  <2>9. Synced'
    BY <1>1, <1>2, <2>1, <2>8 DEF Synced, Phase
  <2>. QED  BY <1>2, <2>1, <2>4, <2>5, <2>9, FedKeeps
<1>. QED  BY <1>5, <1>6

\* Feeding a message keeps the invariant, whatever is on the wire.
LEMMA FeedKeeps ==
    ASSUME AssemblerInv, Feed
    PROVE  AssemblerInv'
<1>1. error = "none" /\ wire # <<>>
  BY DEF Feed
<1>2. Phase /\ (streaming_active <=> active_stream_xid # None)
  BY <1>1 DEF AssemblerInv, Synced
<1>3. ~Waiting
  BY <1>1 DEF Waiting
<1>4. PICK x \in Xids :
          \/ PlainDue(x) \/ StreamCommitDue(x) \/ RollingBack(x) \/ Aborting(x)
          \/ \E k \in 0..Len(rows[x]) :
                \/ PlainRows(x, k)
                \/ \E last \in BOOLEAN :
                      \/ ChunkRows(x, k, last)
                      \/ \E first \in BOOLEAN : ChunkDue(x, k, first, last)
  BY <1>2, <1>3 DEF Phase
<1>. Len(rows[x]) \in Nat
  BY InvParts
<1>5. CASE PlainDue(x)
  BY <1>1, <1>2, <1>5, BeginFed
<1>6. CASE StreamCommitDue(x)
  BY <1>1, <1>2, <1>6, StreamCommitFed
<1>7. CASE RollingBack(x)
  BY <1>1, <1>2, <1>7, RollbackFed
<1>8. CASE Aborting(x)
  BY <1>1, <1>2, <1>8, AbortFed
<1>9. ASSUME NEW k \in 0..Len(rows[x]), PlainRows(x, k) PROVE AssemblerInv'
  <2>1. CASE k < Len(rows[x])
    BY <1>1, <1>2, <1>9, <2>1, PlainRowFed
  <2>2. CASE k = Len(rows[x])
    BY <1>1, <1>2, <1>9, <2>2, CommitFed
  <2>. QED  BY <2>1, <2>2
<1>10. ASSUME NEW k \in 0..Len(rows[x]), NEW last \in BOOLEAN, ChunkRows(x, k, last)
       PROVE  AssemblerInv'
  <2>1. CASE k < Len(rows[x])
    BY <1>1, <1>2, <1>10, <2>1, ChunkRowFed
  <2>2. CASE k = Len(rows[x])
    BY <1>1, <1>2, <1>10, <2>2, StopFed
  <2>. QED  BY <2>1, <2>2
<1>11. ASSUME NEW k \in 0..Len(rows[x]), NEW last \in BOOLEAN, NEW first \in BOOLEAN,
              ChunkDue(x, k, first, last)
       PROVE  AssemblerInv'
  BY <1>1, <1>11, StartFed
<1>. QED  BY <1>4, <1>5, <1>6, <1>7, <1>8, <1>9, <1>10, <1>11

-----------------------------------------------------------------------------
(* Savepoints *)

\* New rows belong to the innermost savepoint.
LEMMA FramesExtended ==
    ASSUME NEW st \in Seq(FrameSet), NEW s \in Seq(RowSet), NEW t \in Seq(RowSet),
           FramesCut(st, s), Len(s) <= Len(t), \A i \in 1..Len(s) : t[i] = s[i],
           st # <<>> => \A i \in (Len(s) + 1)..Len(t) : t[i].owner = st[Len(st)].sub
    PROVE  FramesCut(st, t)
<1>. SUFFICES ASSUME NEW j \in 1..Len(st)
              PROVE  /\ st[j].at <= Len(t)
                     /\ \A l \in j..Len(st) : st[j].at <= st[l].at
                     /\ \A i \in 1..Len(t) : i > st[j].at <=> Inside(st, j, t[i].owner)
  BY DEF FramesCut
<1>0. Len(s) \in Nat /\ Len(t) \in Nat /\ Len(st) \in Nat /\ st[j] \in FrameSet
  OBVIOUS
<1>1. /\ st[j].at \in Nat /\ st[j].at <= Len(s)
      /\ \A l \in j..Len(st) : st[j].at <= st[l].at
      /\ \A i \in 1..Len(s) : i > st[j].at <=> Inside(st, j, s[i].owner)
  BY <1>0 DEF FramesCut, FrameSet
<1>2. ASSUME NEW i \in 1..Len(t) PROVE i > st[j].at <=> Inside(st, j, t[i].owner)
  <2>1. CASE i <= Len(s)
    BY <1>0, <1>1, <2>1
  <2>2. CASE i > Len(s)
    <3>1. i > st[j].at
      BY <1>0, <1>1, <2>2
    <3>2. st # <<>> /\ i \in (Len(s) + 1)..Len(t)
      BY <1>0, <2>2
    <3>3. t[i].owner = st[Len(st)].sub /\ Len(st) \in j..Len(st)
      BY <1>0, <3>2
    <3>4. Inside(st, j, t[i].owner)
      BY <3>3 DEF Inside
    <3>. QED  BY <3>1, <3>4
  <2>. QED  BY <1>0, <2>1, <2>2
<1>. QED  BY <1>0, <1>1, <1>2

\* A new savepoint has no rows yet.
LEMMA FramesPushed ==
    ASSUME NEW st \in Seq(FrameSet), NEW seq \in Seq(RowSet), FramesCut(st, seq),
           NEW f \in FrameSet, f.at = Len(seq), f.kids = {},
           \A i \in 1..Len(seq) : seq[i].owner # f.sub
    PROVE  FramesCut(Append(st, f), seq)
<1>. DEFINE st2 == Append(st, f)
            n == Len(st) + 1
<1>0. /\ Len(st) \in Nat /\ Len(seq) \in Nat /\ Len(st2) = n /\ st2[n] = f
      /\ \A l \in 1..Len(st) : st2[l] = st[l]
  OBVIOUS
<1>. HIDE DEF st2
<1>1. ASSUME NEW j \in 1..Len(st)
      PROVE  /\ st2[j].at <= Len(seq)
             /\ \A l \in j..n : st2[j].at <= st2[l].at
             /\ \A i \in 1..Len(seq) : i > st2[j].at <=> Inside(st2, j, seq[i].owner)
  <2>1. /\ st[j].at <= Len(seq) /\ \A l \in j..Len(st) : st[j].at <= st[l].at
        /\ \A i \in 1..Len(seq) : i > st[j].at <=> Inside(st, j, seq[i].owner)
    BY DEF FramesCut
  <2>2. \A l \in j..n : st2[j].at <= st2[l].at
    <3>. TAKE l \in j..n
    <3>1. CASE l = n
      BY <1>0, <2>1, <3>1
    <3>2. CASE l # n
      BY <1>0, <2>1, <3>2
    <3>. QED  BY <3>1, <3>2
  <2>3. ASSUME NEW i \in 1..Len(seq)
        PROVE  Inside(st2, j, seq[i].owner) <=> Inside(st, j, seq[i].owner)
    <3>1. ASSUME Inside(st, j, seq[i].owner) PROVE Inside(st2, j, seq[i].owner)
      BY <1>0, <3>1 DEF Inside
    <3>2. ASSUME Inside(st2, j, seq[i].owner) PROVE Inside(st, j, seq[i].owner)
      <4>1. PICK l \in j..n :
                seq[i].owner = st2[l].sub \/ seq[i].owner \in st2[l].kids
        BY <1>0, <3>2 DEF Inside
      <4>2. l # n
        BY <1>0, <4>1
      <4>3. l \in j..Len(st) /\ st2[l] = st[l]
        BY <1>0, <4>2
      <4>. QED  BY <4>1, <4>3 DEF Inside
    <3>. QED  BY <3>1, <3>2
  <2>4. st2[j] = st[j]
    BY <1>0
  <2>. QED  BY <2>1, <2>2, <2>3, <2>4
<1>2. /\ st2[n].at <= Len(seq) /\ \A l \in n..n : st2[n].at <= st2[l].at
      /\ \A i \in 1..Len(seq) : i > st2[n].at <=> Inside(st2, n, seq[i].owner)
  <2>1. ASSUME NEW i \in 1..Len(seq) PROVE ~Inside(st2, n, seq[i].owner)
    BY <1>0 DEF Inside
  <2>2. \A i \in 1..Len(seq) : ~(i > st2[n].at)
    BY <1>0
  <2>3. st2[n].at <= Len(seq) /\ \A l \in n..n : st2[n].at <= st2[l].at
    BY <1>0
  <2>. QED  BY <2>1, <2>2, <2>3
<1>3. \A j \in 1..n : j \in 1..Len(st) \/ j = n
  BY <1>0
<1>4. FramesCut(st2, seq)
  BY <1>0, <1>1, <1>2, <1>3 DEF FramesCut
<1>. QED  BY <1>4 DEF st2

\* A released savepoint is undone with the one around it.
LEMMA FramesReleased ==
    ASSUME NEW st \in Seq(FrameSet), NEW seq \in Seq(RowSet), FramesCut(st, seq),
           NEW n \in Nat \ {0}, Len(st) = n + 1,
           NEW st2 \in Seq(FrameSet), Len(st2) = n,
           \A l \in 1..(n - 1) : st2[l] = st[l],
           st2[n].sub = st[n].sub, st2[n].at = st[n].at,
           st2[n].kids = st[n].kids \cup st[n + 1].kids \cup {st[n + 1].sub}
    PROVE  FramesCut(st2, seq)
<1>1. \A j \in 1..n : st2[j].at = st[j].at /\ st2[j].sub = st[j].sub
                      /\ st[j].kids \subseteq st2[j].kids
  OBVIOUS
<1>. SUFFICES ASSUME NEW j \in 1..n
              PROVE  /\ st2[j].at <= Len(seq)
                     /\ \A l \in j..n : st2[j].at <= st2[l].at
                     /\ \A i \in 1..Len(seq) :
                           i > st2[j].at <=> Inside(st2, j, seq[i].owner)
  BY DEF FramesCut
<1>2. /\ st[j].at <= Len(seq) /\ \A l \in j..(n + 1) : st[j].at <= st[l].at
      /\ \A i \in 1..Len(seq) : i > st[j].at <=> Inside(st, j, seq[i].owner)
  BY DEF FramesCut
<1>3. ASSUME NEW s PROVE Inside(st2, j, s) <=> Inside(st, j, s)
  <2>1. ASSUME Inside(st, j, s) PROVE Inside(st2, j, s)
    <3>1. PICK l \in j..(n + 1) : s = st[l].sub \/ s \in st[l].kids
      BY <2>1 DEF Inside
    <3>2. CASE l = n + 1
      <4>1. s \in st2[n].kids /\ n \in j..n
        BY <3>1, <3>2
      <4>. QED  BY <4>1 DEF Inside
    <3>3. CASE l # n + 1
      <4>1. l \in j..n /\ l \in 1..n
        BY <3>3
      <4>. QED  BY <3>1, <4>1, <1>1 DEF Inside
    <3>. QED  BY <3>2, <3>3
  <2>2. ASSUME Inside(st2, j, s) PROVE Inside(st, j, s)
    <3>1. PICK l \in j..n : s = st2[l].sub \/ s \in st2[l].kids
      BY <2>2 DEF Inside
    <3>2. l \in j..(n + 1) /\ n + 1 \in j..(n + 1) /\ n \in j..(n + 1)
      OBVIOUS
    <3>3. CASE l = n
      BY <3>1, <3>2, <3>3 DEF Inside
    <3>4. CASE l # n
      BY <3>1, <3>2, <3>4 DEF Inside
    <3>. QED  BY <3>3, <3>4
  <2>. QED  BY <2>1, <2>2
<1>4. \A l \in j..n : st2[j].at <= st2[l].at
  BY <1>1, <1>2
<1>5. st2[j].at = st[j].at
  BY <1>1
<1>. QED  BY <1>2, <1>3, <1>4, <1>5

\* A rollback takes back the innermost savepoint and its rows.
LEMMA FramesPopped ==
    ASSUME NEW st \in Seq(FrameSet), NEW seq \in Seq(RowSet), FramesCut(st, seq),
           NEW n \in Nat, Len(st) = n + 1,
           NEW st2 \in Seq(FrameSet), Len(st2) = n, \A l \in 1..n : st2[l] = st[l],
           NEW seq2 \in Seq(RowSet), Len(seq2) = st[n + 1].at,
           \A i \in 1..Len(seq2) : seq2[i] = seq[i]
    PROVE  FramesCut(st2, seq2)
<1>. SUFFICES ASSUME NEW j \in 1..n
              PROVE  /\ st2[j].at <= Len(seq2)
                     /\ \A l \in j..n : st2[j].at <= st2[l].at
                     /\ \A i \in 1..Len(seq2) :
                           i > st2[j].at <=> Inside(st2, j, seq2[i].owner)
  BY DEF FramesCut
<1>1. /\ \A l \in j..(n + 1) : st[j].at <= st[l].at
      /\ \A i \in 1..Len(seq) : i > st[j].at <=> Inside(st, j, seq[i].owner)
  BY DEF FramesCut
<1>2. /\ st[n + 1].at <= Len(seq)
      /\ \A i \in 1..Len(seq) : i > st[n + 1].at <=> Inside(st, n + 1, seq[i].owner)
  BY DEF FramesCut
<1>3. ASSUME NEW i \in 1..Len(seq2)
      PROVE  i > st2[j].at <=> Inside(st2, j, seq2[i].owner)
  <2>. DEFINE s == seq[i].owner
  <2>1. i \in 1..Len(seq) /\ seq2[i] = seq[i] /\ ~(i > st[n + 1].at)
    BY <1>2
  <2>2. ~Inside(st, n + 1, s)
    BY <1>2, <2>1
  <2>. HIDE DEF s
  <2>3. Inside(st, j, s) <=> Inside(st2, j, s)
    <3>1. ASSUME Inside(st2, j, s) PROVE Inside(st, j, s)
      BY <3>1 DEF Inside
    <3>2. ASSUME Inside(st, j, s) PROVE Inside(st2, j, s)
      <4>1. PICK l \in j..(n + 1) : s = st[l].sub \/ s \in st[l].kids
        BY <3>2 DEF Inside
      <4>2. l # n + 1
        <5>. SUFFICES ASSUME l = n + 1 PROVE FALSE
          OBVIOUS
        <5>1. n + 1 \in (n + 1)..Len(st)
          OBVIOUS
        <5>. QED  BY <2>2, <4>1, <5>1 DEF Inside
      <4>3. l \in j..n /\ st2[l] = st[l]
        BY <4>2
      <4>. QED  BY <4>1, <4>3 DEF Inside
    <3>. QED  BY <3>1, <3>2
  <2>. QED  BY <1>1, <2>1, <2>3 DEF s
<1>4. st2[j].at <= Len(seq2) /\ \A l \in j..n : st2[j].at <= st2[l].at
  BY <1>1
<1>. QED  BY <1>3, <1>4

-----------------------------------------------------------------------------
(* Sessions and walsender *)

\* With nothing on the wire the assembler is between messages.
LEMMA IdleWaits ==
    ASSUME AssemblerInv, Idle
    PROVE  Waiting /\ (streaming_active <=> active_stream_xid # None)
<1>1. Phase /\ (streaming_active <=> active_stream_xid # None) /\ wire = <<>>
  BY DEF AssemblerInv, Idle, Synced
<1>. SUFFICES ASSUME ~Waiting PROVE FALSE
  BY <1>1
<1>2. PICK x \in Xids :
          \/ PlainDue(x) \/ StreamCommitDue(x) \/ RollingBack(x) \/ Aborting(x)
          \/ \E k \in 0..Len(rows[x]) :
                \/ PlainRows(x, k)
                \/ \E last \in BOOLEAN :
                      \/ ChunkRows(x, k, last)
                      \/ \E first \in BOOLEAN : ChunkDue(x, k, first, last)
  BY <1>1 DEF Phase
<1>0. ServerType /\ AssemblerType /\ Len(rows[x]) \in Nat /\ NextLsn \in Nat
  BY InvParts
<1>3. CASE PlainDue(x)
  <2>1. 0 \in 0..Len(rows[x]) /\ BeginMsg(x) \in Messages
    BY <1>0 DEF BeginMsg, Messages
  <2>2. PlainRest(x, 0) \in Seq(Messages)
    BY <1>0, <2>1, RestIs
  <2>3. <<BeginMsg(x)>> \o PlainRest(x, 0) # <<>>
    BY <2>1, <2>2, HeadOf
  <2>. QED  BY <1>1, <1>3, <2>3 DEF PlainDue
<1>4. CASE StreamCommitDue(x)
  BY <1>1, <1>4 DEF StreamCommitDue, After
<1>5. CASE RollingBack(x) \/ Aborting(x)
  BY <1>1, <1>5 DEF RollingBack, Aborting, AbortsOf
<1>6. ASSUME NEW k \in 0..Len(rows[x]), PlainRows(x, k) PROVE FALSE
  BY <1>0, <1>1, <1>6, RestIs DEF PlainRows
<1>7. ASSUME NEW k \in 0..Len(rows[x]), NEW last \in BOOLEAN, ChunkRows(x, k, last)
      PROVE  FALSE
  BY <1>0, <1>1, <1>7, RestIs DEF ChunkRows
<1>8. ASSUME NEW k \in 0..Len(rows[x]), NEW last \in BOOLEAN, NEW first \in BOOLEAN,
             ChunkDue(x, k, first, last)
      PROVE  FALSE
  <2>1. StartMsg(x, first) \in Messages
    BY DEF StartMsg, Messages
  <2>2. ChunkRest(x, k, last) \in Seq(Messages)
    BY <1>0, RestIs
  <2>3. <<StartMsg(x, first)>> \o ChunkRest(x, k, last) # <<>>
    BY <2>1, <2>2, HeadOf
  <2>. QED  BY <1>1, <1>8, <2>3 DEF ChunkDue
<1>. QED  BY <1>2, <1>3, <1>4, <1>5, <1>6, <1>7, <1>8

\* The other transactions are as they were.
Elsewhere(x) ==
    \A y \in Xids \ {x} :
        /\ y \in open' <=> y \in open
        /\ rows'[y] = rows[y] /\ sent'[y] = sent[y]
        /\ streamed'[y] = streamed[y] /\ stack'[y] = stack[y]

\* A step of x keeps what holds of the savepoints of the others.
LEMMA SavepointsKept ==
    ASSUME Savepoints, ServerType, NEW x \in Xids, Elsewhere(x), open' \subseteq Xids,
           next_sub' \in Nat, next_change' \in Nat, drops' = drops,
           next_sub' >= next_sub, next_change' >= next_change,
           RowsInOrder(x)', FramesOld(x)', StreamedSent(x)',
           x \in open' => FramesCut(stack[x], rows[x])',
           drops = 0 /\ streamed'[x] # {} => x \in open'
    PROVE  Savepoints'
<1>. SUFFICES ASSUME NEW y \in Xids, y # x
              PROVE  /\ RowsInOrder(y)' /\ FramesOld(y)' /\ StreamedSent(y)'
                     /\ y \in open' => FramesCut(stack[y], rows[y])'
                     /\ drops' = 0 /\ streamed'[y] # {} => y \in open'
  BY DEF Savepoints
<1>1. /\ y \in open' <=> y \in open
      /\ rows'[y] = rows[y] /\ sent'[y] = sent[y]
      /\ streamed'[y] = streamed[y] /\ stack'[y] = stack[y]
  BY DEF Elsewhere
<1>2. /\ RowsInOrder(y) /\ FramesOld(y) /\ StreamedSent(y)
      /\ y \in open => FramesCut(stack[y], rows[y])
      /\ drops = 0 /\ streamed[y] # {} => y \in open
  BY DEF Savepoints
<1>3. rows[y] \in Seq(RowSet) /\ stack[y] \in Seq(FrameSet)
      /\ next_sub \in Nat /\ next_change \in Nat
  BY DEF ServerType
<1>4. RowsInOrder(y)'
  <2>1. \A i \in 1..Len(rows[y]) :
           rows[y][i].owner \in Int /\ rows[y][i].msg \in Int
    <3>. TAKE i \in 1..Len(rows[y])
    <3>1. rows[y][i] \in RowSet
      BY <1>3
    <3>. QED  BY <3>1, BoundsAssumption DEF RowSet, Owners, Xids, Subxids
  <2>. QED  BY <1>1, <1>2, <1>3, <2>1 DEF RowsInOrder
<1>5. FramesOld(y)'
  <2>1. \A j \in 1..Len(stack[y]) : stack[y][j].sub \in Int
    <3>. TAKE j \in 1..Len(stack[y])
    <3>1. stack[y][j] \in FrameSet
      BY <1>3
    <3>. QED  BY <3>1, BoundsAssumption DEF FrameSet, Subxids
  <2>. QED  BY <1>1, <1>2, <1>3, <2>1 DEF FramesOld
<1>6. y \in open' => FramesCut(stack[y], rows[y])'
  BY <1>1, <1>2
<1>7. StreamedSent(y)'
  BY <1>1, <1>2 DEF StreamedSent
<1>8. drops' = 0 /\ streamed'[y] # {} => y \in open'
  BY <1>1, <1>2
<1>. QED  BY <1>4, <1>5, <1>6, <1>7, <1>8

\* What was committed does not change.
LEMMA RecordedKept ==
    ASSUME Recorded, history' = history, open' \subseteq open,
           \A y \in Xids \ open : rows'[y] = rows[y]
    PROVE  Recorded'
<1>. SUFFICES ASSUME NEW i \in 1..Len(history)
              PROVE  /\ history[i].xid \in Xids \ open'
                     /\ history[i] = [xid |-> history[i].xid, commit_lsn |-> i,
                                      changes |-> Ids(rows'[history[i].xid])]
  BY DEF Recorded, Ids
<1>1. history[i].xid \in Xids \ open
  BY DEF Recorded
<1>2. rows'[history[i].xid] = rows[history[i].xid]
  BY <1>1
<1>. QED  BY <1>1, <1>2 DEF Recorded

\* A step of x leaves the buckets of the others as they are.
LEMMA RestMoved ==
    ASSUME NEW x \in Xids, Rest(None), Elsewhere(x), DOMAIN pending \subseteq Xids,
           pending' = pending, current_xid' = current_xid, drops' = drops
    PROVE  Rest(x)'
<1>1. None \notin Xids
  BY BoundsAssumption DEF Xids, None
<1>2. ASSUME NEW y \in Xids \ {x}, streamed'[y] # {}
      PROVE  /\ y \in DOMAIN pending' /\ Holds(pending[y], rows[y], sent[y])'
             /\ y # current_xid'
  <2>1. /\ y \in Xids \ {None} /\ rows'[y] = rows[y] /\ sent'[y] = sent[y]
        /\ streamed'[y] = streamed[y]
    BY <1>1 DEF Elsewhere
  <2>2. y \in DOMAIN pending /\ Holds(pending[y], rows[y], sent[y]) /\ y # current_xid
    BY <1>2, <2>1 DEF Rest
  <2>. QED  BY <2>1, <2>2
<1>3. drops' = 0 => DOMAIN pending' \ {x} = {y \in Xids \ {x} : streamed'[y] # {}}
  <2>. SUFFICES ASSUME drops = 0
                PROVE  DOMAIN pending \ {x} = {y \in Xids \ {x} : streamed'[y] # {}}
    OBVIOUS
  <2>1. DOMAIN pending \ {None} = {y \in Xids \ {None} : streamed[y] # {}}
    BY DEF Rest
  <2>2. \A y \in Xids \ {x} : streamed'[y] = streamed[y]
    BY DEF Elsewhere
  <2>. QED  BY <1>1, <2>1, <2>2
<1>. QED  BY <1>2, <1>3 DEF Rest

\* What the server does, the assembler does not see until it is fed.
LEMMA ServerKeeps ==
    ASSUME AssemblerInv, error = "none", UNCHANGED <<asmVars, connVars>>,
           ServerType', Savepoints', Recorded', Phase',
           Len(history) <= Len(history'),
           \A i \in 1..Len(history) : history'[i] = history[i]
    PROVE  AssemblerInv'
<1>0. /\ AssemblerType /\ EmittedPrefix /\ TypeOK
      /\ Len(history) \in Nat /\ Len(emitted) \in Nat /\ start \in Nat
      /\ error = "none" /\ (streaming_active <=> active_stream_xid # None)
      /\ Len(history') \in Nat
  BY InvParts DEF ServerType, AssemblerInv, Synced
<1>1. /\ streaming_active' = streaming_active /\ pending' = pending
      /\ current_xid' = current_xid /\ active_stream_xid' = active_stream_xid
      /\ emitted' = emitted /\ error' = error
      /\ start' = start /\ drops' = drops /\ Received' = Received
  BY DEF asmVars, connVars, Received
<1>2. AssemblerType'
  <2>1. ASSUME NEW y \in DOMAIN pending PROVE BucketOK(pending[y])'
    <3>1. BucketOK(pending[y])
      BY <1>0 DEF TypeOK
    <3>. QED  BY <3>1, <1>0, <1>1 DEF BucketOK
  <2>2. TypeOK'
    BY <1>0, <1>1, <2>1 DEF TypeOK
  <2>. QED  BY <1>0, <1>1, <2>2 DEF AssemblerType, IsBucket
<1>3. EmittedPrefix'
  <2>1. \A i \in 1..Len(emitted) : start + i \in 1..Len(history)
    BY <1>0 DEF EmittedPrefix, Received
  <2>2. \A i \in 1..Len(emitted) : emitted[i] = history'[start + i]
    BY <1>0, <2>1 DEF EmittedPrefix
  <2>3. Received <= Len(history')
    BY <1>0 DEF EmittedPrefix, Received
  <2>. QED  BY <1>1, <2>2, <2>3 DEF EmittedPrefix
<1>4. Synced' /\ NoDesync'
  BY <1>0, <1>1 DEF Synced, NoDesync
<1>. QED  BY <1>2, <1>3, <1>4 DEF AssemblerInv

\* The same of the sessions, which wait for an empty wire.
LEMMA SessionKeeps ==
    ASSUME AssemblerInv, Idle, UNCHANGED <<asmVars, connVars>>,
           ServerType', Savepoints', Recorded', Phase',
           Len(history) <= Len(history'),
           \A i \in 1..Len(history) : history'[i] = history[i]
    PROVE  AssemblerInv'
BY ServerKeeps DEF Idle

\* Nothing sent, and nothing that was sent taken back.
LEMMA WaitingKept ==
    ASSUME AssemblerInv, Idle, NEW x \in Xids, x \in open, Elsewhere(x), ServerType',
           UNCHANGED <<asmVars, connVars, history>>, wire' = <<>>, open' = open,
           streamed'[x] = streamed[x], sent'[x] = sent[x], sent[x] <= Len(rows'[x]),
           \A i \in 1..sent[x] : rows'[x][i] = rows[x][i]
    PROVE  Waiting'
<1>0. /\ Waiting /\ ServerType /\ Savepoints /\ DOMAIN pending \subseteq Xids
  BY InvParts, IdleWaits
<1>1. pending' = pending /\ current_xid' = current_xid /\ emitted' = emitted
      /\ active_stream_xid' = active_stream_xid /\ drops' = drops
      /\ history' = history
      /\ Received' = Received
  BY DEF asmVars, connVars, Received
<1>2. Rest(None) /\ Settled /\ StaleXid /\ StaleStream
  BY <1>0 DEF Waiting
<1>3. None \notin Xids
  BY BoundsAssumption DEF Xids, None
<1>4. Rest(x)'
  BY <1>0, <1>1, <1>2, RestMoved
<1>5. ASSUME streamed[x] # {} PROVE Rest(None)'
  <2>1. /\ x \in DOMAIN pending /\ Holds(pending[x], rows[x], sent[x])
        /\ current_xid # x
    BY <1>2, <1>3, <1>5 DEF Rest
  <2>2. /\ rows[x] \in Seq(RowSet) /\ rows'[x] \in Seq(RowSet) /\ sent[x] \in Nat
        /\ sent[x] <= Len(rows[x])
    BY <1>0 DEF ServerType, Savepoints, RowsInOrder
  <2>3. Holds(pending[x], rows'[x], sent[x])
    BY <2>1, <2>2, HoldsPrefix
  <2>4. Holds(pending[x], rows[x], sent[x])'
    BY <1>1, <2>3
  <2>. QED  BY <1>0, <1>1, <1>3, <1>4, <1>5, <2>1, <2>4, RestAll
<1>6. ASSUME streamed[x] = {} PROVE Rest(None)'
  <2>1. drops' = 0 => x \notin DOMAIN pending'
    BY <1>1, <1>2, <1>3, <1>6 DEF Rest
  <2>. QED  BY <1>0, <1>1, <1>3, <1>4, <1>6, <2>1, RestWithout
<1>7. Rest(None)'
  BY <1>5, <1>6
<1>8. Settled' /\ StaleStream' /\ StaleXid'
  <2>1. \A y \in Xids : streamed'[y] = streamed[y]
    BY DEF Elsewhere
  <2>. QED  BY <1>1, <1>2, <2>1 DEF Settled, StaleStream, StaleXid
<1>. QED  BY <1>1, <1>2, <1>7, <1>8 DEF Waiting

\* A change is not seen until it is sent.
LEMMA ChangeKeeps ==
    ASSUME AssemblerInv, NEW x \in Xids, NEW n \in 1..MaxTables, Change(x, n)
    PROVE  AssemblerInv'
<1>0. /\ ServerType /\ Savepoints /\ Idle /\ x \in open /\ n \in Nat \ {0}
      /\ rows[x] \in Seq(RowSet) /\ stack[x] \in Seq(FrameSet)
      /\ next_change \in Nat \ {0} /\ next_sub \in Nat /\ next_sub > MaxXid
      /\ open \subseteq Xids
  <2>1. ServerType /\ Savepoints /\ Idle /\ x \in open
    BY InvParts DEF Change
  <2>. QED  BY <2>1, BoundsAssumption DEF ServerType
<1>. DEFINE new == [i \in 1..n |-> [owner |-> Owner(x), id |-> next_change + i - 1,
                                    msg |-> next_change]]
<1>1. /\ rows' = [rows EXCEPT ![x] = @ \o new]
      /\ next_change' = next_change + n /\ next_change + n <= MaxChange + 1
      /\ UNCHANGED <<open, stack, sent, streamed, next_sub, history, wire,
                     connVars, asmVars>>
  BY DEF Change
<1>2. Owner(x) \in Owners /\ Owner(x) < next_sub
      /\ (stack[x] # <<>> => Owner(x) = stack[x][Len(stack[x])].sub)
  <2>1. CASE stack[x] = <<>>
    BY <1>0, <2>1, BoundsAssumption DEF Owner, Owners, Xids
  <2>2. CASE stack[x] # <<>>
    <3>1. Owner(x) = stack[x][Len(stack[x])].sub
      BY <2>2 DEF Owner, Last
    <3>2. Len(stack[x]) \in 1..Len(stack[x])
      BY <1>0, <2>2
    <3>3. stack[x][Len(stack[x])] \in FrameSet
      BY <1>0, <3>2
    <3>. QED  BY <1>0, <3>1, <3>2, <3>3 DEF FrameSet, Owners, Savepoints, FramesOld
  <2>. QED  BY <2>1, <2>2
<1>3. new \in Seq(RowSet) /\ Len(new) = n
  <2>1. \A i \in 1..n : new[i] \in RowSet
    <3>. TAKE i \in 1..n
    <3>1. next_change + i - 1 \in 1..MaxChange
      BY <1>0, <1>1, BoundsAssumption
    <3>. QED  BY <1>0, <1>2, <3>1 DEF RowSet
  <2>2. new \in [1..n -> RowSet]
    BY <2>1
  <2>. HIDE DEF new
  <2>. QED  BY <1>0, <2>2, FunctionSeq
<1>4. \A i \in 1..n : new[i].owner = Owner(x) /\ new[i].msg = next_change
  OBVIOUS
<1>. HIDE DEF new
<1>. DEFINE s == rows[x]
            t == s \o new
<1>5. /\ t \in Seq(RowSet) /\ Len(t) = Len(s) + n
      /\ \A i \in 1..(Len(s) + n) : t[i] = IF i <= Len(s) THEN s[i] ELSE new[i - Len(s)]
  BY <1>0, <1>3, ConcatProperties
<1>6. rows'[x] = t /\ \A y \in Xids \ {x} : rows'[y] = rows[y]
  BY <1>0, <1>1 DEF ServerType
<1>7. Elsewhere(x)
  BY <1>1, <1>6 DEF Elsewhere
<1>8. ServerType'
  <2>1. rows' \in [Xids -> Seq(RowSet)]
    BY <1>0, <1>1, <1>5 DEF ServerType
  <2>. QED  BY <1>0, <1>1, <2>1 DEF ServerType, connVars
<1>. HIDE DEF t
<1>9. \A i \in 1..Len(s) : t[i] = s[i]
  <2>. HIDE DEF s
  <2>1. Len(s) \in Nat
    BY <1>0 DEF s
  <2>. QED  BY <1>0, <1>5, <2>1
<1>10. \A i \in (Len(s) + 1)..Len(t) : t[i].owner = Owner(x) /\ t[i].msg = next_change
  <2>. TAKE i \in (Len(s) + 1)..Len(t)
  <2>1. i \in 1..(Len(s) + n) /\ i - Len(s) \in 1..n /\ ~(i <= Len(s))
    BY <1>0, <1>5
  <2>2. t[i] = new[i - Len(s)]
    BY <1>5, <2>1
  <2>. QED  BY <1>4, <2>1, <2>2
<1>11. /\ \A i \in 1..Len(s) : s[i].owner < next_sub /\ s[i].msg < next_change
       /\ \A i, j \in 1..Len(s) : s[i].msg = s[j].msg => s[i].owner = s[j].owner
       /\ sent[x] \in Nat /\ sent[x] <= Len(s) /\ Len(s) \in Nat
       /\ \A i \in 1..Len(s) : s[i].msg \in Nat
  <2>1. \A i \in 1..Len(s) : s[i].msg \in Nat
    <3>. TAKE i \in 1..Len(s)
    <3>1. s[i] \in RowSet
      BY <1>0
    <3>. QED  BY <3>1 DEF RowSet
  <2>. QED  BY <1>0, <2>1 DEF Savepoints, RowsInOrder, ServerType
<1>12. RowsInOrder(x)'
  <2>0. \A i \in 1..Len(t) : i \in 1..Len(s) \/ i \in (Len(s) + 1)..Len(t)
    BY <1>5, <1>11
  <2>1. \A i \in 1..Len(t) : t[i].owner < next_sub /\ t[i].msg < next_change + n
    <3>. TAKE i \in 1..Len(t)
    <3>1. CASE i \in 1..Len(s)
      BY <3>1, <1>0, <1>9, <1>11
    <3>2. CASE i \in (Len(s) + 1)..Len(t)
      BY <3>2, <1>0, <1>2, <1>10
    <3>. QED  BY <2>0, <3>1, <3>2
  <2>2. ASSUME NEW i \in 1..Len(t), NEW j \in 1..Len(t), t[i].msg = t[j].msg
        PROVE  t[i].owner = t[j].owner
    <3>1. CASE i \in 1..Len(s) /\ j \in 1..Len(s)
      BY <2>2, <3>1, <1>9, <1>11
    <3>2. CASE i \in 1..Len(s) /\ j \in (Len(s) + 1)..Len(t)
      <4>1. t[i].msg < next_change /\ t[j].msg = next_change /\ t[i].msg \in Nat
        BY <3>2, <1>9, <1>10, <1>11
      <4>. QED  BY <1>0, <2>2, <4>1
    <3>3. CASE i \in (Len(s) + 1)..Len(t) /\ j \in 1..Len(s)
      <4>1. t[j].msg < next_change /\ t[i].msg = next_change /\ t[j].msg \in Nat
        BY <3>3, <1>9, <1>10, <1>11
      <4>. QED  BY <1>0, <2>2, <4>1
    <3>4. CASE i \in (Len(s) + 1)..Len(t) /\ j \in (Len(s) + 1)..Len(t)
      BY <3>4, <1>10
    <3>. QED  BY <2>0, <3>1, <3>2, <3>3, <3>4
  <2>3. sent[x] <= Len(t)
    BY <1>0, <1>5, <1>11
  <2>4. \A i, j \in 1..Len(t) : t[i].msg = t[j].msg => t[i].owner = t[j].owner
    BY <2>2
  <2>5. rows'[x] = t /\ sent' = sent /\ next_sub' = next_sub
        /\ next_change' = next_change + n
    BY <1>1, <1>6
  <2>6. sent'[x] <= Len(rows'[x])
    BY <2>3, <2>5
  <2>7. \A i \in 1..Len(rows'[x]) :
           rows'[x][i].owner < next_sub' /\ rows'[x][i].msg < next_change'
    BY <2>1, <2>5
  <2>8. \A i, j \in 1..Len(rows'[x]) :
           rows'[x][i].msg = rows'[x][j].msg => rows'[x][i].owner = rows'[x][j].owner
    BY <2>4, <2>5
  <2>. QED  BY <2>6, <2>7, <2>8 DEF RowsInOrder
<1>13. FramesCut(stack[x], rows[x])'
  <2>1. FramesCut(stack[x], s)
    BY <1>0 DEF Savepoints
  <2>2. /\ Len(s) <= Len(t)
        /\ stack[x] # <<>> => \A i \in (Len(s) + 1)..Len(t) :
                                 t[i].owner = stack[x][Len(stack[x])].sub
    <3>. HIDE DEF s
    <3>1. Len(s) <= Len(t)
      BY <1>0, <1>5, <1>11
    <3>2. stack[x] # <<>> => \A i \in (Len(s) + 1)..Len(t) :
                                t[i].owner = stack[x][Len(stack[x])].sub
      BY <1>2, <1>10
    <3>. QED  BY <3>1, <3>2
  <2>3. FramesCut(stack[x], t)
    <3>. HIDE DEF s
    <3>1. s \in Seq(RowSet)
      BY <1>0 DEF s
    <3>. QED  BY <1>0, <1>5, <1>9, <2>1, <2>2, <3>1, FramesExtended
  <2>. QED  BY <1>1, <1>6, <2>3
<1>14. StreamedSent(x)' /\ \A i \in 1..sent[x] : rows'[x][i] = rows[x][i]
  <2>1. \A i \in 1..sent[x] : rows'[x][i] = rows[x][i]
    BY <1>6, <1>9, <1>11
  <2>. QED  BY <1>0, <1>1, <2>1 DEF Savepoints, StreamedSent
<1>15. Savepoints'
  <2>1. /\ next_sub' \in Nat /\ next_change' \in Nat
        /\ next_sub' >= next_sub /\ next_change' >= next_change
        /\ open' \subseteq Xids /\ drops' = drops
        /\ drops = 0 /\ streamed'[x] # {} => x \in open'
    BY <1>0, <1>1 DEF connVars
  <2>2. FramesOld(x)'
    BY <1>0, <1>1 DEF Savepoints, FramesOld
  <2>. QED  BY <1>0, <1>7, <1>12, <1>13, <1>14, <2>1, <2>2, SavepointsKept
<1>16. Waiting'
  <2>1. /\ UNCHANGED <<asmVars, connVars, history>> /\ wire' = <<>> /\ open' = open
        /\ streamed'[x] = streamed[x] /\ sent'[x] = sent[x]
        /\ sent[x] <= Len(rows'[x])
    BY <1>0, <1>1, <1>5, <1>6, <1>11 DEF Idle
  <2>. QED  BY <1>0, <1>7, <1>8, <1>14, <2>1, WaitingKept
<1>. QED
  <2>1. /\ Phase' /\ UNCHANGED <<asmVars, connVars>> /\ history' = history
    BY <1>1, <1>16 DEF Phase
  <2>2. Len(history) \in Nat
    BY InvParts
  <2>3. Recorded'
    BY <1>0, <1>1, <1>6, RecordedKept DEF AssemblerInv
  <2>. QED  BY <1>0, <1>8, <1>15, <2>1, <2>2, <2>3, SessionKeeps

\* Savepoint and Release change the stack of x only.
LEMMA StackKeeps ==
    ASSUME AssemblerInv, Idle, NEW x \in Xids, x \in open,
           NEW st \in Seq(FrameSet), stack' = [stack EXCEPT ![x] = st],
           FramesCut(st, rows[x]), \A j \in 1..Len(st) : st[j].sub < next_sub',
           next_sub' \in Nat, next_sub' >= next_sub,
           UNCHANGED <<open, rows, sent, streamed, next_change, history, wire,
                       connVars, asmVars>>
    PROVE  AssemblerInv'
<1>0. ServerType /\ Savepoints /\ rows[x] \in Seq(RowSet) /\ Len(history) \in Nat
  BY InvParts
<1>1. Elsewhere(x) /\ stack'[x] = st
  BY <1>0 DEF Elsewhere, ServerType
<1>2. ServerType'
  <2>1. stack' \in [Xids -> Seq(FrameSet)]
    BY <1>0 DEF ServerType
  <2>2. MaxXid \in Nat /\ next_sub \in Nat /\ next_sub > MaxXid
    BY <1>0, BoundsAssumption DEF ServerType
  <2>3. next_sub' > MaxXid
    BY <2>2
  <2>. QED  BY <1>0, <2>1, <2>3 DEF ServerType, connVars
<1>3. RowsInOrder(x)' /\ StreamedSent(x)'
  <2>1. \A i \in 1..Len(rows[x]) : rows[x][i].owner \in Int
    <3>. TAKE i \in 1..Len(rows[x])
    <3>1. rows[x][i] \in RowSet
      BY <1>0
    <3>. QED  BY <3>1, BoundsAssumption DEF RowSet, Owners, Xids, Subxids
  <2>2. RowsInOrder(x)'
    BY <1>0, <2>1 DEF Savepoints, RowsInOrder, ServerType
  <2>3. StreamedSent(x)'
    BY <1>0 DEF Savepoints, StreamedSent
  <2>. QED  BY <2>2, <2>3
<1>4. FramesOld(x)'
  BY <1>1 DEF FramesOld
<1>5. FramesCut(stack[x], rows[x])'
  BY <1>1
<1>6. Savepoints'
  <2>1. /\ open' \subseteq Xids /\ next_change' \in Nat /\ next_change' >= next_change
        /\ drops' = drops /\ x \in open'
    BY <1>0 DEF ServerType, connVars
  <2>. QED  BY <1>0, <1>1, <1>3, <1>4, <1>5, <2>1, SavepointsKept
<1>7. Waiting'
  <2>1. /\ wire' = <<>> /\ sent[x] <= Len(rows'[x])
        /\ \A i \in 1..sent[x] : rows'[x][i] = rows[x][i]
    BY <1>0 DEF Idle, Savepoints, RowsInOrder
  <2>. QED  BY <1>0, <1>1, <1>2, <2>1, WaitingKept
<1>8. Phase'
  BY <1>7 DEF Phase
<1>9. Recorded'
  BY RecordedKept DEF AssemblerInv
<1>. QED  BY <1>0, <1>2, <1>6, <1>8, <1>9, SessionKeeps

\* A savepoint starts with no rows.
LEMMA SavepointKeeps ==
    ASSUME AssemblerInv, NEW x \in Xids, Savepoint(x)
    PROVE  AssemblerInv'
<1>0. /\ ServerType /\ Savepoints /\ Idle /\ x \in open
      /\ rows[x] \in Seq(RowSet) /\ stack[x] \in Seq(FrameSet)
      /\ next_sub \in Nat /\ next_sub \in Subxids
  BY InvParts DEF Savepoint, ServerType
<1>. DEFINE f == [sub |-> next_sub, kids |-> {}, at |-> Len(rows[x])]
            st == Append(stack[x], f)
<1>1. f \in FrameSet /\ f.at = Len(rows[x]) /\ f.kids = {} /\ f.sub = next_sub
  BY <1>0 DEF FrameSet
<1>2. \A i \in 1..Len(rows[x]) : rows[x][i].owner # next_sub
  BY <1>0 DEF Savepoints, RowsInOrder
<1>3. /\ stack' = [stack EXCEPT ![x] = st] /\ next_sub' = next_sub + 1
      /\ UNCHANGED <<open, rows, sent, streamed, next_change, history, wire,
                     connVars, asmVars>>
  BY DEF Savepoint
<1>. HIDE DEF f
<1>4. st \in Seq(FrameSet) /\ FramesCut(st, rows[x])
  <2>1. FramesCut(stack[x], rows[x])
    BY <1>0 DEF Savepoints
  <2>. QED  BY <1>0, <1>1, <1>2, <2>1, FramesPushed
<1>5. \A j \in 1..Len(st) : st[j].sub < next_sub'
  <2>. TAKE j \in 1..Len(st)
  <2>1. CASE j <= Len(stack[x])
    <3>1. /\ j \in 1..Len(stack[x]) /\ st[j] = stack[x][j]
          /\ stack[x][j] \in FrameSet
      BY <1>0, <1>1, <2>1
    <3>2. stack[x][j].sub < next_sub /\ stack[x][j].sub \in Int
      BY <1>0, <3>1, BoundsAssumption DEF Savepoints, FramesOld, FrameSet, Subxids
    <3>. HIDE DEF st
    <3>. QED  BY <1>0, <1>3, <3>1, <3>2
  <2>2. CASE ~(j <= Len(stack[x]))
    <3>1. st[j] = f
      BY <1>0, <1>1, <2>2
    <3>. QED  BY <1>0, <1>1, <1>3, <3>1
  <2>. QED  BY <2>1, <2>2
<1>. HIDE DEF st
<1>6. next_sub' \in Nat /\ next_sub' >= next_sub
  BY <1>0, <1>3
<1>. QED  BY <1>0, <1>3, <1>4, <1>5, <1>6, StackKeeps

\* A released savepoint joins the one around it.
LEMMA ReleaseKeeps ==
    ASSUME AssemblerInv, NEW x \in Xids, Release(x)
    PROVE  AssemblerInv'
<1>0. /\ ServerType /\ Savepoints /\ Idle /\ x \in open
      /\ rows[x] \in Seq(RowSet) /\ stack[x] \in Seq(FrameSet) /\ stack[x] # <<>>
      /\ next_sub \in Nat
  BY InvParts DEF Release, ServerType
<1>. DEFINE top == stack[x][Len(stack[x])]
            outer == SubSeq(stack[x], 1, Len(stack[x]) - 1)
            n == Len(stack[x]) - 1
            g == [outer[Len(outer)] EXCEPT !.kids = @ \cup top.kids \cup {top.sub}]
            st == IF outer = <<>> THEN <<>>
                  ELSE Append(SubSeq(outer, 1, Len(outer) - 1), g)
<1>1. /\ stack' = [stack EXCEPT ![x] = st]
      /\ UNCHANGED <<open, rows, sent, streamed, next_sub, next_change, history,
                     wire, connVars, asmVars>>
  BY DEF Release, Last, Front
<1>2. /\ n \in Nat /\ Len(stack[x]) = n + 1 /\ n \in 0..Len(stack[x])
      /\ outer \in Seq(FrameSet) /\ Len(outer) = n
      /\ \A l \in 1..n : outer[l] = stack[x][l]
      /\ top \in FrameSet
  <2>1. n \in Nat /\ Len(stack[x]) = n + 1 /\ n \in 0..Len(stack[x])
    BY <1>0
  <2>2. /\ outer \in Seq(FrameSet) /\ Len(outer) = n
        /\ \A l \in 1..n : outer[l] = stack[x][l]
    BY <1>0, <2>1, FirstOnes
  <2>3. top \in FrameSet
    BY <1>0, <2>1
  <2>. QED  BY <2>1, <2>2, <2>3
<1>3. FramesCut(stack[x], rows[x])
      /\ \A j \in 1..Len(stack[x]) : stack[x][j].sub < next_sub
  BY <1>0 DEF Savepoints, FramesOld
<1>. HIDE DEF top, outer, n
<1>4. /\ st \in Seq(FrameSet) /\ FramesCut(st, rows[x])
      /\ \A j \in 1..Len(st) : st[j].sub < next_sub
  <2>1. CASE n = 0
    <3>1. st = <<>>
      BY <1>2, <2>1
    <3>. HIDE DEF st
    <3>. QED  BY <3>1 DEF FramesCut
  <2>2. CASE n # 0
    <3>1. outer # <<>> /\ n \in 1..n /\ outer[n] \in FrameSet /\ n - 1 \in 0..Len(outer)
      BY <1>2, <2>2
    <3>. DEFINE inner == SubSeq(outer, 1, n - 1)
    <3>2. st = Append(inner, g)
      BY <1>2, <3>1
    <3>3. /\ g \in FrameSet /\ g.sub = outer[n].sub /\ g.at = outer[n].at
          /\ g.kids = outer[n].kids \cup top.kids \cup {top.sub}
      BY <1>2, <3>1 DEF FrameSet
    <3>4. /\ inner \in Seq(FrameSet) /\ Len(inner) = n - 1
          /\ \A l \in 1..(n - 1) : inner[l] = outer[l]
      BY <1>2, <3>1, FirstOnes
    <3>. HIDE DEF st, g, inner
    <3>5. /\ st \in Seq(FrameSet) /\ Len(st) = n /\ st[n] = g
          /\ \A l \in 1..(n - 1) : st[l] = inner[l]
      BY <1>2, <3>2, <3>3, <3>4
    <3>6. /\ st[n].sub = stack[x][n].sub /\ st[n].at = stack[x][n].at
          /\ st[n].kids = stack[x][n].kids \cup stack[x][n + 1].kids
                             \cup {stack[x][n + 1].sub}
      BY <1>2, <3>1, <3>3, <3>5 DEF top
    <3>7. \A l \in 1..(n - 1) : st[l] = stack[x][l]
      BY <1>2, <3>4, <3>5
    <3>8. FramesCut(st, rows[x])
      BY <1>0, <1>2, <1>3, <2>2, <3>5, <3>6, <3>7, FramesReleased
    <3>9. ASSUME NEW j \in 1..Len(st) PROVE st[j].sub < next_sub
      <4>1. j \in 1..Len(stack[x]) /\ st[j].sub = stack[x][j].sub
        BY <1>2, <3>5, <3>6, <3>7
      <4>. QED  BY <1>3, <4>1
    <3>. QED  BY <3>5, <3>8, <3>9
  <2>. QED  BY <2>1, <2>2
<1>. HIDE DEF st
<1>5. /\ next_sub' \in Nat /\ next_sub' >= next_sub
      /\ \A j \in 1..Len(st) : st[j].sub < next_sub'
  BY <1>0, <1>1, <1>4
<1>. QED  BY <1>0, <1>1, <1>4, <1>5, StackKeeps

-----------------------------------------------------------------------------
(* Aborts *)

\* There are finitely many (sub)transactions.
LEMMA OwnersFinite == IsFiniteSet(Owners)
<1>1. IsFiniteSet(Xids) /\ IsFiniteSet(Subxids)
  BY BoundsAssumption, FS_Interval DEF Xids, Subxids
<1>. QED  BY <1>1, FS_Union DEF Owners

\* SetToSeqs lists each element once.
LEMMA OrderOf ==
    ASSUME NEW S, IsFiniteSet(S), NEW o \in SetToSeqs(S)
    PROVE  /\ o \in Seq(S) /\ \A s \in S : \E i \in 1..Len(o) : o[i] = s
           /\ \A i, j \in 1..Len(o) : i # j => o[i] # o[j]
<1>. DEFINE n == Cardinality(S)
<1>1. n \in Nat
  BY FS_CardinalityType
<1>2. o \in [1..n -> S] /\ \A i, j \in 1..n : i # j => o[i] # o[j]
  BY DEF SetToSeqs
<1>3. IsFiniteSet(1..n) /\ Cardinality(1..n) = n
  <2>. HIDE DEF n
  <2>. QED  BY <1>1, FS_Interval
<1>4. o \in Injection(1..n, S)
  BY <1>2 DEF Injection, IsInjective
<1>5. o \in Surjection(1..n, S)
  <2>1. Cardinality(1..n) = Cardinality(S)
    BY <1>3
  <2>. HIDE DEF n
  <2>. QED  BY <1>4, <2>1, FS_Injection
<1>. HIDE DEF n
<1>6. o \in Seq(S) /\ Len(o) = n
  BY <1>1, <1>2, FunctionSeq
<1>. QED  BY <1>2, <1>5, <1>6 DEF Surjection

\* The (sub)transactions a sequence of StreamAborts names.
SubsOf(seq) == {seq[i].sub : i \in 1..Len(seq)}

\* Aborts names each streamed (sub)transaction of subs once.
LEMMA AbortsAre ==
    ASSUME ServerType, NEW x \in Xids, NEW subs, NEW seq \in Aborts(x, subs)
    PROVE  /\ seq \in Seq({AbortMsg(x, s) : s \in Owners})
           /\ SubsOf(seq) = subs \cap streamed[x]
           /\ \A i, j \in 1..Len(seq) : i # j => seq[i].sub # seq[j].sub
<1>. DEFINE S == subs \cap streamed[x]
            M == {AbortMsg(x, s) : s \in Owners}
<1>1. PICK o \in Ascending(S) :
          seq = [i \in DOMAIN o |-> [kind |-> "StreamAbort", xid |-> x, sub |-> o[i]]]
  BY DEF Aborts
<1>2. S \subseteq Owners
  BY DEF ServerType
<1>3. IsFiniteSet(S)
  BY <1>2, OwnersFinite, FS_Subset
<1>. HIDE DEF S
<1>4. /\ o \in Seq(S) /\ \A s \in S : \E i \in 1..Len(o) : o[i] = s
      /\ \A i, j \in 1..Len(o) : i # j => o[i] # o[j]
  <2>1. o \in SetToSeqs(S)
    BY <1>1 DEF Ascending
  <2>. QED  BY <1>3, <2>1, OrderOf
<1>5. Len(o) \in Nat /\ DOMAIN o = 1..Len(o) /\ \A i \in 1..Len(o) : o[i] \in S
  BY <1>4
<1>6. seq = [i \in 1..Len(o) |-> [kind |-> "StreamAbort", xid |-> x, sub |-> o[i]]]
  BY <1>1, <1>5
<1>7. \A i \in 1..Len(o) : seq[i] = AbortMsg(x, o[i]) /\ seq[i].sub = o[i]
  BY <1>6 DEF AbortMsg
<1>8. seq \in [1..Len(o) -> M]
  <2>1. \A i \in 1..Len(o) : seq[i] \in M
    BY <1>2, <1>5, <1>7
  <2>2. DOMAIN seq = 1..Len(o) /\ seq = [i \in 1..Len(o) |-> seq[i]]
    BY <1>6
  <2>. QED  BY <2>1, <2>2
<1>9. seq \in Seq(M) /\ Len(seq) = Len(o)
  <2>. HIDE DEF M
  <2>. QED  BY <1>5, <1>8, FunctionSeq
<1>10. SubsOf(seq) = S
  BY <1>4, <1>5, <1>7, <1>9 DEF SubsOf
<1>11. \A i, j \in 1..Len(seq) : i # j => seq[i].sub # seq[j].sub
  BY <1>4, <1>7, <1>9
<1>. QED  BY <1>9, <1>10, <1>11 DEF S, M

\* One sequence of aborts after another.
LEMMA AbortsJoined ==
    ASSUME NEW M, NEW s \in Seq(M), NEW t \in Seq(M)
    PROVE  /\ s \o t \in Seq(M) /\ SubsOf(s \o t) = SubsOf(s) \cup SubsOf(t)
           /\ Len(s \o t) = Len(s) + Len(t)
           /\ \A i \in 1..Len(s) : (s \o t)[i] = s[i]
           /\ \A i \in 1..Len(t) : (s \o t)[Len(s) + i] = t[i]
<1>. DEFINE w == s \o t
<1>1. /\ w \in Seq(M) /\ Len(w) = Len(s) + Len(t)
      /\ \A i \in 1..(Len(s) + Len(t)) : w[i] = IF i <= Len(s) THEN s[i] ELSE t[i - Len(s)]
  BY ConcatProperties
<1>2. Len(s) \in Nat /\ Len(t) \in Nat
  OBVIOUS
<1>. HIDE DEF w
<1>3. \A i \in 1..Len(s) : i \in 1..Len(w) /\ w[i] = s[i]
  BY <1>1, <1>2
<1>4. \A i \in 1..Len(t) : Len(s) + i \in 1..Len(w) /\ w[Len(s) + i] = t[i]
  <2>. TAKE i \in 1..Len(t)
  <2>1. /\ Len(s) + i \in 1..(Len(s) + Len(t)) /\ ~(Len(s) + i <= Len(s))
        /\ (Len(s) + i) - Len(s) = i
    BY <1>2
  <2>. QED  BY <1>1, <2>1
<1>5. \A i \in 1..Len(w) : i \in 1..Len(s) \/ \E j \in 1..Len(t) : i = Len(s) + j
  <2>. TAKE i \in 1..Len(w)
  <2>1. CASE i <= Len(s)
    BY <1>1, <1>2, <2>1
  <2>2. CASE ~(i <= Len(s))
    <3>1. i - Len(s) \in 1..Len(t) /\ i = Len(s) + (i - Len(s))
      BY <1>1, <1>2, <2>2
    <3>. QED  BY <3>1
  <2>. QED  BY <2>1, <2>2
<1>6. SubsOf(w) = SubsOf(s) \cup SubsOf(t)
  <2>1. SubsOf(s) \subseteq SubsOf(w)
    BY <1>3 DEF SubsOf
  <2>2. SubsOf(t) \subseteq SubsOf(w)
    BY <1>4 DEF SubsOf
  <2>3. ASSUME NEW e \in SubsOf(w) PROVE e \in SubsOf(s) \cup SubsOf(t)
    <3>1. PICK i \in 1..Len(w) : e = w[i].sub
      BY DEF SubsOf
    <3>2. CASE i \in 1..Len(s)
      BY <1>3, <3>1, <3>2 DEF SubsOf
    <3>3. CASE \E j \in 1..Len(t) : i = Len(s) + j
      BY <1>4, <3>1, <3>3 DEF SubsOf
    <3>. QED  BY <1>5, <3>2, <3>3
  <2>. QED  BY <2>1, <2>2, <2>3
<1>. QED  BY <1>1, <1>3, <1>4, <1>6 DEF w

\* A rollback to the a-th row leaves the first l changes of the bucket, and the
\* aborts for the others are due.
LEMMA UndoStarts ==
    ASSUME NEW b, NEW seq \in Seq(RowSet), NEW n \in Nat, n <= Len(seq),
           Holds(b, seq, n),
           NEW seq2 \in Seq(RowSet), NEW a \in Nat, Len(seq2) = a, a <= Len(seq),
           \A i \in 1..a : seq2[i] = seq[i],
           NEW due, \A i \in 1..n : i > a <=> seq[i].owner \in due,
           NEW l \in Nat, l <= n, l <= a, l = n \/ l = a
    PROVE  Undoing(b, seq2, l, due)
<1>1. Len(b.changes) = n /\ \A i \in 1..n : b.changes[i] = seq[i].id
  BY DEF Holds, Carries
<1>2. \A i \in 1..n : i \in DOMAIN seq /\ seq[i].owner \in Owners
  <2>. TAKE i \in 1..n
  <2>1. i \in DOMAIN seq /\ seq[i] \in RowSet
    OBVIOUS
  <2>. QED  BY <2>1 DEF RowSet
<1>. DEFINE own == [i \in 1..n |-> seq[i].owner]
<1>3. own \in [1..n -> Owners] /\ \A i \in 1..n : own[i] = seq[i].owner
  BY <1>2
<1>. HIDE DEF own
<1>4. Marks(b.bounds, own, n)
  <2>1. Marks(b.bounds, OwnersOf(seq), n)
    BY DEF Holds
  <2>2. \A i \in 1..n : OwnersOf(seq)[i] = own[i]
    BY <1>2, <1>3 DEF OwnersOf
  <2>. QED  BY <2>1, <2>2, MarksSame
<1>5. ASSUME NEW i \in 1..n
      PROVE  IF i <= l THEN own[i] = seq2[i].owner /\ own[i] \notin due
             ELSE own[i] \in due
  <2>1. CASE i <= l
    <3>1. i \in 1..a /\ ~(i > a)
      BY <2>1
    <3>. QED  BY <1>3, <2>1, <3>1
  <2>2. CASE ~(i <= l)
    <3>1. i > a
      BY <2>2
    <3>. QED  BY <1>3, <2>2, <3>1
  <2>. QED  BY <2>1, <2>2
<1>6. \A i \in 1..l : b.changes[i] = seq2[i].id
  <2>. TAKE i \in 1..l
  <2>1. i \in 1..n /\ i \in 1..a
    OBVIOUS
  <2>. QED  BY <1>1, <2>1
<1>7. \E q \in [1..n -> Owners] :
          /\ Marks(b.bounds, q, n)
          /\ \A i \in 1..n : IF i <= l THEN q[i] = seq2[i].owner /\ q[i] \notin due
                             ELSE q[i] \in due
  BY <1>3, <1>4, <1>5
<1>. QED  BY <1>1, <1>6, <1>7 DEF Undoing

\* ROLLBACK TO: the bucket is as it was, and the aborts on the wire are those of
\* the changes it has to give up.
LEMMA RollbackKeeps ==
    ASSUME AssemblerInv, NEW x \in Xids, RollbackTo(x)
    PROVE  AssemblerInv'
<1>0. /\ ServerType /\ Savepoints /\ Idle /\ x \in open
      /\ rows[x] \in Seq(RowSet) /\ stack[x] \in Seq(FrameSet) /\ stack[x] # <<>>
      /\ sent[x] \in Nat /\ sent[x] <= Len(rows[x]) /\ open \subseteq Xids
      /\ Waiting /\ DOMAIN pending \subseteq Xids /\ Len(history) \in Nat
      /\ FramesCut(stack[x], rows[x]) /\ StreamedSent(x)
      /\ next_sub \in Nat /\ next_change \in Nat
  BY InvParts, IdleWaits DEF RollbackTo, ServerType, Savepoints, RowsInOrder
<1>. DEFINE n == Len(stack[x]) - 1
            top == stack[x][n + 1]
            a == top.at
            M == {top.sub} \cup top.kids
            D == M \cap streamed[x]
            seq == SubSeq(rows[x], 1, a)
            st == SubSeq(stack[x], 1, n)
            l == IF sent[x] < a THEN sent[x] ELSE a
<1>1. n \in Nat /\ Len(stack[x]) = n + 1 /\ top \in FrameSet
  BY <1>0
<1>2. /\ top = Last(stack[x]) /\ st = Front(stack[x])
      /\ rows' = [rows EXCEPT ![x] = seq]
      /\ sent' = [sent EXCEPT ![x] = l]
      /\ stack' = [stack EXCEPT ![x] = st]
      /\ UNCHANGED <<open, streamed, next_sub, next_change, history, connVars,
                     asmVars>>
  <2>1. top = Last(stack[x]) /\ st = Front(stack[x])
    BY <1>1 DEF Last, Front
  <2>. QED  BY <2>1 DEF RollbackTo
<1>3. PICK kids \in Aborts(x, top.kids), own \in Aborts(x, {top.sub}) : wire' = kids \o own
  BY <1>2 DEF RollbackTo
<1>4. /\ a \in Nat /\ a <= Len(rows[x]) /\ M \subseteq Subxids
  BY <1>0, <1>1 DEF FrameSet, FramesCut
<1>5. l \in Nat /\ l <= sent[x] /\ l <= a /\ (l = sent[x] \/ l = a)
  BY <1>0, <1>4
<1>6. /\ seq \in Seq(RowSet) /\ Len(seq) = a /\ \A i \in 1..a : seq[i] = rows[x][i]
      /\ st \in Seq(FrameSet) /\ Len(st) = n /\ \A i \in 1..n : st[i] = stack[x][i]
  <2>1. a \in 0..Len(rows[x]) /\ n \in 0..Len(stack[x])
    BY <1>0, <1>1, <1>4
  <2>. HIDE DEF a, n
  <2>. QED  BY <1>0, <2>1, FirstOnes
<1>7. \A i \in 1..Len(rows[x]) : i > a <=> rows[x][i].owner \in M
  <2>. TAKE i \in 1..Len(rows[x])
  <2>1. i > a <=> Inside(stack[x], n + 1, rows[x][i].owner)
    BY <1>0, <1>1 DEF FramesCut
  <2>2. (n + 1)..Len(stack[x]) = {n + 1}
    BY <1>1
  <2>. QED  BY <2>1, <2>2 DEF Inside
<1>8. /\ wire' \in Seq({AbortMsg(x, s) : s \in Owners}) /\ SubsOf(wire') = D
      /\ Due' = D
  <2>1. /\ kids \in Seq({AbortMsg(x, s) : s \in Owners})
        /\ SubsOf(kids) = top.kids \cap streamed[x]
        /\ own \in Seq({AbortMsg(x, s) : s \in Owners})
        /\ SubsOf(own) = {top.sub} \cap streamed[x]
    <3>. HIDE DEF top
    <3>. QED  BY <1>0, AbortsAre
  <2>2. /\ wire' \in Seq({AbortMsg(x, s) : s \in Owners})
        /\ SubsOf(wire') = SubsOf(kids) \cup SubsOf(own)
    BY <1>3, <2>1, AbortsJoined
  <2>3. Due' = SubsOf(wire')
    BY DEF Due, SubsOf
  <2>. QED  BY <2>1, <2>2, <2>3
<1>. HIDE DEF n, a, D, seq, st, l, M
<1>9. /\ rows'[x] = seq /\ sent'[x] = l /\ stack'[x] = st /\ Elsewhere(x)
      /\ open' = open /\ streamed' = streamed
  <2>1. /\ rows \in [Xids -> Seq(RowSet)] /\ sent \in [Xids -> Nat]
        /\ stack \in [Xids -> Seq(FrameSet)]
    BY <1>0 DEF ServerType
  <2>2. rows'[x] = seq /\ \A y \in Xids \ {x} : rows'[y] = rows[y]
    BY <1>2, <2>1
  <2>3. sent'[x] = l /\ \A y \in Xids \ {x} : sent'[y] = sent[y]
    BY <1>2, <2>1
  <2>4. stack'[x] = st /\ \A y \in Xids \ {x} : stack'[y] = stack[y]
    BY <1>2, <2>1
  <2>. QED  BY <1>2, <2>2, <2>3, <2>4 DEF Elsewhere
<1>10. ServerType'
  <2>1. rows' \in [Xids -> Seq(RowSet)]
    BY <1>0, <1>2, <1>6 DEF ServerType
  <2>2. sent' \in [Xids -> Nat]
    BY <1>0, <1>2, <1>5 DEF ServerType
  <2>3. stack' \in [Xids -> Seq(FrameSet)]
    BY <1>0, <1>2, <1>6 DEF ServerType
  <2>. QED  BY <1>0, <1>2, <2>1, <2>2, <2>3 DEF ServerType, connVars
<1>11. RowsInOrder(x)'
  <2>1. /\ \A i \in 1..Len(rows[x]) :
              rows[x][i].owner < next_sub /\ rows[x][i].msg < next_change
        /\ \A i, j \in 1..Len(rows[x]) :
              rows[x][i].msg = rows[x][j].msg => rows[x][i].owner = rows[x][j].owner
    BY <1>0 DEF Savepoints, RowsInOrder
  <2>2. \A i \in 1..Len(seq) : i \in 1..Len(rows[x]) /\ seq[i] = rows[x][i]
    BY <1>0, <1>4, <1>6
  <2>3. \A i \in 1..Len(seq) : seq[i].owner < next_sub /\ seq[i].msg < next_change
    BY <2>1, <2>2
  <2>4. \A i, j \in 1..Len(seq) : seq[i].msg = seq[j].msg => seq[i].owner = seq[j].owner
    BY <2>1, <2>2
  <2>5. next_sub' = next_sub /\ next_change' = next_change
    BY <1>2
  <2>6. l <= Len(seq)
    BY <1>5, <1>6
  <2>. QED  BY <1>9, <2>3, <2>4, <2>5, <2>6 DEF RowsInOrder
<1>12. FramesOld(x)' /\ FramesCut(stack[x], rows[x])'
  <2>1. \A j \in 1..Len(st) : st[j].sub < next_sub
    <3>. TAKE j \in 1..Len(st)
    <3>1. j \in 1..Len(stack[x]) /\ st[j] = stack[x][j]
      BY <1>1, <1>6
    <3>. QED  BY <1>0, <3>1 DEF Savepoints, FramesOld
  <2>2. Len(seq) = stack[x][n + 1].at
    BY <1>6 DEF a
  <2>3. FramesCut(st, seq)
    BY <1>0, <1>1, <1>6, <2>2, FramesPopped
  <2>4. next_sub' = next_sub
    BY <1>2
  <2>. QED  BY <1>9, <2>1, <2>3, <2>4 DEF FramesOld
<1>13. StreamedSent(x)'
  <2>1. \A i \in 1..l : seq[i].owner \in streamed[x]
    <3>. TAKE i \in 1..l
    <3>1. i \in 1..sent[x] /\ i \in 1..a
      BY <1>0, <1>4, <1>5
    <3>. QED  BY <1>0, <1>6, <3>1 DEF StreamedSent
  <2>. QED  BY <1>0, <1>9, <2>1 DEF StreamedSent
<1>14. Savepoints'
  <2>1. /\ next_sub' \in Nat /\ next_change' \in Nat
        /\ next_sub' >= next_sub /\ next_change' >= next_change
        /\ open' \subseteq Xids /\ drops' = drops
        /\ drops = 0 /\ streamed'[x] # {} => x \in open'
    BY <1>0, <1>2 DEF connVars
  <2>. QED  BY <1>0, <1>9, <1>11, <1>12, <1>13, <2>1, SavepointsKept
<1>15. \A i \in 1..sent[x] : i > a <=> rows[x][i].owner \in D
  <2>. TAKE i \in 1..sent[x]
  <2>1. i \in 1..Len(rows[x])
    BY <1>0
  <2>. QED  BY <1>0, <1>7, <2>1 DEF D, StreamedSent
<1>16. /\ pending' = pending /\ current_xid' = current_xid /\ emitted' = emitted
       /\ active_stream_xid' = active_stream_xid /\ drops' = drops
       /\ history' = history /\ UNCHANGED <<asmVars, connVars>>
       /\ Received' = Received
  BY <1>2 DEF asmVars, connVars, Received
<1>17. ASSUME D = {} PROVE Phase'
  <2>1. wire' = <<>>
    <3>0. Len(wire') \in Nat
      BY <1>8
    <3>1. ASSUME 1 \in 1..Len(wire') PROVE FALSE
      <4>1. wire'[1].sub \in SubsOf(wire')
        BY <3>1 DEF SubsOf
      <4>. QED  BY <1>8, <1>17, <4>1
    <3>. QED  BY <1>8, <3>0, <3>1
  <2>2. l = sent[x]
    <3>. SUFFICES ASSUME a < sent[x] PROVE FALSE
      BY <1>0, <1>4, <1>5
    <3>1. a + 1 \in 1..sent[x] /\ a + 1 > a
      BY <1>0, <1>4
    <3>. QED  BY <1>15, <1>17, <3>1
  <2>3. /\ streamed'[x] = streamed[x] /\ sent'[x] = sent[x]
        /\ sent[x] <= Len(rows'[x])
        /\ \A i \in 1..sent[x] : rows'[x][i] = rows[x][i]
    <3>1. \A i \in 1..sent[x] : i \in 1..a
      BY <1>0, <1>4, <1>5, <2>2
    <3>. QED  BY <1>5, <1>6, <1>9, <2>2, <3>1
  <2>4. Waiting'
    BY <1>0, <1>9, <1>10, <1>16, <2>1, <2>3, WaitingKept
  <2>. QED  BY <2>4 DEF Phase
<1>18. ASSUME D # {} PROVE Phase'
  <2>1. /\ Rest(None) /\ Settled /\ StaleXid /\ StaleStream
        /\ None \notin Xids /\ streamed[x] # {}
    BY <1>0, <1>18, BoundsAssumption DEF Waiting, Xids, None, D
  <2>2. /\ x \in DOMAIN pending /\ Holds(pending[x], rows[x], sent[x])
        /\ active_stream_xid = None /\ current_xid # x
    BY <1>0, <2>1 DEF Rest, StaleStream
  <2>3. Rest(x)'
    BY <1>0, <1>9, <1>16, <2>1, RestMoved
  <2>4. wire' # <<>>
    BY <1>8, <1>18 DEF SubsOf
  <2>5. AbortsOf(x)'
    BY <1>8, <1>16, <2>1, <2>2, <2>3, <2>4 
       DEF AbortsOf, Settled, StaleXid
  <2>6. x \notin Due'
    BY <1>4, <1>8, BoundsAssumption DEF D, Xids, Subxids
  <2>7. Undoing(pending[x], seq, l, D)
    BY <1>0, <1>4, <1>5, <1>6, <1>15, <2>2, UndoStarts
  <2>8. Undoing(pending[x], rows[x], sent[x], Due)'
    BY <1>8, <1>9, <1>16, <2>7
  <2>9. RollingBack(x)'
    BY <1>0, <1>9, <1>16, <2>1, <2>2, <2>5, <2>6, <2>8 DEF RollingBack
  <2>. QED  BY <2>9 DEF Phase
<1>19. Phase'
  BY <1>17, <1>18
<1>20. Recorded'
  <2>1. \A y \in Xids \ open : rows'[y] = rows[y]
    BY <1>0, <1>9 DEF Elsewhere
  <2>. QED  BY <1>9, <1>16, <2>1, RecordedKept DEF AssemblerInv
<1>. QED  BY <1>0, <1>10, <1>14, <1>16, <1>19, <1>20, SessionKeeps

-----------------------------------------------------------------------------
(* What is put on the wire *)

\* A transaction sent when it commits: Begin, its rows, Commit.
LEMMA PlainWire ==
    ASSUME NEW x \in Xids, NEW seq \in Seq(RowSet), NEW h \in Nat
    PROVE  Plain(x, seq, h) =
              <<[kind |-> "Begin", xid |-> x, final_lsn |-> h]>>
                 \o (RowMsgs(seq, 0, FALSE) \o <<[kind |-> "Commit", lsn |-> h]>>)
<1>. DEFINE begin == [kind |-> "Begin", xid |-> x, final_lsn |-> h]
            commit == [kind |-> "Commit", lsn |-> h]
            r == RowMsgs(seq, 0, FALSE)
<1>1. begin \in Messages /\ commit \in Messages
  BY DEF Messages
<1>2. r \in Seq(Messages)
  <2>1. 0 \in 0..Len(seq) /\ FALSE \in BOOLEAN
    OBVIOUS
  <2>2. r \in Seq(RowMsgSet)
    BY <2>1, RowMsgsAre
  <2>3. RowMsgSet \subseteq Messages
    BY DEF Messages
  <2>. HIDE DEF r
  <2>. QED  BY <2>2, <2>3
<1>3. Plain(x, seq, h) = (<<begin>> \o r) \o <<commit>>
  BY DEF Plain
<1>. HIDE DEF begin, commit, r
<1>4. <<begin>> \in Seq(Messages) /\ <<commit>> \in Seq(Messages)
  BY <1>1
<1>5. Plain(x, seq, h) = <<begin>> \o (r \o <<commit>>)
  BY <1>2, <1>3, <1>4, ConcatAssociative
<1>. QED  BY <1>5 DEF begin, commit, r

\* A chunk and what follows it: StreamStart, the rows, StreamStop.
LEMMA ChunkWire ==
    ASSUME NEW x \in Xids, NEW seq \in Seq(RowSet), NEW k \in 0..Len(seq),
           k # Len(seq), NEW first \in BOOLEAN, NEW tail \in Seq(Messages)
    PROVE  /\ Chunk(x, seq, k, first) \in Seq(Messages)
           /\ Chunk(x, seq, k, first) \o tail =
                 <<StartMsg(x, first)>>
                    \o (RowMsgs(seq, k, TRUE) \o (<<StopMsg>> \o tail))
<1>. DEFINE r == RowMsgs(seq, k, TRUE)
            head == <<StartMsg(x, first)>>
            stop == <<StopMsg>>
<1>1. StartMsg(x, first) \in Messages /\ StopMsg \in Messages
  BY DEF Messages, StartMsg, StopMsg
<1>2. r \in Seq(Messages)
  <2>1. TRUE \in BOOLEAN
    OBVIOUS
  <2>2. r \in Seq(RowMsgSet)
    BY <2>1, RowMsgsAre
  <2>3. RowMsgSet \subseteq Messages
    BY DEF Messages
  <2>. HIDE DEF r
  <2>. QED  BY <2>2, <2>3
<1>3. Chunk(x, seq, k, first) = (head \o r) \o stop
  BY DEF Chunk, StartMsg, StopMsg
<1>4. head \in Seq(Messages) /\ stop \in Seq(Messages)
  BY <1>1
<1>. HIDE DEF head, stop, r
<1>5. (head \o r) \o stop \in Seq(Messages)
  BY <1>2, <1>4
<1>6. ((head \o r) \o stop) \o tail = head \o (r \o (stop \o tail))
  <2>1. head \in Seq(Messages)
    BY <1>4
  <2>2. stop \in Seq(Messages)
    BY <1>4
  <2>3. tail \in Seq(Messages)
    OBVIOUS
  <2>. QED  BY <1>2, <2>1, <2>2, <2>3, SMTT(60)
<1>. QED  BY <1>3, <1>5, <1>6 DEF head, stop, r

\* A transaction as the assembler knows it between messages.
LEMMA OpenOne ==
    ASSUME AssemblerInv, Waiting, NEW x \in Xids
    PROVE  /\ streamed[x] # {} => /\ Resumed(x, sent[x]) /\ active_stream_xid = None
           /\ streamed[x] = {} =>
                 sent[x] = 0 /\ FirstOf(x) /\ (drops = 0 => active_stream_xid = None)
<1>0. /\ Rest(None) /\ Settled /\ StaleXid /\ StaleStream
      /\ None \notin Xids /\ StreamedSent(x) /\ sent[x] \in Nat
  BY InvParts, BoundsAssumption DEF Waiting, Xids, None, Savepoints, ServerType
<1>1. ASSUME streamed[x] # {} PROVE Resumed(x, sent[x]) /\ active_stream_xid = None
  BY <1>0, <1>1 DEF Rest, StaleStream, Resumed
<1>2. ASSUME streamed[x] = {}
      PROVE  sent[x] = 0 /\ FirstOf(x) /\ (drops = 0 => active_stream_xid = None)
  <2>1. 1 \notin 1..sent[x]
    BY <1>0, <1>2 DEF StreamedSent
  <2>2. sent[x] = 0
    BY <1>0, <2>1
  <2>3. drops = 0 => x \notin DOMAIN pending
    BY <1>0, <1>2 DEF Rest
  <2>. QED  BY <1>0, <2>2, <2>3 DEF FirstOf, StaleStream
<1>. QED  BY <1>1, <1>2

\* StreamChunk sends what x has not sent yet.
LEMMA StreamChunkKeeps ==
    ASSUME AssemblerInv, NEW x \in Xids, StreamChunk(x)
    PROVE  AssemblerInv'
<1>0. /\ ServerType /\ Savepoints /\ Idle
      /\ rows[x] \in Seq(RowSet) /\ sent[x] \in Nat /\ sent[x] < Len(rows[x])
      /\ open \subseteq Xids /\ Waiting /\ DOMAIN pending \subseteq Xids
      /\ Len(history) \in Nat /\ StreamedSent(x)
      /\ (x \in open => FramesCut(stack[x], rows[x]))
      /\ next_sub \in Nat /\ next_change \in Nat /\ FramesOld(x) /\ RowsInOrder(x)
  BY InvParts, IdleWaits DEF StreamChunk, ServerType, Savepoints
<1>. DEFINE N == {rows[x][i].owner : i \in (sent[x] + 1)..Len(rows[x])}
            S == streamed[x] \cup {x} \cup N
<1>. PICK k \in Nat, first \in BOOLEAN : k = sent[x] /\ (first <=> streamed[x] = {})
  BY <1>0
<1>1. /\ wire' = Chunk(x, rows[x], k, first)
      /\ streamed' = [streamed EXCEPT ![x] = S]
      /\ sent' = [sent EXCEPT ![x] = Len(rows[x])]
      /\ UNCHANGED <<open, stack, rows, next_sub, next_change, history, connVars,
                     asmVars>>
  BY DEF StreamChunk
<1>2. S \subseteq Owners
  <2>1. \A i \in (sent[x] + 1)..Len(rows[x]) : rows[x][i].owner \in Owners
    <3>. TAKE i \in (sent[x] + 1)..Len(rows[x])
    <3>1. i \in 1..Len(rows[x])
      BY <1>0
    <3>2. rows[x][i] \in RowSet
      BY <1>0, <3>1
    <3>. QED  BY <3>2 DEF RowSet
  <2>2. streamed[x] \subseteq Owners /\ x \in Owners
    BY <1>0 DEF ServerType, Owners
  <2>. QED  BY <2>1, <2>2
<1>3. \A i \in 1..Len(rows[x]) : rows[x][i].owner \in S
  <2>. TAKE i \in 1..Len(rows[x])
  <2>1. CASE i <= sent[x]
    <3>1. i \in 1..sent[x]
      BY <1>0, <2>1
    <3>. QED  BY <1>0, <3>1 DEF StreamedSent
  <2>2. CASE ~(i <= sent[x])
    <3>1. i \in (sent[x] + 1)..Len(rows[x])
      BY <1>0, <2>2
    <3>. QED  BY <3>1
  <2>. QED  BY <2>1, <2>2
<1>4. x \in S /\ S # {}
  OBVIOUS
<1>. HIDE DEF S, N
<1>5. /\ streamed'[x] = S /\ sent'[x] = Len(rows[x]) /\ rows' = rows /\ open' = open
      /\ Elsewhere(x)
  <2>1. sent \in [Xids -> Nat] /\ streamed \in [Xids -> SUBSET Owners]
    BY <1>0 DEF ServerType
  <2>. QED  BY <1>1, <2>1 DEF Elsewhere
<1>6. ServerType'
  <2>1. sent' \in [Xids -> Nat]
    BY <1>0, <1>1 DEF ServerType
  <2>2. streamed' \in [Xids -> SUBSET Owners]
    BY <1>0, <1>1, <1>2 DEF ServerType
  <2>. QED  BY <1>0, <1>1, <2>1, <2>2 DEF ServerType, connVars
<1>7. Savepoints'
  <2>1. /\ next_sub' = next_sub /\ next_change' = next_change /\ stack' = stack
    BY <1>1
  <2>2. RowsInOrder(x)'
    <3>1. sent'[x] <= Len(rows'[x])
      BY <1>0, <1>5
    <3>. QED  BY <1>0, <1>5, <2>1, <3>1 DEF RowsInOrder
  <2>3. FramesOld(x)' /\ (x \in open' => FramesCut(stack[x], rows[x])')
    BY <1>0, <1>5, <2>1 DEF FramesOld
  <2>4. StreamedSent(x)'
    BY <1>3, <1>4, <1>5 DEF StreamedSent
  <2>5. /\ next_sub' \in Nat /\ next_change' \in Nat
        /\ next_sub' >= next_sub /\ next_change' >= next_change
        /\ open' \subseteq Xids /\ drops' = drops
    BY <1>0, <1>1, <2>1, <1>5 DEF connVars
  <2>6. drops = 0 => x \in open'
    <3>. SUFFICES ASSUME drops = 0 PROVE x \in open
      BY <1>5
    <3>1. NextLsn = Len(history) + 1
      BY <1>0 DEF Waiting, Settled, NextLsn
    <3>2. NextLsn..Len(history) = {}
      BY <1>0, <3>1
    <3>. QED  BY <3>2 DEF StreamChunk, InProgress
  <2>. QED  BY <1>0, <1>5, <2>2, <2>3, <2>4, <2>5, <2>6, SavepointsKept
<1>8. /\ pending' = pending /\ current_xid' = current_xid /\ emitted' = emitted
      /\ active_stream_xid' = active_stream_xid /\ drops' = drops
      /\ history' = history /\ UNCHANGED <<asmVars, connVars>>
      /\ Received' = Received
  BY <1>1 DEF asmVars, connVars, Received
<1>9. ChunkOf(x, FALSE)'
  <2>1. Rest(None) /\ Settled
    BY <1>0 DEF Waiting
  <2>2. Rest(x)'
    BY <1>0, <1>5, <1>8, <2>1, RestMoved
  <2>. QED  BY <1>0, <1>4, <1>5, <1>8, <2>1, <2>2 DEF ChunkOf, Settled
<1>10. wire' = (<<StartMsg(x, first)>> \o ChunkRest(x, k, FALSE))'
  <2>0. k \in 0..Len(rows[x]) /\ k # Len(rows[x]) /\ <<>> \in Seq(Messages)
    BY <1>0
  <2>1. wire' \in Seq(Messages) /\ wire' \o <<>> =
           <<StartMsg(x, first)>> \o (RowMsgs(rows[x], k, TRUE) \o (<<StopMsg>> \o <<>>))
    BY <1>0, <1>1, <2>0, ChunkWire
  <2>2. wire' \o <<>> = wire'
    BY <2>1, ConcatEmptySeq
  <2>3. ChunkRest(x, k, FALSE)' = RowMsgs(rows[x], k, TRUE) \o (<<StopMsg>> \o <<>>)
    BY <1>5 DEF ChunkRest, After, RowMsgs, StopMsg
  <2>. QED  BY <2>1, <2>2, <2>3 DEF StartMsg
<1>11. ChunkDue(x, k, first, FALSE)'
  <2>1. first => (k = 0 /\ FirstOf(x) /\ (drops = 0 => active_stream_xid = None))'
    <3>. SUFFICES ASSUME streamed[x] = {}
                  PROVE  (k = 0 /\ FirstOf(x) /\ (drops = 0 => active_stream_xid = None))'
      OBVIOUS
    <3>1. sent[x] = 0 /\ FirstOf(x) /\ (drops = 0 => active_stream_xid = None)
      BY <1>0, OpenOne
    <3>. QED  BY <1>8, <3>1 DEF FirstOf, StaleXid
  <2>2. ~first => (Resumed(x, k) /\ active_stream_xid = None)'
    <3>. SUFFICES ASSUME streamed[x] # {}
                  PROVE  (Resumed(x, k) /\ active_stream_xid = None)'
      OBVIOUS
    <3>1. Resumed(x, k) /\ active_stream_xid = None
      BY <1>0, OpenOne
    <3>. QED  BY <1>5, <1>8, <3>1 DEF Resumed, StaleXid
  <2>. QED  BY <1>9, <1>10, <2>1, <2>2 DEF ChunkDue
<1>12. Phase'
  <2>1. k \in 0..Len(rows'[x]) /\ FALSE \in BOOLEAN
    BY <1>0, <1>5
  <2>. QED  BY <1>11, <2>1 DEF Phase
<1>13. Recorded'
  BY <1>5, <1>8, RecordedKept DEF AssemblerInv
<1>. QED  BY <1>0, <1>6, <1>7, <1>8, <1>12, <1>13, SessionKeeps

\* What is left of x and its commit are sent, at the next position.
LEMMA SendKeeps ==
    ASSUME AssemblerInv, Idle, NEW x \in Xids, SendCommit(x), open' = open \ {x},
           UNCHANGED <<stack, rows, next_sub, next_change, connVars, asmVars>>,
           history' \in Seq(CommitSet), Len(history) <= Len(history'),
           \A i \in 1..Len(history) : history'[i] = history[i],
           Recorded', NextLsn <= Len(history'), drops = 0 => NextLsn = Len(history'),
           history'[NextLsn] = [xid |-> x, commit_lsn |-> NextLsn,
                                changes |-> Ids(rows[x])]
    PROVE  AssemblerInv'
<1>0. /\ ServerType /\ Savepoints /\ rows[x] \in Seq(RowSet)
      /\ sent[x] \in Nat /\ sent[x] <= Len(rows[x])
      /\ open \subseteq Xids /\ Waiting /\ DOMAIN pending \subseteq Xids
      /\ Len(history) \in Nat /\ NextLsn \in Nat
      /\ next_sub \in Nat /\ next_change \in Nat /\ FramesOld(x) /\ RowsInOrder(x)
      /\ Rest(None)
  <2>1. ServerType /\ Savepoints /\ Waiting /\ DOMAIN pending \subseteq Xids
    BY InvParts, IdleWaits
  <2>2. Len(history) \in Nat /\ NextLsn \in Nat
    BY InvParts
  <2>. QED  BY <2>1, <2>2 DEF ServerType, Savepoints, RowsInOrder, Waiting
<1>. PICK k \in Nat, h \in Nat : k = sent[x] /\ h = NextLsn
  BY <1>0
<1>1. /\ wire' = IF streamed[x] = {} THEN Plain(x, rows[x], h)
                 ELSE Chunk(x, rows[x], k, FALSE) \o <<StreamCommitMsg(x, h)>>
      /\ sent' = [sent EXCEPT ![x] = 0] /\ streamed' = [streamed EXCEPT ![x] = {}]
  BY DEF SendCommit, Forget
<1>4. /\ streamed'[x] = {} /\ sent'[x] = 0 /\ rows' = rows
      /\ x \notin open' /\ open' \subseteq Xids /\ Elsewhere(x)
  <2>1. sent \in [Xids -> Nat] /\ streamed \in [Xids -> SUBSET Owners]
    BY <1>0 DEF ServerType
  <2>. QED  BY <1>0, <1>1, <2>1 DEF Elsewhere
<1>5. ServerType'
  <2>1. sent' \in [Xids -> Nat]
    BY <1>0, <1>1 DEF ServerType
  <2>2. streamed' \in [Xids -> SUBSET Owners]
    BY <1>0, <1>1 DEF ServerType
  <2>3. start' <= Len(history') /\ reached' <= Len(history')
    BY <1>0 DEF ServerType, connVars
  <2>. QED  BY <1>0, <1>4, <2>1, <2>2, <2>3 DEF ServerType, connVars
<1>6. Savepoints'
  <2>1. RowsInOrder(x)'
    <3>1. sent'[x] <= Len(rows'[x])
      BY <1>0, <1>4
    <3>. QED  BY <1>0, <1>4, <3>1 DEF RowsInOrder
  <2>2. FramesOld(x)' /\ StreamedSent(x)'
    BY <1>0, <1>4 DEF FramesOld, StreamedSent
  <2>3. /\ next_sub' \in Nat /\ next_change' \in Nat /\ drops' = drops
        /\ next_sub' >= next_sub /\ next_change' >= next_change
    BY <1>0 DEF connVars
  <2>. QED  BY <1>0, <1>4, <2>1, <2>2, <2>3, SavepointsKept
<1>7. /\ pending' = pending /\ current_xid' = current_xid /\ emitted' = emitted
      /\ active_stream_xid' = active_stream_xid /\ drops' = drops
      /\ NextLsn' = h
  BY DEF asmVars, connVars, NextLsn, Received
<1>8. Rest(x)' /\ Committing(x)'
  <2>1. Rest(x)'
    BY <1>0, <1>4, <1>7, RestMoved
  <2>2. Ids(rows[x])' = Ids(rows[x])
    BY <1>4
  <2>3. Committing(x)'
    BY <1>4, <1>7, <2>2 DEF Committing
  <2>. QED  BY <2>1, <2>3
<1>9. StaleStream'
  <2>1. StaleStream
    BY <1>0 DEF Waiting
  <2>2. \A y \in Xids : streamed[y] = {} => streamed'[y] = {}
    BY <1>4 DEF Elsewhere
  <2>. QED  BY <1>7, <2>1, <2>2 DEF StaleStream
<1>10. ASSUME streamed[x] = {} PROVE Phase'
  <2>1. FirstOf(x)'
    <3>1. FirstOf(x)
      BY <1>0, <1>10, OpenOne
    <3>. QED  BY <1>7, <3>1 DEF FirstOf, StaleXid
  <2>2. wire' = (<<BeginMsg(x)>> \o PlainRest(x, 0))'
    <3>1. wire' = <<[kind |-> "Begin", xid |-> x, final_lsn |-> h]>>
                 \o (RowMsgs(rows[x], 0, FALSE) \o <<[kind |-> "Commit", lsn |-> h]>>)
      BY <1>0, <1>1, <1>10, PlainWire
    <3>2. BeginMsg(x)' = [kind |-> "Begin", xid |-> x, final_lsn |-> h]
          /\ CommitMsg' = [kind |-> "Commit", lsn |-> h]
      BY <1>7 DEF BeginMsg, CommitMsg
    <3>3. PlainRest(x, 0)' = RowMsgs(rows[x], 0, FALSE) \o <<[kind |-> "Commit", lsn |-> h]>>
      BY <1>4, <3>2 DEF PlainRest
    <3>. QED  BY <3>1, <3>2, <3>3
  <2>3. PlainDue(x)'
    BY <1>8, <1>9, <2>1, <2>2 DEF PlainDue
  <2>. QED  BY <2>3 DEF Phase
<1>11. ASSUME streamed[x] # {}, k = Len(rows[x]) PROVE Phase'
  <2>1. wire' = <<StreamCommitMsg(x, h)>>
    <3>1. wire' = <<>> \o <<StreamCommitMsg(x, h)>>
      BY <1>1, <1>11 DEF Chunk
    <3>2. <<StreamCommitMsg(x, h)>> \in Seq({StreamCommitMsg(x, h)})
      OBVIOUS
    <3>. QED  BY <3>1, <3>2, ConcatEmptySeq
  <2>2. wire' = After(x, TRUE)'
    BY <1>7, <2>1 DEF After, StreamCommitMsg
  <2>3. Resumed(x, k) /\ active_stream_xid = None
    BY <1>0, <1>11, OpenOne
  <2>4. Resumed(x, k)' /\ active_stream_xid' = None
    BY <1>4, <1>7, <2>3 DEF Resumed, StaleXid
  <2>5. k = Len(rows[x])'
    BY <1>4, <1>11
  <2>6. StreamCommitDue(x)'
    BY <1>8, <2>2, <2>4, <2>5 DEF StreamCommitDue
  <2>. QED  BY <2>6 DEF Phase
<1>12. ASSUME streamed[x] # {}, k # Len(rows[x]) PROVE Phase'
  <2>0. k \in 0..Len(rows[x]) /\ FALSE \in BOOLEAN /\ TRUE \in BOOLEAN
        /\ StreamCommitMsg(x, h) \in Messages
    BY <1>0 DEF StreamCommitMsg, Messages
  <2>1. <<StreamCommitMsg(x, h)>> \in Seq(Messages)
    BY <2>0
  <2>2. Chunk(x, rows[x], k, FALSE) \o <<StreamCommitMsg(x, h)>> =
           <<StartMsg(x, FALSE)>> \o (RowMsgs(rows[x], k, TRUE)
               \o (<<StopMsg>> \o <<StreamCommitMsg(x, h)>>))
    BY <1>0, <1>12, <2>0, <2>1, ChunkWire
  <2>3. After(x, TRUE)' = <<StreamCommitMsg(x, h)>>
    BY <1>7 DEF After, StreamCommitMsg
  <2>4. ChunkRest(x, k, TRUE)' = RowMsgs(rows[x], k, TRUE)
                                    \o (<<StopMsg>> \o <<StreamCommitMsg(x, h)>>)
    BY <1>4, <2>3 DEF ChunkRest, StopMsg
  <2>5. wire' = (<<StartMsg(x, FALSE)>> \o ChunkRest(x, k, TRUE))'
    BY <1>1, <1>12, <2>2, <2>4 DEF StartMsg
  <2>6. Resumed(x, k) /\ active_stream_xid = None
    BY <1>0, <1>12, OpenOne
  <2>7. Resumed(x, k)' /\ active_stream_xid' = None
    BY <1>4, <1>7, <2>6 DEF Resumed, StaleXid
  <2>8. ChunkOf(x, TRUE)'
    BY <1>8 DEF ChunkOf
  <2>9. ChunkDue(x, k, FALSE, TRUE)'
    BY <2>5, <2>7, <2>8 DEF ChunkDue
  <2>10. k \in 0..Len(rows'[x])
    BY <1>4, <2>0
  <2>. QED  BY <2>0, <2>9, <2>10 DEF Phase
<1>13. Phase'
  BY <1>10, <1>11, <1>12
<1>. QED  BY <1>5, <1>6, <1>13, SessionKeeps

\* CommitX: the transaction gets the position after everything committed.
LEMMA CommitKeeps ==
    ASSUME AssemblerInv, NEW x \in Xids, CommitX(x)
    PROVE  AssemblerInv'
<1>0. /\ history \in Seq(CommitSet) /\ Recorded /\ rows[x] \in Seq(RowSet)
      /\ Len(history) \in Nat /\ x \in open /\ Idle
  <2>1. ServerType /\ rows[x] \in Seq(RowSet) /\ Len(history) \in Nat
    BY InvParts
  <2>. QED  BY <2>1 DEF CommitX, ServerType, AssemblerInv
<1>. PICK h \in Nat : h = Len(history) + 1
  BY <1>0
<1>. DEFINE e == [xid |-> x, commit_lsn |-> h, changes |-> Ids(rows[x])]
<1>1. /\ NextLsn = h /\ SendCommit(x) /\ open' = open \ {x}
      /\ UNCHANGED <<stack, rows, next_sub, next_change, connVars, asmVars>>
      /\ history' = Append(history, e)
  BY DEF CommitX, NextLsn
<1>2. e \in CommitSet
  <2>1. \A i \in 1..Len(rows[x]) : rows[x][i].id \in 1..MaxChange
    <3>. TAKE i \in 1..Len(rows[x])
    <3>1. rows[x][i] \in RowSet
      BY <1>0
    <3>. QED  BY <3>1 DEF RowSet
  <2>2. Ids(rows[x]) \in Seq(1..MaxChange)
    BY <1>0, <2>1, IdsOf
  <2>. QED  BY <2>2 DEF CommitSet
<1>3. /\ history' \in Seq(CommitSet) /\ Len(history') = h /\ history'[h] = e
      /\ Len(history) <= Len(history')
      /\ \A i \in 1..Len(history) : history'[i] = history[i]
  <2>. HIDE DEF e
  <2>. QED  BY <1>0, <1>1, <1>2
<1>4. Recorded'
  <2>0. rows' = rows /\ Len(history') = h
    BY <1>1, <1>3
  <2>. SUFFICES ASSUME NEW i \in 1..h
                PROVE  /\ history'[i].xid \in Xids \ open'
                       /\ history'[i] = [xid |-> history'[i].xid, commit_lsn |-> i,
                                         changes |-> Ids(rows'[history'[i].xid])]
    <3>. HIDE DEF e
    <3>. QED  BY <2>0 DEF Recorded, Ids
  <2>1. CASE i = h
    BY <2>0, <2>1, <1>0, <1>1, <1>3
  <2>2. CASE i # h
    <3>1. i \in 1..Len(history)
      BY <2>2
    <3>2. history'[i] = history[i] /\ open' \subseteq open
      BY <3>1, <1>1, <1>3
    <3>. QED  BY <2>0, <3>1, <3>2, <1>0 DEF Recorded
  <2>. QED  BY <2>1, <2>2
<1>5. history'[NextLsn] = [xid |-> x, commit_lsn |-> NextLsn, changes |-> Ids(rows[x])]
  BY <1>1, <1>3
<1>. HIDE DEF e
<1>6. NextLsn <= Len(history') /\ NextLsn = Len(history')
  BY <1>1, <1>3
<1>. QED  BY <1>0, <1>1, <1>3, <1>4, <1>5, <1>6, SendKeeps

\* Resend: the next position is one that was committed before.
LEMMA ResendKeeps ==
    ASSUME AssemblerInv, NEW x \in Xids, Resend(x)
    PROVE  AssemblerInv'
<1>0. /\ history \in Seq(CommitSet) /\ Recorded /\ Len(history) \in Nat /\ Idle
      /\ Waiting
  <2>1. ServerType /\ Len(history) \in Nat /\ Idle
    BY InvParts DEF Resend
  <2>. QED  BY <2>1, IdleWaits DEF ServerType, AssemblerInv
<1>1. /\ NextLsn \in 1..Len(history) /\ x = history[NextLsn].xid /\ SendCommit(x)
      /\ UNCHANGED <<stack, rows, next_sub, next_change, connVars, asmVars>>
      /\ open' = open /\ history' = history
  BY <1>0 DEF Resend
<1>2. /\ x \notin open
      /\ history[NextLsn] = [xid |-> x, commit_lsn |-> NextLsn,
                             changes |-> Ids(rows[x])]
  BY <1>0, <1>1 DEF Recorded
<1>3. open' = open \ {x}
  BY <1>1, <1>2
<1>4. drops # 0
  BY <1>0, <1>1 DEF Waiting, Settled, NextLsn
<1>5. Recorded'
  BY <1>0, <1>1, RecordedKept
<1>6. NextLsn <= Len(history') /\ (drops = 0 => NextLsn = Len(history'))
  BY <1>0, <1>1, <1>4
<1>. QED  BY <1>0, <1>1, <1>2, <1>3, <1>5, <1>6, SendKeeps

\* AbortX: one StreamAbort for each streamed subtransaction, that of x last.
LEMMA AbortKeeps ==
    ASSUME AssemblerInv, NEW x \in Xids, AbortX(x)
    PROVE  AssemblerInv'
<1>0. /\ ServerType /\ Savepoints /\ Idle /\ x \in open
      /\ open \subseteq Xids /\ Waiting /\ DOMAIN pending \subseteq Xids
      /\ Len(history) \in Nat /\ StreamedSent(x)
      /\ next_sub \in Nat /\ next_change \in Nat /\ FramesOld(x) /\ RowsInOrder(x)
      /\ Rest(None) /\ Settled /\ StaleXid /\ StaleStream
  BY InvParts, IdleWaits DEF AbortX, ServerType, Savepoints, Waiting
<1>. DEFINE M == {AbortMsg(x, s) : s \in Owners}
<1>1. PICK subs \in Aborts(x, Subxids), own \in Aborts(x, {x}) : wire' = subs \o own
  BY DEF AbortX
<1>2. /\ open' = open \ {x}
      /\ sent' = [sent EXCEPT ![x] = 0] /\ streamed' = [streamed EXCEPT ![x] = {}]
      /\ UNCHANGED <<stack, rows, next_sub, next_change, history, connVars, asmVars>>
  BY DEF AbortX, Forget
<1>3. /\ Elsewhere(x) /\ x \notin open' /\ open' \subseteq Xids
      /\ sent'[x] = 0 /\ streamed'[x] = {}
  BY <1>0, <1>2 DEF Elsewhere, ServerType
<1>4. ServerType'
  <2>1. sent' \in [Xids -> Nat]
    BY <1>0, <1>2 DEF ServerType
  <2>2. streamed' \in [Xids -> SUBSET Owners]
    BY <1>0, <1>2 DEF ServerType
  <2>. QED  BY <1>0, <1>2, <1>3, <2>1, <2>2 DEF ServerType, connVars
<1>5. Savepoints'
  <2>1. RowsInOrder(x)' /\ FramesOld(x)' /\ StreamedSent(x)'
    <3>1. sent'[x] <= Len(rows'[x])
      BY <1>0, <1>2, <1>3 DEF ServerType
    <3>. QED  BY <1>0, <1>2, <1>3, <3>1 DEF RowsInOrder, FramesOld, StreamedSent
  <2>2. /\ next_sub' \in Nat /\ next_change' \in Nat /\ drops' = drops
        /\ next_sub' >= next_sub /\ next_change' >= next_change
    BY <1>0, <1>2 DEF connVars
  <2>. QED  BY <1>0, <1>3, <2>1, <2>2, SavepointsKept
<1>6. /\ pending' = pending /\ current_xid' = current_xid /\ emitted' = emitted
      /\ active_stream_xid' = active_stream_xid /\ drops' = drops
      /\ history' = history /\ UNCHANGED <<asmVars, connVars>>
      /\ Received' = Received
  BY <1>2 DEF asmVars, connVars, Received
<1>7. Rest(x)' /\ Settled' /\ StaleXid'
  <2>1. Rest(x)'
    BY <1>0, <1>3, <1>6, RestMoved
  <2>. QED  BY <1>0, <1>6, <2>1 DEF Settled, StaleXid
<1>8. /\ subs \in Seq(M) /\ SubsOf(subs) = Subxids \cap streamed[x]
      /\ own \in Seq(M) /\ SubsOf(own) = {x} \cap streamed[x]
      /\ \A i, j \in 1..Len(own) : i # j => own[i].sub # own[j].sub
  BY <1>0, AbortsAre
<1>. HIDE DEF M
<1>9. /\ wire' \in Seq(M) /\ SubsOf(wire') = SubsOf(subs) \cup SubsOf(own)
      /\ Len(wire') = Len(subs) + Len(own)
      /\ \A i \in 1..Len(subs) : wire'[i] = subs[i]
      /\ \A i \in 1..Len(own) : wire'[Len(subs) + i] = own[i]
  BY <1>1, <1>8, AbortsJoined
<1>10. Len(subs) \in Nat /\ Len(own) \in Nat /\ x \notin Subxids
  BY <1>8, BoundsAssumption DEF Xids, Subxids
<1>11. ASSUME streamed[x] = {} PROVE Phase'
  <2>1. wire' = <<>>
    <3>0. Len(wire') \in Nat
      BY <1>9
    <3>1. ASSUME 1 \in 1..Len(wire') PROVE FALSE
      <4>1. wire'[1].sub \in SubsOf(wire')
        BY <3>1 DEF SubsOf
      <4>. QED  BY <1>8, <1>9, <1>11, <4>1
    <3>. QED  BY <1>9, <3>0, <3>1
  <2>2. drops' = 0 => x \notin DOMAIN pending'
    <3>1. None \notin Xids
      BY BoundsAssumption DEF Xids, None
    <3>. QED  BY <1>0, <1>6, <1>11, <3>1 DEF Rest
  <2>3. Rest(None)'
    BY <1>0, <1>3, <1>6, <1>7, <2>2, RestWithout
  <2>4. StaleStream'
    <3>1. \A y \in Xids : streamed[y] = {} => streamed'[y] = {}
      BY <1>3 DEF Elsewhere
    <3>. QED  BY <1>0, <1>6, <3>1 DEF StaleStream
  <2>5. Waiting'
    BY <1>0, <1>6, <1>7, <2>1, <2>3, <2>4 DEF Waiting
  <2>. QED  BY <2>5 DEF Phase
<1>12. ASSUME streamed[x] # {} PROVE Phase'
  <2>1. x \in streamed[x]
    BY <1>0, <1>12 DEF StreamedSent
  <2>2. SubsOf(own) = {x}
    BY <1>8, <2>1
  <2>3. \A i \in 1..Len(own) : own[i].sub = x
    BY <2>2 DEF SubsOf
  <2>4. Len(own) # 0
    BY <2>2 DEF SubsOf
  <2>5. Len(own) = 1
    <3>1. ASSUME 2 \in 1..Len(own) PROVE FALSE
      <4>1. 1 \in 1..Len(own)
        BY <1>10, <3>1
      <4>. QED  BY <1>8, <2>3, <3>1, <4>1
    <3>2. ~(2 <= Len(own))
      BY <1>10, <3>1
    <3>3. \A q \in Nat : q # 0 /\ ~(2 <= q) => q = 1
      OBVIOUS
    <3>. QED  BY <1>10, <2>4, <3>2, <3>3
  <2>6. ASSUME NEW i \in 1..Len(wire') PROVE wire'[i].sub = x <=> i = Len(wire')
    <3>1. CASE i <= Len(subs)
      <4>1. i \in 1..Len(subs) /\ i # Len(wire')
        BY <1>9, <1>10, <2>5, <3>1
      <4>2. subs[i].sub \in Subxids
        BY <1>8, <4>1 DEF SubsOf
      <4>. QED  BY <1>9, <1>10, <4>1, <4>2
    <3>2. CASE ~(i <= Len(subs))
      <4>1. i = Len(subs) + 1 /\ i = Len(wire') /\ 1 \in 1..Len(own)
        BY <1>9, <1>10, <2>5, <3>2
      <4>. QED  BY <1>9, <2>3, <4>1
    <3>. QED  BY <3>1, <3>2
  <2>7. wire' # <<>>
    BY <1>9, <1>10, <2>5
  <2>8. active_stream_xid = None /\ current_xid # x
    <3>1. None \notin Xids
      BY BoundsAssumption DEF Xids, None
    <3>. QED  BY <1>0, <1>12, <3>1 DEF StaleStream, Rest
  <2>9. AbortsOf(x)'
    BY <1>0, <1>6, <1>7, <1>9, <2>7, <2>8 DEF AbortsOf, M
  <2>10. Aborting(x)'
    BY <1>3, <2>6, <2>9 DEF Aborting
  <2>. QED  BY <2>10 DEF Phase
<1>13. Phase'
  BY <1>11, <1>12
<1>14. Recorded'
  BY <1>2, <1>6, RecordedKept DEF AssemblerInv
<1>. QED  BY <1>0, <1>4, <1>5, <1>6, <1>13, <1>14, SessionKeeps

-----------------------------------------------------------------------------
(* A lost connection *)

\* The new walsender starts again; the assembler keeps what it had.
LEMMA DropKeeps ==
    ASSUME AssemblerInv, Drop
    PROVE  AssemblerInv'
<1>0. /\ ServerType /\ AssemblerType /\ Savepoints /\ EmittedPrefix /\ TypeOK
      /\ Len(history) \in Nat /\ drops \in Nat /\ reached \in Nat
      /\ Received \in Nat /\ Received <= Len(history) /\ reached <= Len(history)
      /\ error = "none"
  <2>1. ServerType /\ AssemblerType /\ Savepoints /\ EmittedPrefix /\ TypeOK
    BY InvParts
  <2>2. Len(history) \in Nat /\ Received \in Nat
    BY InvParts
  <2>. QED  BY <2>1, <2>2 DEF ServerType, EmittedPrefix, Drop
<1>1. /\ drops' = drops + 1 /\ reached' = Larger(reached, Received)
      /\ start' \in 0..reached' /\ emitted' = <<>> /\ wire' = <<>>
      /\ sent' = [x \in Xids |-> 0] /\ streamed' = [x \in Xids |-> {}]
      /\ UNCHANGED <<open, stack, rows, next_sub, next_change, history,
                     streaming_active, pending, current_xid, active_stream_xid,
                     error>>
  BY DEF Drop
<1>2. /\ drops' \in Nat /\ drops' # 0 /\ reached' \in Nat /\ start' \in Nat
      /\ start' <= Len(history) /\ reached' <= Len(history)
  BY <1>0, <1>1 DEF Larger
<1>3. ServerType'
  <2>1. sent' \in [Xids -> Nat] /\ streamed' \in [Xids -> SUBSET Owners]
    BY <1>1
  <2>. QED  BY <1>0, <1>1, <1>2, <2>1 DEF ServerType
<1>4. Savepoints'
  <2>. SUFFICES ASSUME NEW x \in Xids
                PROVE  /\ RowsInOrder(x)' /\ FramesOld(x)' /\ StreamedSent(x)'
                       /\ x \in open => FramesCut(stack[x], rows[x])'
    BY <1>1, <1>2 DEF Savepoints
  <2>1. /\ RowsInOrder(x) /\ FramesOld(x)
        /\ x \in open => FramesCut(stack[x], rows[x])
    BY <1>0 DEF Savepoints
  <2>2. sent'[x] = 0 /\ streamed'[x] = {} /\ Len(rows[x]) \in Nat
    BY <1>0, <1>1 DEF ServerType
  <2>3. RowsInOrder(x)' /\ FramesOld(x)'
    BY <1>1, <2>1, <2>2 DEF RowsInOrder, FramesOld
  <2>4. StreamedSent(x)'
    BY <2>2 DEF StreamedSent
  <2>5. x \in open => FramesCut(stack[x], rows[x])'
    BY <1>1, <2>1
  <2>. QED  BY <2>3, <2>4, <2>5
<1>5. Recorded'
  BY <1>1, RecordedKept DEF AssemblerInv
<1>6. AssemblerType'
  BY <1>0, <1>1 DEF AssemblerType, TypeOK, BucketOK, IsBucket
<1>7. EmittedPrefix'
  <2>0. Len(emitted') = 0
    BY <1>1
  <2>1. Received' = start'
    <3>1. Received' = start' + Len(emitted')
      BY DEF Received
    <3>2. Received' = start' + 0
      BY <2>0, <3>1, Zenon
    <3>3. \A n \in Nat : n + 0 = n
      OBVIOUS
    <3>. QED  BY <1>2, <3>2, <3>3, Zenon
  <2>. QED  BY <1>1, <1>2, <2>0, <2>1 DEF EmittedPrefix
<1>8. Waiting'
  <2>1. \A y \in Xids : streamed'[y] = {}
    BY <1>1
  <2>2. Rest(None)'
    BY <1>2, <2>1 DEF Rest
  <2>. QED  BY <1>1, <1>2, <2>1, <2>2 DEF Waiting, Settled, StaleXid, StaleStream
<1>9. Synced'
  <2>1. streaming_active <=> active_stream_xid # None
    BY <1>0 DEF AssemblerInv, Synced
  <2>. QED  BY <1>1, <1>8, <2>1 DEF Synced, Phase
<1>10. NoDesync'
  BY <1>2 DEF NoDesync
<1>. QED  BY <1>3, <1>4, <1>5, <1>6, <1>7, <1>9, <1>10 DEF AssemblerInv

-----------------------------------------------------------------------------
(* The invariant *)

\* In the beginning nothing was made, sent or buffered.
LEMMA InitInv == Init => AssemblerInv
<1>. SUFFICES ASSUME Init PROVE AssemblerInv
  OBVIOUS
<1>. USE DEF Init
<1>1. ServerType
  <2>1. open \subseteq Xids /\ history \in Seq(CommitSet)
    OBVIOUS
  <2>4. /\ drops \in Nat /\ start \in Nat /\ reached \in Nat
        /\ start <= Len(history) /\ reached <= Len(history)
        /\ (drops = 0 => start = 0)
    OBVIOUS
  <2>2. /\ stack \in [Xids -> Seq(FrameSet)] /\ rows \in [Xids -> Seq(RowSet)]
        /\ sent \in [Xids -> Nat] /\ streamed \in [Xids -> SUBSET Owners]
    OBVIOUS
  <2>3. next_sub \in Nat /\ next_sub > MaxXid /\ next_change \in Nat \ {0}
    BY BoundsAssumption
  <2>. QED  BY <2>1, <2>2, <2>3, <2>4, Zenon DEF ServerType
<1>2. DOMAIN pending = {}
  OBVIOUS
<1>3. AssemblerType
  <2>1. emitted \in Seq(CommitSet)
    OBVIOUS
  <2>2. TypeOK
    BY <1>2 DEF TypeOK
  <2>. QED  BY <1>2, <2>1, <2>2 DEF AssemblerType
<1>4. Savepoints
  BY DEF Savepoints, RowsInOrder, FramesOld, FramesCut, StreamedSent
<1>5. EmittedPrefix
  BY DEF EmittedPrefix, Received
<1>6. Waiting
  <2>1. Rest(None)
    BY <1>2 DEF Rest
  <2>. QED  BY <2>1 DEF Waiting, Settled, StaleStream, StaleXid, Received
<1>7. Synced
  BY <1>6 DEF Synced, Phase
<1>8. NoDesync
  BY DEF NoDesync
<1>9. Recorded
  BY DEF Recorded
<1>. QED  BY <1>1, <1>3, <1>4, <1>5, <1>7, <1>8, <1>9, Zenon DEF AssemblerInv

\* A step that changes nothing changes no phase.
LEMMA StutterKeeps ==
    ASSUME AssemblerInv, UNCHANGED vars
    PROVE  AssemblerInv'
<1>1. /\ UNCHANGED <<serverVars, connVars>> /\ wire' = wire
      /\ open' = open /\ rows' = rows /\ sent' = sent /\ streamed' = streamed
      /\ history' = history /\ drops' = drops
      /\ streaming_active' = streaming_active /\ pending' = pending
      /\ current_xid' = current_xid /\ active_stream_xid' = active_stream_xid
      /\ emitted' = emitted /\ error' = error
  BY DEF vars, serverVars, connVars, asmVars
<1>2. ServerType' /\ Savepoints' /\ Recorded' /\ EmittedPrefix' /\ NextLsn' = NextLsn
  BY <1>1, ServerKept DEF AssemblerInv
<1>3. AssemblerType' /\ NoDesync'
  BY <1>1 DEF AssemblerInv, AssemblerType, TypeOK, BucketOK, IsBucket, NoDesync
<1>4. ASSUME Phase PROVE Phase'
  <2>1. \A x : Rest(x) => Rest(x)'
    BY <1>1 DEF Rest
  <2>0. Settled => Settled'
    BY <1>1, WireKept
  <2>2. /\ Settled => Settled'
        /\ StaleStream => StaleStream'
        /\ StaleXid => StaleXid'
        /\ \A x : FirstOf(x) => FirstOf(x)'
    BY <1>1, <2>0 DEF StaleStream, FirstOf, StaleXid
  <2>3. \A x, k : Resumed(x, k) => Resumed(x, k)'
    BY <1>1 DEF Resumed, StaleXid
  <2>4. ASSUME NEW x PROVE Committing(x) => Committing(x)'
    BY <1>1, WireKept
  <2>5. ASSUME NEW x, NEW k, NEW last
        PROVE  /\ PlainRest(x, k)' = PlainRest(x, k)
               /\ ChunkRest(x, k, last)' = ChunkRest(x, k, last)
               /\ After(x, last)' = After(x, last)
    BY <1>1, WireKept
  <2>6. \A x : BeginMsg(x)' = BeginMsg(x)
    BY <1>2 DEF BeginMsg
  <2>7. \A x : \A last \in BOOLEAN : ChunkOf(x, last) => ChunkOf(x, last)'
    BY <1>1, <2>1, <2>2, <2>4 DEF ChunkOf
  <2>8. CASE Waiting
    <3>1. Waiting'
      BY <1>1, <2>1, <2>2, <2>8 DEF Waiting
    <3>. QED  BY <3>1 DEF Phase
  <2>9. ASSUME NEW x \in Xids, PlainDue(x) PROVE PlainDue(x)'
    BY <1>1, <2>1, <2>2, <2>4, <2>5, <2>6, <2>9 DEF PlainDue
  <2>10. ASSUME NEW x \in Xids, StreamCommitDue(x) PROVE StreamCommitDue(x)'
    BY <1>1, <2>1, <2>3, <2>4, <2>5, <2>10 DEF StreamCommitDue
  <2>11. \A x : AbortsOf(x) => AbortsOf(x)'
    BY <1>1, <2>1, <2>2 DEF AbortsOf, AbortMsg
  <2>12. Due' = Due
    BY <1>1 DEF Due
  <2>13. ASSUME NEW x \in Xids, RollingBack(x) PROVE RollingBack(x)'
    BY <1>1, <2>11, <2>12, <2>13 DEF RollingBack
  <2>14. ASSUME NEW x \in Xids, Aborting(x) PROVE Aborting(x)'
    BY <1>1, <2>11, <2>14 DEF Aborting
  <2>15. ASSUME NEW x \in Xids, NEW k \in 0..Len(rows[x]), PlainRows(x, k)
         PROVE  PlainRows(x, k)'
    BY <1>1, <1>2, <2>1, <2>2, <2>4, <2>5, <2>15 DEF PlainRows
  <2>16. ASSUME NEW x \in Xids, NEW k \in 0..Len(rows[x]), NEW last \in BOOLEAN,
                ChunkRows(x, k, last)
         PROVE  ChunkRows(x, k, last)'
    BY <1>1, <2>3, <2>5, <2>7, <2>16 DEF ChunkRows
  <2>17. ASSUME NEW x \in Xids, NEW k \in 0..Len(rows[x]), NEW last \in BOOLEAN,
                NEW first \in BOOLEAN, ChunkDue(x, k, first, last)
         PROVE  ChunkDue(x, k, first, last)'
    BY <1>1, <2>2, <2>3, <2>5, <2>7, <2>17 DEF ChunkDue, StartMsg
  <2>. QED
    BY <1>1, <1>4, <2>8, <2>9, <2>10, <2>13, <2>14, <2>15, <2>16, <2>17 DEF Phase
<1>. QED  BY <1>1, <1>2, <1>3, <1>4 DEF AssemblerInv, Synced

\* Every step of the sessions, the walsender and the assembler keeps it.
LEMMA NextInv ==
    ASSUME AssemblerInv, [Next]_vars
    PROVE  AssemblerInv'
<1>1. ASSUME NEW x \in Xids, Session(x) PROVE AssemblerInv'
  <2>1. ASSUME NEW n \in 1..MaxTables, Change(x, n) PROVE AssemblerInv'
    BY <2>1, ChangeKeeps
  <2>. QED
    BY <1>1, <2>1, SavepointKeeps, ReleaseKeeps, RollbackKeeps, StreamChunkKeeps,
       CommitKeeps, ResendKeeps, AbortKeeps DEF Session
<1>2. CASE UNCHANGED vars
  BY <1>2, StutterKeeps
<1>. QED  BY <1>1, <1>2, DropKeeps, FeedKeeps DEF Next

(* The stream and what the assembler made of it are always in one of the
   phases: the invariant every property below follows from. *)
THEOREM AssemblerInvariant == Spec => []AssemblerInv
<1>1. AssemblerInv /\ [Next]_vars => AssemblerInv'
  BY NextInv
<1>. QED  BY InitInv, <1>1, PTL DEF Spec

(* Every variable of the assembler keeps its type, and a recorded boundary of
   _Pending always points at a change that is still buffered, for any number of
   transactions, savepoints, changes and lost connections. *)
THEOREM AssemblerTypes == Spec => []TypeOK
<1>1. AssemblerInv => TypeOK
  BY DEF AssemblerInv, AssemblerType
<1>. QED  BY AssemblerInvariant, <1>1, PTL

(* On every connection feed returns the transactions committed after the
   position it started from, in commit order, each with the changes that survived
   its rollbacks: wherever after the checkpoint the connection was started, and
   whatever earlier connections left in the decoder and the assembler. *)
THEOREM CommittedOnly == Spec => []EmitsCommitted
<1>1. ASSUME AssemblerInv PROVE EmitsCommitted
  <2>0. /\ emitted \in Seq(CommitSet) /\ history \in Seq(CommitSet) /\ start \in Nat
        /\ start + Len(emitted) <= Len(history)
        /\ \A i \in 1..Len(emitted) : emitted[i] = history[start + i]
    BY <1>1 DEF AssemblerInv, AssemblerType, ServerType, EmittedPrefix, Received
  <2>. PICK n \in Nat, h \in Nat : n = Len(emitted) /\ h = Len(history)
    BY <2>0
  <2>. DEFINE t == SubSeq(history, start + 1, h)
  <2>1. /\ t \in Seq(CommitSet) /\ Len(t) = h - start
        /\ \A i \in 1..n : t[i] = history[start + i]
    <3>1. \A i \in (start + 1)..h : history[i] \in CommitSet
      BY <2>0
    <3>2. start + n <= h
      BY <2>0
    <3>3. /\ t \in Seq(CommitSet)
          /\ Len(t) = IF start + 1 <= h THEN h - (start + 1) + 1 ELSE 0
          /\ \A i \in 1..(h - (start + 1) + 1) : t[i] = history[start + 1 + i - 1]
      BY <2>0, <3>1, SubSeqProperties
    <3>. HIDE DEF t
    <3>4. Len(t) = h - start
      BY <2>0, <3>2, <3>3
    <3>5. ASSUME NEW i \in 1..n PROVE t[i] = history[start + i]
      <4>1. i \in 1..(h - (start + 1) + 1) /\ start + 1 + i - 1 = start + i
        BY <2>0, <3>2
      <4>. QED  BY <3>3, <4>1
    <3>. QED  BY <3>3, <3>4, <3>5
  <2>. HIDE DEF t
  <2>2. n \in 0..Len(emitted) /\ n \in 0..Len(t)
    BY <2>0, <2>1
  <2>3. /\ SubSeq(emitted, 1, n) \in Seq(CommitSet) /\ Len(SubSeq(emitted, 1, n)) = n
        /\ \A i \in 1..n : SubSeq(emitted, 1, n)[i] = emitted[i]
    BY <2>0, <2>2, FirstOnes
  <2>4. /\ SubSeq(t, 1, n) \in Seq(CommitSet) /\ Len(SubSeq(t, 1, n)) = n
        /\ \A i \in 1..n : SubSeq(t, 1, n)[i] = t[i]
    BY <2>1, <2>2, FirstOnes
  <2>5. \A i \in 1..n : SubSeq(emitted, 1, n)[i] = SubSeq(t, 1, n)[i]
    BY <2>0, <2>1, <2>3, <2>4
  <2>6. SubSeq(emitted, 1, n) = SubSeq(t, 1, n)
    BY <2>3, <2>4, <2>5, SeqEqual
  <2>7. Len(emitted) <= Len(t)
    BY <2>0, <2>1
  <2>8. IsPrefix(emitted, t)
    BY <2>6, <2>7 DEF IsPrefix
  <2>. QED  BY <2>8 DEF EmitsCommitted, t
<1>. QED  BY AssemblerInvariant, <1>1, PTL

(* On an intact connection neither the decoder's streaming flag nor the
   assembler's guards ever reject what a correct walsender sends. *)
THEOREM NeverDesyncs == Spec => []NoDesync
<1>1. AssemblerInv => NoDesync
  BY DEF AssemblerInv
<1>. QED  BY AssemblerInvariant, <1>1, PTL

(* On an intact connection, between messages, _pending holds a bucket for each
   streamed transaction in progress and for no other. *)
THEOREM NothingHeldBack == Spec => []NothingLeaks
<1>1. ASSUME AssemblerInv PROVE NothingLeaks
  <2>. SUFFICES ASSUME drops = 0, wire = <<>>, error = "none"
                PROVE  /\ DOMAIN pending = {x \in open : streamed[x] # {}}
                       /\ current_xid = None /\ active_stream_xid = None
                       /\ ~streaming_active
                       /\ Len(emitted) = Len(history)
    BY DEF NothingLeaks
  <2>1. Waiting /\ (streaming_active <=> active_stream_xid # None)
    BY <1>1, IdleWaits DEF Idle
  <2>2. current_xid = None /\ active_stream_xid = None /\ Len(emitted) = Len(history)
    <3>1. start = 0 /\ Len(emitted) \in Nat
      BY <1>1, InvParts DEF ServerType
    <3>. QED  BY <2>1, <3>1 DEF Waiting, Settled, StaleStream, StaleXid, Received
  <2>3. None \notin Xids /\ DOMAIN pending \subseteq Xids /\ open \subseteq Xids
    BY <1>1, InvParts, BoundsAssumption DEF Xids, None, ServerType
  <2>4. /\ DOMAIN pending \ {None} = {x \in Xids \ {None} : streamed[x] # {}}
        /\ \A x \in Xids : streamed[x] # {} => x \in open
    BY <1>1, <2>1, InvParts DEF Waiting, Rest, Savepoints
  <2>5. DOMAIN pending = {x \in open : streamed[x] # {}}
    BY <2>3, <2>4
  <2>. QED  BY <2>1, <2>2, <2>5
<1>. QED  BY AssemblerInvariant, <1>1, PTL

(* On an intact connection, between messages, the bucket of a transaction in
   progress holds its streamed changes without those StreamAbort rolled back. *)
THEOREM RollbacksFollowed == Spec => []BufferFollowsRollbacks
<1>1. ASSUME AssemblerInv PROVE BufferFollowsRollbacks
  <2>. SUFFICES ASSUME drops = 0, wire = <<>>, NEW x \in DOMAIN pending \cap open
                PROVE  pending[x].changes = Ids(SubSeq(rows[x], 1, sent[x]))
    BY DEF BufferFollowsRollbacks
  <2>1. Waiting
    <3>1. error = "none"
      BY <1>1 DEF AssemblerInv, NoDesync
    <3>. QED  BY <1>1, <3>1, IdleWaits DEF Idle
  <2>2. /\ None \notin Xids /\ x \in Xids /\ rows[x] \in Seq(RowSet) /\ sent[x] \in Nat
        /\ sent[x] <= Len(rows[x]) /\ pending[x].changes \in Seq(1..MaxChange)
    BY <1>1, InvParts, BoundsAssumption
       DEF Xids, None, ServerType, Savepoints, RowsInOrder, TypeOK, BucketOK
  <2>3. streamed[x] # {}
    BY <2>1, <2>2 DEF Waiting, Rest
  <2>4. Holds(pending[x], rows[x], sent[x])
    BY <2>1, <2>2, <2>3 DEF Waiting, Rest
  <2>. DEFINE c == pending[x].changes
              n == sent[x]
              s == SubSeq(rows[x], 1, n)
  <2>5. Len(c) = n /\ \A i \in 1..n : c[i] = rows[x][i].id
    BY <2>4 DEF Holds, Carries
  <2>6. s \in Seq(RowSet) /\ Len(s) = n /\ \A i \in 1..n : s[i] = rows[x][i]
    <3>1. n \in 0..Len(rows[x])
      BY <2>2
    <3>. QED  BY <2>2, <3>1, FirstOnes
  <2>. HIDE DEF s
  <2>7. \A i \in 1..Len(s) : s[i].id \in 1..MaxChange
    <3>. TAKE i \in 1..Len(s)
    <3>1. s[i] \in RowSet
      BY <2>6
    <3>. QED  BY <3>1 DEF RowSet
  <2>8. /\ Ids(s) \in Seq(1..MaxChange) /\ Len(Ids(s)) = n
        /\ \A i \in 1..n : Ids(s)[i] = s[i].id
    BY <2>6, <2>7, IdsOf
  <2>9. \A i \in 1..n : c[i] = Ids(s)[i]
    BY <2>5, <2>6, <2>8
  <2>. HIDE DEF c, n
  <2>10. c \in Seq(1..MaxChange)
    BY <2>2 DEF c
  <2>11. c = Ids(s)
    BY <2>5, <2>8, <2>9, <2>10, SeqEqual
  <2>. QED  BY <2>11 DEF c, s, n
<1>. QED  BY AssemblerInvariant, <1>1, PTL
=============================================================================
