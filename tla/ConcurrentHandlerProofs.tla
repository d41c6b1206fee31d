----------------------- MODULE ConcurrentHandlerProofs -----------------------
(***************************************************************************)
(* ConcurrentHandler, for any number of shards, any shard size, any queue  *)
(* of the client and any transactions: a checkpoint claims only finished   *)
(* work, the events of an entity reach the broker in order, a failed one   *)
(* is repeated in order, and a transaction is failed for its own events.   *)
(*                                                                         *)
(* The invariant has two halves.  WorkInv is about one handle call and its *)
(* shards and holds whatever handle is called with.  OrderInv is about     *)
(* which transaction comes next and holds until a call is cancelled with   *)
(* later transactions queued.                                              *)
(***************************************************************************)
EXTENDS ConcurrentHandler, TLAPS

HandlerType ==
    /\ checkpoint \in Nat /\ saved \subseteq Tx /\ published \in Seq(Events)
    /\ failed \subseteq Events /\ failures \subseteq failed
    /\ next_tx \in Nat /\ queue \in Seq(Tx) /\ stale \in BOOLEAN
    /\ put \in Nat
    /\ shards \in [Shards -> Seq(Events)]
    /\ unfinished \in [Shards -> Nat]
    /\ working \in [Shards -> Events \cup {NoEvent}]

Called == handling # 0 => handling \in Tx /\ put <= Len(Inserts[handling])

\* join() waits for what is queued and what is being processed.
Counted ==
    \A s \in Shards :
        unfinished[s] = Len(shards[s]) + IF working[s] = NoEvent THEN 0 ELSE 1

Logged(e) == \E i \in 1..Len(published) : published[i] = e

InShard(e, s) == working[s] = e \/ \E k \in 1..Len(shards[s]) : shards[s][k] = e

\* The i-th insert of the transaction in progress.
Insert(i) == [tx |-> handling, pos |-> i]

\* An insert that handle has put reached the broker, failed, or is in its shard.
Accounted(e) == Logged(e) \/ e \in failures \/ InShard(e, ShardFor(e))

PutAccounted == handling # 0 => \A i \in 1..put : Accounted(Insert(i))

\* Event e is ahead of an f in shard s.
QueuedBehind(e, f, s) ==
    \E k \in 1..Len(shards[s]) :
        shards[s][k] = f /\ (working[s] = e \/ \E j \in 1..(k - 1) : shards[s][j] = e)

\* Of two inserts of one entity the broker saw the second after the first, or
\* one failed, or it will.
PairAccounted(e, f) ==
    \/ <<e, f>> \in followed \/ e \in failures \/ f \in failures
    \/ Logged(e) /\ InShard(f, ShardFor(f))
    \/ QueuedBehind(e, f, ShardFor(f))

PairsAccounted ==
    handling # 0 => \A i \in 1..put : \A e \in Elders(Insert(i)) :
                        PairAccounted(e, Insert(i))

SavedLogged == \A e \in Events : e.tx \in saved => Logged(e)

\* Event e is not overtaken by the k-th one of shard s.
NotOvertaken(e, s, k) ==
    Logged(e) \/ working[s] = e \/ \E j \in 1..(k - 1) : shards[s][j] = e

ShardOrdered(s) ==
    \A e \in Events \ failed :
        /\ working[s] # NoEvent /\ e \in Elders(working[s]) => Logged(e)
        /\ \A k \in 1..Len(shards[s]) :
              e \in Elders(shards[s][k]) => NotOvertaken(e, s, k)

WorkInv ==
    /\ HandlerType /\ Called /\ Counted
    /\ PutAccounted /\ PairsAccounted
    /\ SavedLogged /\ OvertakenWasRepeated
    /\ \A s \in Shards : ShardOrdered(s)

\* Every earlier transaction is saved.
Due(t) == \A u \in 1..(t - 1) : u \in saved

\* Transaction u is saved, or handled before what follows n places of the queue.
Before(u, n) == u \in saved \/ u = handling \/ \E j \in 1..n : queue[j] = u

\* The queue may repeat transactions but leaves none out.
NoneLeftOut ==
    /\ handling # 0 => Due(handling)
    /\ \A i \in 1..Len(queue) : \A u \in 1..(queue[i] - 1) : Before(u, i - 1)
    /\ process = "running" => \A u \in 1..(next_tx - 1) : Before(u, Len(queue))

SavedDue ==
    /\ checkpoint = 0 \/ checkpoint \in saved
    /\ \A t \in saved : Due(t)

\* What the object still holds of earlier calls.
Held(e) == e \in failures \/ \E s \in Shards : InShard(e, s)

HeldDue == \A e \in Events : Held(e) => Due(e.tx)

OrderInv == ~stale => NoneLeftOut /\ SavedDue /\ HeldDue

\* Between two calls of run the client has no queue.
Quiet == process # "running" => handling = 0 /\ queue = <<>>

\* What the broker has to see before f.
Earlier(e, f) ==
    /\ EntityOf(e) = EntityOf(f)
    /\ \/ e.tx = f.tx /\ e.pos < f.pos /\ e \notin failed
       \/ e.tx < f.tx /\ ~stale

LogOrdered ==
    \A n \in 1..Len(published) : \A e \in Events :
        Earlier(e, published[n]) =>
            \E i \in 1..Len(published) :
                /\ published[i] = e
                /\ \A j \in 1..i : published[j] # published[n]

HandlerInv == WorkInv /\ OrderInv /\ Quiet /\ LogOrdered

-----------------------------------------------------------------------------
(* The operators of the model *)

\* An event is an insert of a transaction, and has a shard.
LEMMA EventFacts ==
    ASSUME NEW e \in Events
    PROVE  /\ e.tx \in Tx /\ e.pos \in DOMAIN Inserts[e.tx]
           /\ e = [tx |-> e.tx, pos |-> e.pos]
           /\ e.tx \in Nat \ {0} /\ e.pos \in Nat \ {0}
           /\ e.pos <= Len(Inserts[e.tx])
           /\ e # NoEvent
           /\ ShardFor(e) \in Shards
<1>0. PICK t \in Tx : \E i \in DOMAIN Inserts[t] : e = [tx |-> t, pos |-> i]
  BY DEF Events
<1>1. PICK i \in DOMAIN Inserts[t] : e = [tx |-> t, pos |-> i]
  BY <1>0
<1>2. Tx = 1..Len(Inserts) /\ Len(Inserts) \in Nat
  BY HandlerAssumption DEF Tx
<1>3. Inserts[t] \in Seq(DOMAIN ShardOf)
  BY HandlerAssumption DEF Tx
<1>4. DOMAIN Inserts[t] = 1..Len(Inserts[t]) /\ Len(Inserts[t]) \in Nat
  BY <1>3
<1>5. Inserts[t][i] \in DOMAIN ShardOf
  BY <1>3, <1>4
<1>6. ShardFor(e) \in Shards
  BY <1>1, <1>5, HandlerAssumption DEF ShardFor, EntityOf
<1>. QED  BY <1>1, <1>2, <1>4, <1>6 DEF NoEvent

\* The inserts of a transaction are its events.
LEMMA InsertsAreEvents ==
    ASSUME NEW t \in Tx, NEW i \in 1..Len(Inserts[t])
    PROVE  /\ [tx |-> t, pos |-> i] \in Events
           /\ t \in Nat /\ Len(Inserts[t]) \in Nat
           /\ DOMAIN Inserts[t] = 1..Len(Inserts[t])
<1>1. Inserts[t] \in Seq(DOMAIN ShardOf) /\ Tx = 1..Len(Inserts)
  BY HandlerAssumption DEF Tx
<1>2. DOMAIN Inserts[t] = 1..Len(Inserts[t]) /\ Len(Inserts[t]) \in Nat
  BY <1>1
<1>3. [tx |-> t, pos |-> i] \in {[tx |-> t, pos |-> k] : k \in DOMAIN Inserts[t]}
  BY <1>2
<1>4. [tx |-> t, pos |-> i] \in Events
  BY <1>3 DEF Events
<1>5. t \in Nat
  BY <1>1, HandlerAssumption
<1>. QED  BY <1>2, <1>4, <1>5

\* Events of one entity share a shard.
LEMMA ElderFacts ==
    ASSUME NEW f \in Events, NEW e \in Elders(f)
    PROVE  /\ e \in Events /\ e.tx = f.tx /\ e.pos < f.pos
           /\ ShardFor(e) = ShardFor(f)
  BY DEF Elders, ShardFor

\* What handle has put are events of its transaction.
LEMMA PutFacts ==
    ASSUME HandlerType, Called, handling # 0, NEW i \in 1..put
    PROVE  /\ Insert(i) \in Events /\ ShardFor(Insert(i)) \in Shards
           /\ Insert(i).tx = handling /\ Insert(i).pos = i
           /\ \A e \in Elders(Insert(i)) :
                 e \in Events /\ e.pos \in 1..put /\ e.pos < i /\ e = Insert(e.pos)
<1>1. handling \in Tx /\ put <= Len(Inserts[handling]) /\ put \in Nat
  BY DEF Called, HandlerType
<1>2. Len(Inserts[handling]) \in Nat
  BY <1>1, HandlerAssumption DEF Tx
<1>3. i \in 1..Len(Inserts[handling])
  BY <1>1, <1>2
<1>4. Insert(i) \in Events /\ Insert(i).tx = handling /\ Insert(i).pos = i
  BY <1>1, <1>3, InsertsAreEvents DEF Insert
<1>5. ShardFor(Insert(i)) \in Shards
  BY <1>4, EventFacts
<1>6. ASSUME NEW e \in Elders(Insert(i))
      PROVE  e \in Events /\ e.pos \in 1..put /\ e.pos < i /\ e = Insert(e.pos)
  <2>1. e \in Events /\ e.tx = handling /\ e.pos < i
    BY <1>4, <1>6, ElderFacts
  <2>2. e.pos \in Nat \ {0} /\ e = [tx |-> e.tx, pos |-> e.pos]
    BY <2>1, EventFacts
  <2>. QED  BY <1>1, <2>1, <2>2 DEF Insert
<1>. QED  BY <1>4, <1>5, <1>6

\* put() adds at the end of a queue.
LEMMA AppendFacts ==
    ASSUME NEW S, NEW q \in Seq(S), NEW x \in S
    PROVE  /\ Append(q, x) \in Seq(S)
           /\ Len(Append(q, x)) = Len(q) + 1
           /\ Append(q, x)[Len(q) + 1] = x
           /\ \A k \in 1..Len(q) : Append(q, x)[k] = q[k]
           /\ Len(q) \in Nat
  OBVIOUS

\* get() takes from the front of a queue.
LEMMA TailFacts ==
    ASSUME NEW S, NEW q \in Seq(S), q # <<>>
    PROVE  /\ Tail(q) \in Seq(S) /\ Head(q) = q[1] /\ Head(q) \in S
           /\ Len(Tail(q)) = Len(q) - 1 /\ Len(q) \in Nat \ {0}
           /\ \A k \in 1..(Len(q) - 1) : Tail(q)[k] = q[k + 1]
  OBVIOUS

-----------------------------------------------------------------------------
(* What comes next *)

\* The transactions up to a saved position are saved.
LEMMA ResumeFacts ==
    ASSUME HandlerType, SavedDue, Resume
    PROVE  next_tx' \in Nat /\ \A u \in 1..(next_tx' - 1) : u \in saved
<1>1. PICK lsn \in saved \cup {checkpoint} : next_tx' = lsn + 1
  BY DEF Resume
<1>2. lsn \in Nat /\ (lsn = 0 \/ lsn \in saved)
  <2>1. Tx \subseteq Nat
    BY HandlerAssumption DEF Tx
  <2>. QED  BY <2>1 DEF HandlerType, SavedDue
<1>3. lsn \in saved => \A u \in 1..(lsn - 1) : u \in saved
  BY DEF SavedDue, Due
<1>. QED  BY <1>1, <1>2, <1>3

\* The workers only take away from what is held.
LEMMA OrderKept ==
    ASSUME OrderInv,
           UNCHANGED <<checkpoint, saved, stale, process, handling, queue, next_tx>>,
           \A e \in Events : Held(e)' => Held(e)
    PROVE  OrderInv'
<1>. SUFFICES ASSUME ~stale PROVE (NoneLeftOut /\ SavedDue /\ HeldDue)'
  BY DEF OrderInv
<1>1. NoneLeftOut /\ SavedDue /\ HeldDue
  BY DEF OrderInv
<1>2. NoneLeftOut'
  BY <1>1 DEF NoneLeftOut, Due, Before
<1>3. SavedDue' /\ HeldDue'
  BY <1>1 DEF SavedDue, HeldDue, Due
<1>. QED  BY <1>2, <1>3

\* A new object holds nothing.
LEMMA FreshOrder ==
    ASSUME HandlerType, OrderInv, FreshHandler, UNCHANGED <<checkpoint, saved, stale>>,
           process' = "running" => Resume
    PROVE  OrderInv'
<1>. SUFFICES ASSUME ~stale PROVE (NoneLeftOut /\ SavedDue /\ HeldDue)'
  BY DEF OrderInv
<1>1. SavedDue
  BY DEF OrderInv
<1>2. SavedDue'
  BY <1>1 DEF SavedDue, Due
<1>3. HeldDue'
  <2>1. ASSUME NEW e \in Events, Held(e)' PROVE FALSE
    BY <2>1, EventFacts DEF Held, InShard, FreshHandler
  <2>. QED  BY <2>1 DEF HeldDue
<1>4. NoneLeftOut'
  <2>1. Len(queue') = 0 /\ handling' = 0
    BY DEF FreshHandler
  <2>2. process' = "running" => \A u \in 1..(next_tx' - 1) : u \in saved'
    BY <1>1, ResumeFacts
  <2>. QED  BY <2>1, <2>2 DEF NoneLeftOut, Before
<1>. QED  BY <1>2, <1>3, <1>4

\* The receiver queues the next transaction.
LEMMA ReceiveOrder ==
    ASSUME HandlerType, OrderInv, Receive
    PROVE  OrderInv'
<1>. SUFFICES ASSUME ~stale PROVE (NoneLeftOut /\ SavedDue /\ HeldDue)'
  BY DEF OrderInv, Receive
<1>0. NoneLeftOut /\ SavedDue /\ HeldDue
  BY DEF OrderInv
<1>1. /\ process = "running" /\ next_tx \in Tx /\ queue' = Append(queue, next_tx)
      /\ next_tx' = next_tx + 1 /\ next_tx \in Nat
      /\ UNCHANGED <<checkpoint, saved, process, handling, shards, working, failures>>
  BY DEF Receive, HandlerType, durableVars, shardVars
<1>2. SavedDue'
  BY <1>0, <1>1 DEF SavedDue, Due
<1>3. HeldDue'
  BY <1>0, <1>1 DEF HeldDue, Held, InShard, Due
<1>4. /\ Len(queue') = Len(queue) + 1 /\ Len(queue) \in Nat
      /\ queue'[Len(queue) + 1] = next_tx
      /\ \A k \in 1..Len(queue) : queue'[k] = queue[k]
  BY <1>1, AppendFacts DEF HandlerType
<1>5. ASSUME NEW u, NEW n \in 0..Len(queue), Before(u, n) PROVE Before(u, n)'
  BY <1>1, <1>4, <1>5 DEF Before
<1>6. ASSUME NEW i \in 1..Len(queue'), NEW u \in 1..(queue'[i] - 1)
      PROVE  Before(u, i - 1)'
  <2>1. CASE i \in 1..Len(queue)
    <3>1. Before(u, i - 1) /\ i - 1 \in 0..Len(queue)
      BY <1>0, <1>4, <1>6, <2>1 DEF NoneLeftOut
    <3>. QED  BY <1>5, <3>1
  <2>2. CASE i = Len(queue) + 1
    <3>1. Before(u, Len(queue)) /\ Len(queue) \in 0..Len(queue) /\ i - 1 = Len(queue)
      BY <1>0, <1>1, <1>4, <1>6, <2>2 DEF NoneLeftOut
    <3>2. Before(u, Len(queue))'
      BY <1>1, <1>4, <3>1 DEF Before
    <3>. QED  BY <1>1, <1>4, <3>1 DEF Before
  <2>. QED  BY <1>4, <2>1, <2>2
<1>7. ASSUME NEW u \in 1..(next_tx' - 1) PROVE Before(u, Len(queue))'
  <2>1. CASE u = next_tx
    BY <1>4, <2>1 DEF Before
  <2>2. CASE u \in 1..(next_tx - 1)
    <3>1. Before(u, Len(queue))
      BY <1>0, <1>1, <2>2 DEF NoneLeftOut
    <3>. QED  BY <1>1, <1>4, <3>1 DEF Before
  <2>. QED  BY <1>1, <2>1, <2>2
<1>8. handling' # 0 => Due(handling)'
  BY <1>0, <1>1 DEF NoneLeftOut, Due
<1>9. NoneLeftOut'
  BY <1>6, <1>7, <1>8 DEF NoneLeftOut
<1>. QED  BY <1>2, <1>3, <1>9

\* The consumer takes the head of the queue: nothing comes before it.
LEMMA CallOrder ==
    ASSUME HandlerType, OrderInv, Call
    PROVE  OrderInv'
<1>. SUFFICES ASSUME ~stale PROVE (NoneLeftOut /\ SavedDue /\ HeldDue)'
  BY DEF OrderInv, Call
<1>0. NoneLeftOut /\ SavedDue /\ HeldDue
  BY DEF OrderInv
<1>1. /\ handling = 0 /\ queue # <<>> /\ handling' = Head(queue) /\ queue' = Tail(queue)
      /\ UNCHANGED <<checkpoint, saved, process, next_tx, shards, working, failures>>
  BY DEF Call, durableVars, shardVars
<1>2. SavedDue'
  BY <1>0, <1>1 DEF SavedDue, Due
<1>3. HeldDue'
  BY <1>0, <1>1 DEF HeldDue, Held, InShard, Due
<1>4. /\ handling' = queue[1] /\ handling' \in Tx
      /\ Len(queue') = Len(queue) - 1 /\ Len(queue) \in Nat \ {0}
      /\ \A k \in 1..(Len(queue) - 1) : queue'[k] = queue[k + 1]
  <2>. DEFINE q == queue
  <2>1. q \in Seq(Tx) /\ q # <<>>
    BY <1>1 DEF HandlerType
  <2>2. /\ Head(q) = q[1] /\ Head(q) \in Tx
        /\ Len(Tail(q)) = Len(q) - 1 /\ Len(q) \in Nat \ {0}
        /\ \A k \in 1..(Len(q) - 1) : Tail(q)[k] = q[k + 1]
    <3>. HIDE DEF q
    <3>. QED  BY <2>1, TailFacts
  <2>. QED  BY <1>1, <2>2
<1>5. ASSUME NEW n \in 0..(Len(queue) - 1), NEW u \in Nat \ {0}, Before(u, n + 1)
      PROVE  Before(u, n)'
  <2>1. CASE u \in saved
    BY <1>1, <2>1 DEF Before
  <2>2. ASSUME NEW j \in 1..(n + 1), queue[j] = u PROVE Before(u, n)'
    <3>1. CASE j = 1
      BY <1>4, <2>2, <3>1 DEF Before
    <3>2. CASE j # 1
      <4>1. j - 1 \in 1..n /\ j - 1 \in 1..(Len(queue) - 1) /\ (j - 1) + 1 = j
        BY <1>4, <2>2, <3>2
      <4>2. queue'[j - 1] = u
        BY <1>4, <2>2, <4>1
      <4>. QED  BY <4>1, <4>2 DEF Before
    <3>. QED  BY <3>1, <3>2
  <2>. QED  BY <1>1, <1>5, <2>1, <2>2 DEF Before
<1>6. ASSUME NEW u \in 1..(queue[1] - 1) PROVE u \in saved
  <2>1. 1 \in 1..Len(queue) /\ 1 - 1 = 0
    BY <1>4
  <2>2. Before(u, 0)
    BY <1>0, <1>6, <2>1 DEF NoneLeftOut
  <2>. QED  BY <1>1, <2>2 DEF Before
<1>7. ASSUME NEW i \in 1..Len(queue'), NEW u \in 1..(queue'[i] - 1)
      PROVE  Before(u, i - 1)'
  <2>1. i + 1 \in 1..Len(queue) /\ i \in 1..(Len(queue) - 1) /\ (i + 1) - 1 = (i - 1) + 1
        /\ i - 1 \in 0..(Len(queue) - 1)
    BY <1>4
  <2>2. Before(u, (i - 1) + 1)
    BY <1>0, <1>4, <1>7, <2>1 DEF NoneLeftOut
  <2>. QED  BY <1>5, <2>1, <2>2
<1>8. ASSUME process' = "running", NEW u \in 1..(next_tx' - 1)
      PROVE  Before(u, Len(queue))'
  <2>1. Before(u, Len(queue)) /\ Len(queue) - 1 \in 0..(Len(queue) - 1)
    BY <1>0, <1>1, <1>4, <1>8 DEF NoneLeftOut
  <2>2. Len(queue) = (Len(queue) - 1) + 1
    BY <1>4
  <2>3. u \in Nat \ {0}
    BY <1>1 DEF HandlerType
  <2>. QED  BY <1>4, <1>5, <2>1, <2>2, <2>3 DEF Before
<1>9. Due(handling)'
  BY <1>1, <1>4, <1>6 DEF Due
<1>10. NoneLeftOut'
  BY <1>7, <1>8, <1>9 DEF NoneLeftOut
<1>. QED  BY <1>2, <1>3, <1>10

\* A lost connection: when nothing later was queued behind the cancelled call,
\* nothing in the queue relied on it.
LEMMA ReconnectOrder ==
    ASSUME HandlerType, OrderInv, Reconnect
    PROVE  OrderInv'
<1>. SUFFICES ASSUME ~stale' PROVE (NoneLeftOut /\ SavedDue /\ HeldDue)'
  BY DEF OrderInv
<1>1. /\ handling' = 0 /\ Resume /\ ~stale
      /\ handling = 0 \/ ~\E t \in ToSet(queue) : t > handling
      /\ UNCHANGED <<checkpoint, saved, process, queue, shards, working, failures>>
  BY DEF Reconnect, durableVars, shardVars
<1>0. NoneLeftOut /\ SavedDue /\ HeldDue
  BY <1>1 DEF OrderInv
<1>2. SavedDue'
  BY <1>0, <1>1 DEF SavedDue, Due
<1>3. HeldDue'
  BY <1>0, <1>1 DEF HeldDue, Held, InShard, Due
<1>4. ASSUME NEW i \in 1..Len(queue), NEW u \in 1..(queue[i] - 1)
      PROVE  Before(u, i - 1)'
  <2>1. Before(u, i - 1)
    BY <1>0, <1>4 DEF NoneLeftOut
  <2>2. u # handling
    <3>1. queue[i] \in Tx /\ queue[i] \in ToSet(queue) /\ queue[i] \in Nat
      <4>1. Tx \subseteq Nat
        BY HandlerAssumption DEF Tx
      <4>2. DOMAIN queue = 1..Len(queue) /\ queue[i] \in Tx
        BY DEF HandlerType
      <4>. QED  BY <4>1, <4>2 DEF ToSet
    <3>2. u \in Nat \ {0} /\ u < queue[i]
      BY <1>4, <3>1
    <3>3. CASE handling = 0
      BY <3>2, <3>3
    <3>4. CASE ~\E t \in ToSet(queue) : t > handling
      BY <3>1, <3>2, <3>4
    <3>. QED  BY <1>1, <3>3, <3>4
  <2>. QED  BY <1>1, <2>1, <2>2 DEF Before
<1>5. \A u \in 1..(next_tx' - 1) : Before(u, Len(queue))'
  BY <1>0, <1>1, ResumeFacts DEF Before
<1>6. NoneLeftOut'
  BY <1>1, <1>4, <1>5 DEF NoneLeftOut
<1>. QED  BY <1>2, <1>3, <1>6

\* run returns, and the client's queue is gone.
LEMMA RunReturnsOrder ==
    ASSUME HandlerType, OrderInv, RunReturns
    PROVE  OrderInv'
<1>. SUFFICES ASSUME ~stale PROVE (NoneLeftOut /\ SavedDue /\ HeldDue)'
  BY DEF OrderInv, RunReturns
<1>0. NoneLeftOut /\ SavedDue /\ HeldDue
  BY DEF OrderInv
<1>1. /\ handling' = 0 /\ queue' = <<>> /\ process' = "stopping"
      /\ UNCHANGED <<checkpoint, saved, shards, working, failures>>
  BY DEF RunReturns, durableVars, shardVars
<1>2. SavedDue'
  BY <1>0, <1>1 DEF SavedDue, Due
<1>3. HeldDue'
  BY <1>0, <1>1 DEF HeldDue, Held, InShard, Due
<1>4. NoneLeftOut'
  BY <1>1 DEF NoneLeftOut
<1>. QED  BY <1>2, <1>3, <1>4

\* handle raises, or saves a transaction that is due.
LEMMA ReturnOrder ==
    ASSUME HandlerType, Called, OrderInv, Return
    PROVE  OrderInv'
<1>. SUFFICES ASSUME ~stale PROVE (NoneLeftOut /\ SavedDue /\ HeldDue)'
  BY DEF OrderInv, Return
<1>0. NoneLeftOut /\ SavedDue /\ HeldDue
  BY DEF OrderInv
<1>1. /\ handling # 0 /\ handling \in Tx /\ handling' = 0 /\ Due(handling)
      /\ UNCHANGED <<next_tx, shards, working>>
  BY <1>0 DEF Return, Called, NoneLeftOut, shardVars
<1>2. CASE /\ failures' = {} /\ process' = "stopping" /\ queue' = <<>>
           /\ UNCHANGED <<checkpoint, saved>>
  <2>1. SavedDue'
    BY <1>0, <1>2 DEF SavedDue, Due
  <2>2. HeldDue'
    BY <1>0, <1>1, <1>2 DEF HeldDue, Held, InShard, Due
  <2>3. NoneLeftOut'
    BY <1>1, <1>2 DEF NoneLeftOut
  <2>. QED  BY <2>1, <2>2, <2>3
<1>3. CASE /\ checkpoint' = handling /\ saved' = saved \cup {handling}
           /\ UNCHANGED <<failures, process, queue>>
  <2>1. SavedDue'
    BY <1>0, <1>1, <1>3 DEF SavedDue, Due
  <2>2. HeldDue'
    BY <1>0, <1>1, <1>3 DEF HeldDue, Held, InShard, Due
  <2>3. ASSUME NEW u, NEW n, Before(u, n) PROVE Before(u, n)'
    BY <1>3, <2>3 DEF Before
  <2>4. NoneLeftOut'
    BY <1>0, <1>1, <1>3, <2>3 DEF NoneLeftOut
  <2>. QED  BY <2>1, <2>2, <2>4
<1>. QED  BY <1>2, <1>3 DEF Return

\* What handle puts belongs to a transaction that is due.
LEMMA PutOrder ==
    ASSUME OrderInv, handling # 0, NEW e \in Events, e.tx = handling,
           UNCHANGED <<checkpoint, saved, stale, process, handling, queue, next_tx>>,
           \A d \in Events : Held(d)' => Held(d) \/ d = e
    PROVE  OrderInv'
<1>. SUFFICES ASSUME ~stale PROVE (NoneLeftOut /\ SavedDue /\ HeldDue)'
  BY DEF OrderInv
<1>0. NoneLeftOut /\ SavedDue /\ HeldDue
  BY DEF OrderInv
<1>1. NoneLeftOut'
  BY <1>0 DEF NoneLeftOut, Due, Before
<1>2. SavedDue' /\ HeldDue'
  BY <1>0 DEF SavedDue, HeldDue, NoneLeftOut, Due
<1>. QED  BY <1>1, <1>2

-----------------------------------------------------------------------------
(* The steps *)

\* The first process finds nothing done and has nothing to do.
LEMMA InitHandler == Init => HandlerInv
<1>. SUFFICES ASSUME Init PROVE HandlerInv
  OBVIOUS
<1>0. HandlerType
  <2>1. stale \in BOOLEAN
    BY Zenon DEF Init
  <2>2. /\ checkpoint \in Nat /\ next_tx \in Nat /\ put \in Nat
        /\ saved \subseteq Tx /\ failed \subseteq Events /\ failures \subseteq failed
    BY DEF Init
  <2>3. published \in Seq(Events) /\ queue \in Seq(Tx)
    BY DEF Init
  <2>4. /\ shards \in [Shards -> Seq(Events)] /\ unfinished \in [Shards -> Nat]
        /\ working \in [Shards -> Events \cup {NoEvent}]
    BY DEF Init
  <2>. QED  BY <2>1, <2>2, <2>3, <2>4 DEF HandlerType
<1>1. Called /\ Counted
  BY DEF Init, Called, Counted
<1>2. PutAccounted /\ PairsAccounted /\ SavedLogged /\ OvertakenWasRepeated
  BY DEF Init, PutAccounted, PairsAccounted, SavedLogged, OvertakenWasRepeated
<1>3. \A s \in Shards : ShardOrdered(s)
  BY DEF Init, ShardOrdered
<1>4. NoneLeftOut /\ SavedDue
  BY DEF Init, NoneLeftOut, SavedDue
<1>5. HeldDue
  BY EventFacts DEF Init, HeldDue, Held, InShard
<1>6. Quiet /\ LogOrdered
  BY DEF Init, Quiet, LogOrdered
<1>. QED
  BY <1>0, <1>1, <1>2, <1>3, <1>4, <1>5, <1>6 DEF HandlerInv, WorkInv, OrderInv

\* What the broker has seen stays in order while it sees nothing new.
LEMMA LogKept ==
    ASSUME LogOrdered, published' = published, failed \subseteq failed', stale => stale'
    PROVE  LogOrdered'
  BY DEF LogOrdered, Earlier

\* A new object has empty shards and has recorded no failure.
LEMMA FreshSteps ==
    ASSUME HandlerInv, StartProcess \/ Crash \/ Stop
    PROVE  HandlerInv'
<1>1. /\ FreshHandler /\ UNCHANGED <<durableVars, stale>>
      /\ \/ process' = "running" /\ Resume
         \/ process' = "down" /\ UNCHANGED next_tx
  BY DEF StartProcess, Crash, Stop
<1>2. HandlerType /\ OrderInv
  BY DEF HandlerInv, WorkInv
<1>3. next_tx' \in Nat
  <2>1. CASE Resume
    <3>1. Tx \subseteq Nat
      BY HandlerAssumption DEF Tx
    <3>. QED  BY <1>2, <2>1, <3>1 DEF Resume, HandlerType
  <2>. QED  BY <1>1, <1>2, <2>1 DEF HandlerType
<1>4. HandlerType' /\ Called' /\ Counted'
  BY <1>1, <1>2, <1>3 DEF HandlerType, Called, Counted, FreshHandler, durableVars
<1>5. PutAccounted' /\ PairsAccounted'
  BY <1>1 DEF FreshHandler, PutAccounted, PairsAccounted
<1>6. SavedLogged' /\ OvertakenWasRepeated'
  BY <1>1
  DEF HandlerInv, WorkInv, SavedLogged, Logged, OvertakenWasRepeated, durableVars
<1>7. \A s \in Shards : ShardOrdered(s)'
  BY <1>1 DEF FreshHandler, ShardOrdered
<1>8. OrderInv'
  BY <1>1, <1>2, FreshOrder DEF durableVars
<1>9. Quiet' /\ LogOrdered'
  BY <1>1, LogKept DEF HandlerInv, Quiet, FreshHandler, durableVars
<1>. QED
  BY <1>4, <1>5, <1>6, <1>7, <1>8, <1>9 DEF HandlerInv, WorkInv

\* The queue or the call changes; what a cancelled call has put stays where it is.
LEMMA CallSteps ==
    ASSUME HandlerInv, RunReturns \/ Receive \/ Call \/ Reconnect
    PROVE  HandlerInv'
<1>1. UNCHANGED <<durableVars, shardVars, failures>> /\ (stale => stale')
  <2>1. UNCHANGED <<durableVars, shardVars, failures>>
    BY DEF RunReturns, Receive, Call, Reconnect
  <2>2. stale' = stale \/ Reconnect
    BY DEF RunReturns, Receive, Call
  <2>3. Reconnect => (stale => stale')
    BY DEF Reconnect
  <2>. QED  BY <2>1, <2>2, <2>3
<1>2. HandlerType /\ Called /\ OrderInv /\ Quiet
  BY DEF HandlerInv, WorkInv
<1>3. Tx \subseteq Nat
  BY HandlerAssumption DEF Tx
<1>4. /\ put' \in Nat
      /\ \/ handling' = 0
         \/ handling' \in Tx /\ put' = 0
         \/ UNCHANGED <<handling, put>>
      /\ queue' \in Seq(Tx) /\ next_tx' \in Nat /\ stale' \in BOOLEAN
      /\ process' # "running" => handling' = 0 /\ queue' = <<>>
  <2>1. CASE RunReturns
    BY <1>2, <2>1 DEF RunReturns, HandlerType
  <2>2. CASE Receive
    <3>1. queue' \in Seq(Tx)
      BY <1>2, <2>2, AppendFacts DEF Receive, HandlerType
    <3>. QED  BY <1>2, <2>2, <3>1 DEF Receive, HandlerType
  <2>3. CASE Call
    <3>1. Tail(queue) \in Seq(Tx) /\ Head(queue) \in Tx
      BY <1>2, <2>3, TailFacts DEF Call, HandlerType
    <3>. QED  BY <1>2, <2>3, <3>1 DEF Call, HandlerType
  <2>4. CASE Reconnect
    <3>1. next_tx' \in Nat
      BY <1>2, <1>3, <2>4 DEF Reconnect, Resume, HandlerType
    <3>2. stale' \in BOOLEAN
      BY <2>4 DEF Reconnect
    <3>. QED  BY <1>2, <2>4, <3>1, <3>2 DEF Reconnect, HandlerType
  <2>. QED  BY <2>1, <2>2, <2>3, <2>4
<1>5. HandlerType' /\ Counted' /\ Quiet'
  BY <1>1, <1>2, <1>4
  DEF HandlerInv, WorkInv, HandlerType, Counted, Quiet, durableVars, shardVars
<1>6. Called' /\ PutAccounted' /\ PairsAccounted'
  <2>1. CASE handling' = 0
    BY <2>1 DEF Called, PutAccounted, PairsAccounted
  <2>2. CASE handling' \in Tx /\ put' = 0
    <3>1. Len(Inserts[handling']) \in Nat
      BY <2>2, HandlerAssumption DEF Tx
    <3>. QED  BY <2>2, <3>1 DEF Called, PutAccounted, PairsAccounted
  <2>3. CASE UNCHANGED <<handling, put>>
    <3>1. PutAccounted'
      BY <1>1, <2>3
      DEF HandlerInv, WorkInv, PutAccounted, Accounted, Insert, Logged, InShard,
          durableVars, shardVars
    <3>2. PairsAccounted'
      BY <1>1, <2>3
      DEF HandlerInv, WorkInv, PairsAccounted, PairAccounted, QueuedBehind, Insert,
          Logged, InShard, durableVars, shardVars
    <3>. QED  BY <1>2, <2>3, <3>1, <3>2 DEF Called
  <2>. QED  BY <1>4, <2>1, <2>2, <2>3
<1>7. SavedLogged' /\ OvertakenWasRepeated' /\ \A s \in Shards : ShardOrdered(s)'
  BY <1>1
  DEF HandlerInv, WorkInv, SavedLogged, OvertakenWasRepeated, ShardOrdered,
      NotOvertaken, Logged, durableVars, shardVars
<1>8. OrderInv'
  BY <1>2, RunReturnsOrder, ReceiveOrder, CallOrder, ReconnectOrder
<1>9. LogOrdered'
  BY <1>1, LogKept DEF HandlerInv, durableVars
<1>. QED  BY <1>5, <1>6, <1>7, <1>8, <1>9 DEF HandlerInv, WorkInv

\* handle puts the next insert at the end of its shard.
LEMMA PutStep ==
    ASSUME HandlerInv, Put
    PROVE  HandlerInv'
<1>0. HandlerType /\ Called /\ OrderInv
  BY DEF HandlerInv, WorkInv
<1>1. /\ handling # 0 /\ handling \in Tx
      /\ put \in Nat /\ put + 1 \in 1..Len(Inserts[handling])
      /\ Len(Inserts[handling]) \in Nat
  <2>1. handling \in Tx /\ handling # 0
    BY <1>0 DEF Put, Called
  <2>2. Len(Inserts[handling]) \in Nat
    BY <2>1, HandlerAssumption DEF Tx
  <2>. QED  BY <1>0, <2>1, <2>2 DEF Put, HandlerType
<1>a. PICK e \in Events : e = Insert(put + 1)
  BY <1>1, InsertsAreEvents DEF Insert
<1>b. PICK s \in Shards : s = ShardFor(e)
  BY EventFacts
<1>2. e.tx = handling /\ e.pos = put + 1
  BY <1>a DEF Insert
<1>3. /\ shards' = [shards EXCEPT ![s] = Append(@, e)]
      /\ unfinished' = [unfinished EXCEPT ![s] = @ + 1]
      /\ put' = put + 1
      /\ UNCHANGED <<durableVars, process, clientVars, handling, working, failures>>
  BY <1>a, <1>b DEF Put, Insert
<1>4. /\ shards[s] \in Seq(Events) /\ unfinished[s] \in Nat
      /\ shards'[s] = Append(shards[s], e) /\ unfinished'[s] = unfinished[s] + 1
      /\ \A r \in Shards \ {s} :
            shards'[r] = shards[r] /\ unfinished'[r] = unfinished[r]
  BY <1>0, <1>3 DEF HandlerType
<1>5. /\ shards'[s] \in Seq(Events)
      /\ Len(shards'[s]) = Len(shards[s]) + 1 /\ Len(shards[s]) \in Nat
      /\ shards'[s][Len(shards[s]) + 1] = e
      /\ \A k \in 1..Len(shards[s]) : shards'[s][k] = shards[s][k]
  BY <1>4, AppendFacts
<1>c. /\ UNCHANGED <<checkpoint, saved, published, followed, failed, process>>
      /\ UNCHANGED <<next_tx, queue, stale, handling, working, failures>>
  BY <1>3 DEF durableVars, clientVars
<1>6. HandlerType'
  BY <1>0, <1>1, <1>3, <1>4, <1>5, <1>c DEF HandlerType
<1>7. Called'
  BY <1>1, <1>3, <1>c DEF Called
<1>8. Counted'
  <2>1. ASSUME NEW r \in Shards
        PROVE  unfinished'[r] = Len(shards'[r])
                                + IF working[r] = NoEvent THEN 0 ELSE 1
    <3>. DEFINE b == IF working[r] = NoEvent THEN 0 ELSE 1
    <3>0. b \in Nat
      OBVIOUS
    <3>1. unfinished[r] = Len(shards[r]) + b
      BY DEF HandlerInv, WorkInv, Counted
    <3>. HIDE DEF b
    <3>2. CASE r = s
      <4>1. /\ unfinished'[r] = unfinished[r] + 1 /\ Len(shards[r]) \in Nat
            /\ Len(shards'[r]) = Len(shards[r]) + 1
        BY <1>4, <1>5, <3>2
      <4>2. unfinished'[r] = Len(shards'[r]) + b
        BY <3>0, <3>1, <4>1
      <4>. QED  BY <4>2 DEF b
    <3>3. CASE r # s
      BY <1>4, <3>1, <3>3 DEF b
    <3>. QED  BY <3>2, <3>3
  <2>. QED  BY <1>c, <2>1 DEF Counted
<1>9. ASSUME NEW r \in Shards, NEW k \in 1..Len(shards[r])
      PROVE  k \in 1..Len(shards'[r]) /\ shards'[r][k] = shards[r][k]
  <2>1. CASE r = s
    BY <1>5, <1>9, <2>1
  <2>2. CASE r # s
    BY <1>4, <1>9, <2>2
  <2>. QED  BY <2>1, <2>2
<1>10. ASSUME NEW f, NEW r \in Shards, InShard(f, r) PROVE InShard(f, r)'
  BY <1>c, <1>9, <1>10 DEF InShard
<1>d. \A f : Logged(f)' <=> Logged(f)
  BY <1>c DEF Logged
<1>e. InShard(e, s)'
  BY <1>5 DEF InShard
<1>11. PutAccounted'
  <2>. SUFFICES ASSUME NEW i \in 1..(put + 1) PROVE Accounted(Insert(i))'
    BY <1>3 DEF PutAccounted
  <2>1. CASE i = put + 1
    <3>1. Insert(i)' = e
      BY <1>a, <1>c, <2>1 DEF Insert
    <3>. QED  BY <1>b, <1>e, <3>1 DEF Accounted
  <2>2. CASE i \in 1..put
    <3>. DEFINE f == Insert(i)
    <3>0. Insert(i)' = f
      BY <1>c DEF Insert
    <3>1. Accounted(f)
      BY <1>1, <2>2 DEF HandlerInv, WorkInv, PutAccounted
    <3>2. ShardFor(f) \in Shards
      BY <1>0, <1>1, <2>2, PutFacts
    <3>. HIDE DEF f
    <3>. QED  BY <1>c, <1>d, <1>10, <3>0, <3>1, <3>2 DEF Accounted
  <2>. QED  BY <1>1, <2>1, <2>2
<1>12. PairsAccounted'
  <2>. SUFFICES ASSUME NEW i \in 1..(put + 1), NEW f, f = Insert(i), NEW d \in Elders(f)
                PROVE  PairAccounted(d, f)'
    BY <1>3, <1>c DEF PairsAccounted, Insert
  <2>1. CASE i = put + 1
    <3>1. f = e /\ d \in Events /\ ShardFor(d) = s /\ d.tx = handling /\ d.pos < put + 1
      BY <1>a, <1>b, <1>2, <2>1, ElderFacts
    <3>2. d.pos \in 1..put /\ d = Insert(d.pos)
      BY <1>1, <3>1, EventFacts DEF Insert
    <3>3. Accounted(d)
      BY <1>1, <3>2 DEF HandlerInv, WorkInv, PutAccounted
    <3>4. CASE Logged(d)
      BY <1>b, <1>d, <1>e, <3>1, <3>4 DEF PairAccounted
    <3>5. CASE d \in failures
      BY <1>c, <3>5 DEF PairAccounted
    <3>6. CASE InShard(d, s)
      <4>1. QueuedBehind(d, e, s)'
        <5>1. Len(shards[s]) + 1 \in 1..Len(shards'[s])
          BY <1>5
        <5>2. working'[s] = d \/ \E j \in 1..Len(shards[s]) : shards'[s][j] = d
          BY <1>c, <1>5, <3>6 DEF InShard
        <5>3. (Len(shards[s]) + 1) - 1 = Len(shards[s])
          BY <1>5
        <5>. QED  BY <1>5, <5>1, <5>2, <5>3 DEF QueuedBehind
      <4>. QED  BY <1>b, <3>1, <4>1 DEF PairAccounted
    <3>. QED  BY <3>1, <3>3, <3>4, <3>5, <3>6 DEF Accounted
  <2>2. CASE i \in 1..put
    <3>1. PairAccounted(d, f)
      BY <1>1, <2>2 DEF HandlerInv, WorkInv, PairsAccounted
    <3>2. ShardFor(f) \in Shards
      BY <1>0, <1>1, <2>2, PutFacts
    <3>3. QueuedBehind(d, f, ShardFor(f)) => QueuedBehind(d, f, ShardFor(f))'
      <4>1. ASSUME NEW k \in 1..Len(shards[ShardFor(f)]), NEW j \in 1..(k - 1)
            PROVE  j \in 1..Len(shards[ShardFor(f)])
        BY <1>0, <3>2 DEF HandlerType
      <4>. QED  BY <1>c, <1>9, <3>2, <4>1 DEF QueuedBehind
    <3>. QED  BY <1>c, <1>d, <1>10, <3>1, <3>2, <3>3 DEF PairAccounted
  <2>. QED  BY <1>1, <2>1, <2>2
<1>13. SavedLogged' /\ OvertakenWasRepeated'
  BY <1>c, <1>d DEF HandlerInv, WorkInv, SavedLogged, OvertakenWasRepeated
<1>14. ASSUME NEW r \in Shards PROVE ShardOrdered(r)'
  <2>. SUFFICES ASSUME NEW f \in Events \ failed
                PROVE  /\ working[r] # NoEvent /\ f \in Elders(working[r]) => Logged(f)
                       /\ \A k \in 1..Len(shards'[r]) :
                             f \in Elders(shards'[r][k]) => NotOvertaken(f, r, k)'
    BY <1>c, <1>d DEF ShardOrdered
  <2>1. working[r] # NoEvent /\ f \in Elders(working[r]) => Logged(f)
    BY DEF HandlerInv, WorkInv, ShardOrdered
  <2>2. ASSUME NEW k \in 1..Len(shards'[r]), f \in Elders(shards'[r][k])
        PROVE  NotOvertaken(f, r, k)'
    <3>1. CASE r # s \/ k \in 1..Len(shards[s])
      <4>1. k \in 1..Len(shards[r])
        BY <1>4, <3>1
      <4>2. shards'[r][k] = shards[r][k]
        BY <1>9, <4>1
      <4>3. NotOvertaken(f, r, k)
        BY <2>2, <4>1, <4>2 DEF HandlerInv, WorkInv, ShardOrdered
      <4>4. \A j \in 1..(k - 1) : shards'[r][j] = shards[r][j]
        <5>1. ASSUME NEW j \in 1..(k - 1) PROVE j \in 1..Len(shards[r])
          BY <1>0, <4>1 DEF HandlerType
        <5>. QED  BY <1>9, <5>1
      <4>. QED  BY <1>c, <1>d, <4>3, <4>4 DEF NotOvertaken
    <3>2. CASE r = s /\ k = Len(shards[s]) + 1
      <4>1. f \in Elders(e)
        BY <1>5, <2>2, <3>2
      <4>2. f.tx = handling /\ f.pos < put + 1 /\ ShardFor(f) = s
        BY <1>b, <1>2, <4>1, ElderFacts
      <4>3. f.pos \in 1..put /\ f = Insert(f.pos)
        BY <1>1, <4>2, EventFacts DEF Insert
      <4>4. Accounted(f)
        BY <1>1, <4>3 DEF HandlerInv, WorkInv, PutAccounted
      <4>5. f \notin failures
        BY <1>0 DEF HandlerType
      <4>6. CASE Logged(f)
        BY <1>d, <4>6 DEF NotOvertaken
      <4>7. CASE InShard(f, s)
        <5>1. working'[s] = f \/ \E j \in 1..Len(shards[s]) : shards'[s][j] = f
          BY <1>c, <1>5, <4>7 DEF InShard
        <5>2. k - 1 = Len(shards[s])
          BY <1>5, <3>2
        <5>. QED  BY <3>2, <5>1, <5>2 DEF NotOvertaken
      <4>. QED  BY <4>2, <4>4, <4>5, <4>6, <4>7 DEF Accounted
    <3>. QED  BY <1>5, <3>1, <3>2
  <2>. QED  BY <2>1, <2>2
<1>15. OrderInv'
  <2>1. ASSUME NEW d \in Events, Held(d)' PROVE Held(d) \/ d = e
    <3>1. CASE d \in failures'
      BY <1>c, <3>1 DEF Held
    <3>2. ASSUME NEW r \in Shards, InShard(d, r)' PROVE Held(d) \/ d = e
      <4>1. CASE working'[r] = d
        BY <1>c, <4>1 DEF Held, InShard
      <4>2. ASSUME NEW k \in 1..Len(shards'[r]), shards'[r][k] = d
            PROVE  Held(d) \/ d = e
        <5>1. CASE r = s /\ k = Len(shards[s]) + 1
          BY <1>5, <4>2, <5>1
        <5>2. CASE r # s \/ k \in 1..Len(shards[s])
          <6>1. k \in 1..Len(shards[r])
            BY <1>4, <4>2, <5>2
          <6>2. shards[r][k] = d
            BY <1>9, <4>2, <6>1
          <6>. QED  BY <6>1, <6>2 DEF Held, InShard
        <5>. QED  BY <1>5, <5>1, <5>2
      <4>. QED  BY <3>2, <4>1, <4>2 DEF InShard
    <3>. QED  BY <2>1, <3>1, <3>2 DEF Held
  <2>. QED  BY <1>0, <1>1, <1>2, <1>c, <2>1, PutOrder
<1>16. Quiet' /\ LogOrdered'
  BY <1>c, LogKept DEF HandlerInv, Quiet
<1>. QED
  BY <1>6, <1>7, <1>8, <1>11, <1>12, <1>13, <1>14, <1>15, <1>16
  DEF HandlerInv, WorkInv

\* handle returns: the shards its inserts went to are drained.
LEMMA ReturnStep ==
    ASSUME HandlerInv, Return
    PROVE  HandlerInv'
<1>0. HandlerType /\ Called /\ OrderInv
  BY DEF HandlerInv, WorkInv
<1>1. /\ handling # 0 /\ handling \in Tx
      /\ put = Len(Inserts[handling]) /\ put \in Nat /\ Joined
  BY <1>0 DEF Return, Called, HandlerType
<1>2. /\ UNCHANGED <<published, followed, failed, shards, unfinished, working>>
      /\ UNCHANGED <<next_tx, stale>>
  BY DEF Return, shardVars
<1>3. handling' = 0 /\ put' = 0
  BY DEF Return
<1>4. Called' /\ PutAccounted' /\ PairsAccounted'
  BY <1>3 DEF Called, PutAccounted, PairsAccounted
<1>d. \A f : Logged(f)' <=> Logged(f)
  BY <1>2 DEF Logged
<1>5. Counted' /\ \A s \in Shards : ShardOrdered(s)'
  <2>1. Counted'
    BY <1>2 DEF HandlerInv, WorkInv, Counted
  <2>2. \A s \in Shards : ShardOrdered(s)'
    BY <1>2 DEF HandlerInv, WorkInv, ShardOrdered, NotOvertaken, Logged
  <2>. QED  BY <2>1, <2>2
<1>6. OrderInv' /\ LogOrdered'
  BY <1>0, <1>2, ReturnOrder, LogKept DEF HandlerInv
<1>7. CASE /\ failures' = {} /\ process' = "stopping" /\ queue' = <<>>
           /\ UNCHANGED <<checkpoint, saved>>
  <2>1. HandlerType' /\ Quiet'
    BY <1>0, <1>2, <1>3, <1>7 DEF HandlerType, Quiet
  <2>2. SavedLogged' /\ OvertakenWasRepeated'
    BY <1>2, <1>7, <1>d DEF HandlerInv, WorkInv, SavedLogged, OvertakenWasRepeated
  <2>. QED  BY <1>4, <1>5, <1>6, <2>1, <2>2 DEF HandlerInv, WorkInv
<1>8. CASE /\ failures = {} /\ checkpoint' = handling /\ saved' = saved \cup {handling}
           /\ UNCHANGED <<failures, process, queue>>
  <2>0. handling \in Nat
    BY <1>1, HandlerAssumption DEF Tx
  <2>1. HandlerType' /\ Quiet'
    BY <1>0, <1>1, <1>2, <1>3, <1>8, <2>0 DEF HandlerInv, HandlerType, Quiet
  <2>2. ASSUME NEW e \in Events, e.tx = handling
        PROVE  /\ e.pos \in 1..put /\ e = Insert(e.pos)
               /\ ShardFor(e) \in TouchedShards /\ ShardFor(e) \in Shards
    BY <1>1, <2>2, EventFacts DEF TouchedShards, Insert
  <2>3. ASSUME NEW s \in TouchedShards, s \in Shards
        PROVE  working[s] = NoEvent /\ Len(shards[s]) = 0
    <3>1. unfinished[s] = 0
      BY <1>1, <2>3 DEF Joined
    <3>2. Len(shards[s]) \in Nat
      BY <1>0, <2>3 DEF HandlerType
    <3>3. unfinished[s] = Len(shards[s]) + IF working[s] = NoEvent THEN 0 ELSE 1
      BY <2>3 DEF HandlerInv, WorkInv, Counted
    <3>4. CASE working[s] # NoEvent
      BY <3>1, <3>2, <3>3, <3>4
    <3>5. CASE working[s] = NoEvent
      BY <3>1, <3>2, <3>3, <3>5
    <3>. QED  BY <3>4, <3>5
  <2>4. ASSUME NEW e \in Events, e.tx = handling
        PROVE  ~InShard(e, ShardFor(e)) /\ \A d : ~QueuedBehind(d, e, ShardFor(e))
    <3>1. working[ShardFor(e)] = NoEvent /\ Len(shards[ShardFor(e)]) = 0
      BY <2>2, <2>3, <2>4
    <3>2. e # NoEvent
      BY EventFacts
    <3>. QED  BY <3>1, <3>2 DEF InShard, QueuedBehind
  <2>5. SavedLogged'
    <3>. SUFFICES ASSUME NEW e \in Events, e.tx \in saved \/ e.tx = handling
                  PROVE  Logged(e)
      BY <1>8, <1>d DEF SavedLogged
    <3>1. CASE e.tx \in saved
      BY <3>1 DEF HandlerInv, WorkInv, SavedLogged
    <3>2. CASE e.tx = handling
      <4>1. Accounted(e)
        BY <1>1, <2>2, <3>2 DEF HandlerInv, WorkInv, PutAccounted
      <4>. QED  BY <1>8, <2>4, <3>2, <4>1 DEF Accounted
    <3>. QED  BY <3>1, <3>2
  <2>6. OvertakenWasRepeated'
    <3>. SUFFICES ASSUME NEW f \in Events, f.tx \in saved \/ f.tx = handling,
                         NEW e \in Elders(f)
                  PROVE  <<e, f>> \in followed
      BY <1>2, <1>8 DEF OvertakenWasRepeated
    <3>1. CASE f.tx \in saved
      BY <3>1 DEF HandlerInv, WorkInv, OvertakenWasRepeated
    <3>2. CASE f.tx = handling
      <4>1. PairAccounted(e, f)
        BY <1>1, <2>2, <3>2 DEF HandlerInv, WorkInv, PairsAccounted
      <4>. QED  BY <1>8, <2>4, <3>2, <4>1 DEF PairAccounted
    <3>. QED  BY <3>1, <3>2
  <2>. QED  BY <1>4, <1>5, <1>6, <2>1, <2>5, <2>6 DEF HandlerInv, WorkInv
<1>. QED  BY <1>7, <1>8 DEF Return, AnyFailure

\* A worker takes the head of its shard; what is behind it moves up.
LEMMA GetStep ==
    ASSUME HandlerInv, NEW s \in Shards, Get(s)
    PROVE  HandlerInv'
<1>0. HandlerType /\ Called /\ OrderInv
  BY DEF HandlerInv, WorkInv
<1>1. /\ working[s] = NoEvent /\ shards[s] # <<>>
      /\ working' = [working EXCEPT ![s] = Head(shards[s])]
      /\ shards' = [shards EXCEPT ![s] = Tail(@)]
  BY DEF Get
<1>c. /\ UNCHANGED <<checkpoint, saved, published, followed, failed, process>>
      /\ UNCHANGED <<next_tx, queue, stale, handling, put, unfinished, failures>>
  BY DEF Get, durableVars, clientVars
<1>2. /\ shards[s] \in Seq(Events) /\ shards'[s] = Tail(shards[s])
      /\ working'[s] = Head(shards[s])
      /\ \A r \in Shards \ {s} : shards'[r] = shards[r] /\ working'[r] = working[r]
  BY <1>0, <1>1 DEF HandlerType
<1>3. /\ shards'[s] \in Seq(Events)
      /\ Len(shards'[s]) = Len(shards[s]) - 1 /\ Len(shards[s]) \in Nat \ {0}
      /\ working'[s] = shards[s][1] /\ working'[s] \in Events
      /\ \A k \in 1..Len(shards'[s]) : shards'[s][k] = shards[s][k + 1]
  <2>. DEFINE q == shards[s]
  <2>0. q \in Seq(Events) /\ q # <<>>
    BY <1>1, <1>2
  <2>a. /\ Tail(q) \in Seq(Events) /\ Head(q) = q[1] /\ Head(q) \in Events
        /\ Len(Tail(q)) = Len(q) - 1 /\ Len(q) \in Nat \ {0}
        /\ \A k \in 1..(Len(q) - 1) : Tail(q)[k] = q[k + 1]
    <3>. HIDE DEF q
    <3>. QED  BY <2>0, TailFacts
  <2>1. /\ shards'[s] \in Seq(Events) /\ Len(shards[s]) \in Nat \ {0}
        /\ Len(shards'[s]) = Len(shards[s]) - 1
        /\ working'[s] = shards[s][1] /\ working'[s] \in Events
    BY <1>2, <2>a
  <2>2. \A k \in 1..(Len(shards[s]) - 1) : shards'[s][k] = shards[s][k + 1]
    BY <1>2, <2>a
  <2>. QED  BY <2>1, <2>2
<1>d. \A f : Logged(f)' <=> Logged(f)
  BY <1>c DEF Logged
<1>4. HandlerType' /\ Called'
  BY <1>0, <1>1, <1>2, <1>3, <1>c DEF HandlerType, Called
<1>5. SavedLogged' /\ OvertakenWasRepeated' /\ Quiet' /\ LogOrdered'
  <2>1. SavedLogged' /\ OvertakenWasRepeated' /\ Quiet'
    BY <1>c, <1>d DEF HandlerInv, WorkInv, SavedLogged, OvertakenWasRepeated, Quiet
  <2>. QED  BY <1>c, <2>1, LogKept DEF HandlerInv
<1>6. Counted'
  <2>1. working'[s] # NoEvent
    BY <1>3, EventFacts
  <2>2. unfinished[s] = Len(shards[s])
    <3>1. unfinished[s] = Len(shards[s]) + 0
      BY <1>1 DEF HandlerInv, WorkInv, Counted
    <3>. QED  BY <1>3, <3>1
  <2>3. unfinished'[s] = Len(shards'[s]) + 1
    BY <1>c, <1>3, <2>2 DEF HandlerInv, HandlerType
  <2>. QED  BY <1>c, <1>2, <2>1, <2>3 DEF HandlerInv, WorkInv, Counted
<1>7. ASSUME NEW k \in 1..Len(shards[s]), k # 1
      PROVE  k - 1 \in 1..Len(shards'[s]) /\ shards'[s][k - 1] = shards[s][k]
  <2>1. k - 1 \in 1..Len(shards'[s]) /\ (k - 1) + 1 = k
    BY <1>3, <1>7
  <2>. QED  BY <1>3, <2>1
<1>8. ASSUME NEW e \in Events, NEW r \in Shards, InShard(e, r)
      PROVE  InShard(e, r)'
  <2>1. CASE r = s
    <3>1. PICK k \in 1..Len(shards[s]) : shards[s][k] = e
      BY <1>1, <1>8, <2>1, EventFacts DEF InShard
    <3>2. CASE k = 1
      BY <1>3, <2>1, <3>1, <3>2 DEF InShard
    <3>3. CASE k # 1
      BY <1>7, <2>1, <3>1, <3>3 DEF InShard
    <3>. QED  BY <3>2, <3>3
  <2>2. CASE r # s
    BY <1>2, <1>8, <2>2 DEF InShard
  <2>. QED  BY <2>1, <2>2
<1>9. PutAccounted'
  <2>. SUFFICES ASSUME handling # 0, NEW i \in 1..put, NEW e, e = Insert(i)
                PROVE  Accounted(e)'
    BY <1>c DEF PutAccounted, Insert
  <2>1. e \in Events /\ ShardFor(e) \in Shards
    BY <1>0, PutFacts
  <2>2. Accounted(e)
    BY DEF HandlerInv, WorkInv, PutAccounted
  <2>. QED  BY <1>c, <1>d, <1>8, <2>1, <2>2 DEF Accounted
<1>10. ASSUME NEW e \in Events, NEW f \in Events, NEW r \in Shards, e # f,
              QueuedBehind(e, f, r)
       PROVE  QueuedBehind(e, f, r)'
  <2>1. CASE r # s
    BY <1>2, <1>10, <2>1 DEF QueuedBehind
  <2>2. CASE r = s
    <3>1. PICK k \in 1..Len(shards[s]) :
                  /\ shards[s][k] = f
                  /\ working[s] = e \/ \E j \in 1..(k - 1) : shards[s][j] = e
      BY <1>10, <2>2 DEF QueuedBehind
    <3>2. PICK j \in 1..(k - 1) : shards[s][j] = e
      BY <1>1, <3>1, EventFacts
    <3>3. k # 1 /\ j \in 1..Len(shards[s])
      BY <1>3, <3>2
    <3>4. k - 1 \in 1..Len(shards'[s]) /\ shards'[s][k - 1] = f
      BY <1>7, <3>1, <3>3
    <3>5. working'[s] = e \/ \E i \in 1..((k - 1) - 1) : shards'[s][i] = e
      <4>1. CASE j = 1
        BY <1>3, <3>2, <4>1
      <4>2. CASE j # 1
        <5>1. shards'[s][j - 1] = e
          BY <1>7, <3>2, <3>3, <4>2
        <5>2. j - 1 \in 1..((k - 1) - 1)
          BY <1>3, <3>2, <4>2
        <5>. QED  BY <5>1, <5>2
      <4>. QED  BY <4>1, <4>2
    <3>. QED  BY <2>2, <3>4, <3>5 DEF QueuedBehind
  <2>. QED  BY <2>1, <2>2
<1>11. PairsAccounted'
  <2>. SUFFICES ASSUME handling # 0, NEW i \in 1..put, NEW f, f = Insert(i),
                       NEW e \in Elders(f)
                PROVE  PairAccounted(e, f)'
    BY <1>c DEF PairsAccounted, Insert
  <2>1. f \in Events /\ ShardFor(f) \in Shards
    BY <1>0, PutFacts
  <2>2. e \in Events /\ e # f
    <3>1. e \in Events /\ e.pos < f.pos
      BY <2>1, ElderFacts
    <3>2. f.pos \in Nat
      BY <2>1, EventFacts
    <3>. QED  BY <3>1, <3>2
  <2>3. PairAccounted(e, f)
    BY DEF HandlerInv, WorkInv, PairsAccounted
  <2>. QED  BY <1>c, <1>d, <1>8, <1>10, <2>1, <2>2, <2>3 DEF PairAccounted
<1>12. ASSUME NEW r \in Shards PROVE ShardOrdered(r)'
  <2>1. CASE r # s
    <3>1. ShardOrdered(r)
      BY DEF HandlerInv, WorkInv
    <3>. QED  BY <1>2, <1>c, <1>d, <2>1, <3>1 DEF ShardOrdered, NotOvertaken
  <2>2. CASE r = s
    <3>. SUFFICES ASSUME NEW e \in Events \ failed
                  PROVE  /\ e \in Elders(working'[s]) => Logged(e)
                         /\ \A k \in 1..Len(shards'[s]) :
                               e \in Elders(shards'[s][k]) => NotOvertaken(e, s, k)'
      BY <1>c, <1>d, <2>2 DEF ShardOrdered
    <3>1. ASSUME NEW k \in 1..Len(shards[s]), e \in Elders(shards[s][k])
          PROVE  Logged(e) \/ \E j \in 1..(k - 1) : shards[s][j] = e
      <4>1. NotOvertaken(e, s, k)
        BY <3>1 DEF HandlerInv, WorkInv, ShardOrdered
      <4>. QED  BY <1>1, <4>1, EventFacts DEF NotOvertaken
    <3>2. ASSUME e \in Elders(working'[s]) PROVE Logged(e)
      BY <1>3, <3>1, <3>2
    <3>3. ASSUME NEW k \in 1..Len(shards'[s]), e \in Elders(shards'[s][k])
          PROVE  NotOvertaken(e, s, k)'
      <4>1. k + 1 \in 1..Len(shards[s]) /\ e \in Elders(shards[s][k + 1])
            /\ (k + 1) - 1 = k
        BY <1>3, <3>3
      <4>2. CASE Logged(e)
        BY <1>d, <4>2 DEF NotOvertaken
      <4>3. ASSUME NEW j \in 1..k, shards[s][j] = e PROVE NotOvertaken(e, s, k)'
        <5>1. CASE j = 1
          BY <1>3, <4>3, <5>1 DEF NotOvertaken
        <5>2. CASE j # 1
          <6>1. j - 1 \in 1..(k - 1) /\ j \in 1..Len(shards[s])
            BY <1>3, <4>3, <5>2
          <6>2. shards'[s][j - 1] = e
            BY <1>7, <4>3, <5>2, <6>1
          <6>. QED  BY <6>1, <6>2 DEF NotOvertaken
        <5>. QED  BY <5>1, <5>2
      <4>4. Logged(e) \/ \E j \in 1..k : shards[s][j] = e
        BY <3>1, <4>1
      <4>. QED  BY <4>2, <4>3, <4>4
    <3>. QED  BY <3>2, <3>3
  <2>. QED  BY <2>1, <2>2
<1>13. OrderInv'
  <2>1. ASSUME NEW e \in Events, Held(e)' PROVE Held(e)
    <3>1. CASE e \in failures'
      BY <1>c, <3>1 DEF Held
    <3>2. ASSUME NEW r \in Shards, InShard(e, r)' PROVE InShard(e, r)
      <4>1. CASE r # s
        BY <1>2, <3>2, <4>1 DEF InShard
      <4>2. CASE r = s /\ working'[s] = e
        <5>1. 1 \in 1..Len(shards[s]) /\ shards[s][1] = e
          BY <1>3, <4>2
        <5>. QED  BY <4>2, <5>1 DEF InShard
      <4>3. CASE r = s /\ \E k \in 1..Len(shards'[s]) : shards'[s][k] = e
        <5>1. PICK k \in 1..Len(shards'[s]) : shards'[s][k] = e
          BY <4>3
        <5>2. k + 1 \in 1..Len(shards[s]) /\ shards[s][k + 1] = e
          BY <1>3, <5>1
        <5>. QED  BY <4>3, <5>2 DEF InShard
      <4>. QED  BY <3>2, <4>1, <4>2, <4>3 DEF InShard
    <3>. QED  BY <2>1, <3>1, <3>2 DEF Held
  <2>. QED  BY <1>0, <1>c, <2>1, OrderKept
<1>. QED
  BY <1>4, <1>5, <1>6, <1>9, <1>11, <1>12, <1>13 DEF HandlerInv, WorkInv

\* What a worker is done with is in the log or failed; the rest of the invariant
\* does not see the difference.
LEMMA DoneStep ==
    ASSUME HandlerInv, HandlerType', NEW s \in Shards, NEW w \in Events,
           working[s] = w, TaskDone(s),
           UNCHANGED <<checkpoint, saved, stale, process, handling, put, queue>>,
           UNCHANGED <<next_tx, shards>>,
           \A e \in Events : Logged(e) => Logged(e)',
           followed \subseteq followed',
           failed \subseteq failed', failures \subseteq failures',
           failures' \subseteq failures \cup {w},
           Logged(w)' \/ w \in failures',
           w \in failures' \/ \A e \in Elders(w) : Logged(e) => <<e, w>> \in followed'
    PROVE  /\ Called' /\ Counted' /\ PutAccounted' /\ PairsAccounted'
           /\ SavedLogged' /\ OvertakenWasRepeated' /\ OrderInv' /\ Quiet'
           /\ \A r \in Shards : ShardOrdered(r)'
<1>0. HandlerType /\ Called /\ OrderInv
  BY DEF HandlerInv, WorkInv
<1>1. /\ working'[s] = NoEvent /\ unfinished'[s] = unfinished[s] - 1
      /\ \A r \in Shards \ {s} :
            working'[r] = working[r] /\ unfinished'[r] = unfinished[r]
  BY <1>0 DEF TaskDone, HandlerType
<1>2. w # NoEvent
  BY EventFacts
<1>3. Called' /\ SavedLogged' /\ OvertakenWasRepeated' /\ Quiet'
  <2>1. Called' /\ SavedLogged' /\ Quiet'
    BY <1>0 DEF HandlerInv, WorkInv, Called, SavedLogged, Quiet
  <2>2. OvertakenWasRepeated'
    BY DEF HandlerInv, WorkInv, OvertakenWasRepeated
  <2>. QED  BY <2>1, <2>2
<1>4. Counted'
  <2>1. unfinished[s] = Len(shards[s]) + 1 /\ Len(shards[s]) \in Nat
    BY <1>0, <1>2 DEF HandlerInv, WorkInv, HandlerType, Counted
  <2>2. unfinished'[s] = Len(shards'[s]) /\ Len(shards[s]) + 0 = Len(shards[s])
    BY <1>1, <2>1
  <2>. QED  BY <1>1, <2>2 DEF HandlerInv, WorkInv, Counted
<1>5. ASSUME NEW e \in Events, NEW r \in Shards, InShard(e, r), e # w
      PROVE  InShard(e, r)'
  BY <1>1, <1>5 DEF InShard
<1>6. PutAccounted'
  <2>. SUFFICES ASSUME handling # 0, NEW i \in 1..put, NEW e, e = Insert(i)
                PROVE  Accounted(e)'
    BY DEF PutAccounted, Insert
  <2>1. e \in Events /\ ShardFor(e) \in Shards
    BY <1>0, PutFacts
  <2>2. Accounted(e)
    BY DEF HandlerInv, WorkInv, PutAccounted
  <2>. QED  BY <1>5, <2>1, <2>2 DEF Accounted
<1>7. PairsAccounted'
  <2>. SUFFICES ASSUME handling # 0, NEW i \in 1..put, NEW f, f = Insert(i),
                       NEW e \in Elders(f)
                PROVE  PairAccounted(e, f)'
    BY DEF PairsAccounted, Insert
  <2>1. f \in Events /\ ShardFor(f) \in Shards /\ e \in Events
    BY <1>0, PutFacts
  <2>2. PairAccounted(e, f)
    BY DEF HandlerInv, WorkInv, PairsAccounted
  <2>3. CASE <<e, f>> \in followed \/ e \in failures \/ f \in failures
    BY <2>3 DEF PairAccounted
  <2>4. CASE Logged(e) /\ InShard(f, ShardFor(f))
    <3>1. CASE f = w
      BY <2>4, <3>1 DEF PairAccounted
    <3>2. CASE f # w
      BY <1>5, <2>1, <2>4, <3>2 DEF PairAccounted
    <3>. QED  BY <3>1, <3>2
  <2>5. CASE QueuedBehind(e, f, ShardFor(f))
    <3>. DEFINE r == ShardFor(f)
    <3>1. PICK k \in 1..Len(shards[r]) :
                  /\ shards[r][k] = f
                  /\ working[r] = e \/ \E j \in 1..(k - 1) : shards[r][j] = e
      BY <2>5 DEF QueuedBehind
    <3>2. InShard(f, r)'
      BY <3>1 DEF InShard
    <3>3. CASE \E j \in 1..(k - 1) : shards[r][j] = e
      <4>1. QueuedBehind(e, f, r)'
        BY <3>1, <3>3 DEF QueuedBehind
      <4>. QED  BY <4>1 DEF PairAccounted
    <3>4. CASE working[r] = e
      <4>1. CASE r = s
        BY <3>2, <3>4, <4>1 DEF PairAccounted
      <4>2. CASE r # s
        <5>1. working'[r] = e
          BY <1>1, <2>1, <3>4, <4>2
        <5>2. QueuedBehind(e, f, r)'
          BY <3>1, <5>1 DEF QueuedBehind
        <5>. QED  BY <5>2 DEF PairAccounted
      <4>. QED  BY <4>1, <4>2
    <3>. QED  BY <3>1, <3>3, <3>4
  <2>. QED  BY <2>2, <2>3, <2>4, <2>5 DEF PairAccounted
<1>8. ASSUME NEW r \in Shards PROVE ShardOrdered(r)'
  <2>. SUFFICES ASSUME NEW e \in Events \ failed'
                PROVE  /\ working'[r] # NoEvent /\ e \in Elders(working'[r])
                             => Logged(e)'
                       /\ \A k \in 1..Len(shards[r]) :
                             e \in Elders(shards[r][k]) => NotOvertaken(e, r, k)'
    BY DEF ShardOrdered
  <2>1. e \in Events \ failed /\ ShardOrdered(r)
    BY DEF HandlerInv, WorkInv
  <2>2. e = w => Logged(e)'
    BY DEF HandlerType
  <2>3. working'[r] # NoEvent /\ e \in Elders(working'[r]) => Logged(e)'
    BY <1>1, <2>1 DEF ShardOrdered
  <2>4. ASSUME NEW k \in 1..Len(shards[r]), e \in Elders(shards[r][k])
        PROVE  NotOvertaken(e, r, k)'
    <3>1. NotOvertaken(e, r, k)
      BY <2>1, <2>4 DEF ShardOrdered
    <3>2. CASE Logged(e)
      BY <3>2 DEF NotOvertaken
    <3>3. CASE working[r] = e
      BY <1>1, <2>2, <3>3 DEF NotOvertaken
    <3>4. CASE \E j \in 1..(k - 1) : shards[r][j] = e
      BY <3>4 DEF NotOvertaken
    <3>. QED  BY <3>1, <3>2, <3>3, <3>4 DEF NotOvertaken
  <2>. QED  BY <2>3, <2>4
<1>9. OrderInv'
  <2>1. ASSUME NEW e \in Events, Held(e)' PROVE Held(e)
    <3>0. e # NoEvent
      BY EventFacts
    <3>1. CASE e \in failures'
      BY <3>1 DEF Held, InShard
    <3>2. ASSUME NEW r \in Shards, InShard(e, r)' PROVE InShard(e, r)
      BY <1>1, <3>0, <3>2 DEF InShard
    <3>. QED  BY <2>1, <3>1, <3>2 DEF Held
  <2>. QED  BY <1>0, <2>1, OrderKept
<1>. QED  BY <1>3, <1>4, <1>6, <1>7, <1>8, <1>9

\* A worker publishes its event; what has to be seen before it has been.
LEMMA PublishStep ==
    ASSUME HandlerInv, NEW s \in Shards, Publish(s)
    PROVE  HandlerInv'
<1>0. HandlerType
  BY DEF HandlerInv, WorkInv
<1>1. PICK w \in Events : working[s] = w
  BY <1>0 DEF Publish, HandlerType
<1>2. /\ TaskDone(s)
      /\ UNCHANGED <<checkpoint, saved, failed, process, next_tx, queue, stale>>
      /\ UNCHANGED <<handling, put, shards, failures>>
      /\ followed' = followed \cup {<<e, w>> : e \in Elders(w) \cap ToSet(published)}
      /\ \/ Logged(w) /\ published' = published
         \/ ~Logged(w) /\ published' = Append(published, w)
  BY <1>1 DEF Publish, Contains, Logged, clientVars
<1>3. published \in Seq(Events) /\ Len(published) \in Nat
  BY <1>0 DEF HandlerType
<1>4. ASSUME published' = Append(published, w)
      PROVE  /\ published' \in Seq(Events) /\ Len(published') = Len(published) + 1
             /\ published'[Len(published) + 1] = w
             /\ \A k \in 1..Len(published) : published'[k] = published[k]
  BY <1>3, <1>4, AppendFacts
<1>5. HandlerType'
  <2>1. published' \in Seq(Events)
    BY <1>2, <1>3, <1>4
  <2>2. unfinished[s] \in Nat \ {0}
    <3>1. working[s] # NoEvent
      BY <1>1, EventFacts
    <3>2. unfinished[s] = Len(shards[s]) + 1 /\ Len(shards[s]) \in Nat
      BY <1>0, <3>1 DEF HandlerInv, WorkInv, HandlerType, Counted
    <3>. QED  BY <3>2
  <2>3. /\ unfinished' \in [Shards -> Nat]
        /\ working' \in [Shards -> Events \cup {NoEvent}]
    BY <1>0, <1>2, <2>2 DEF HandlerType, TaskDone
  <2>. QED  BY <1>0, <1>2, <2>1, <2>3 DEF HandlerType
<1>6. \A e \in Events : Logged(e) => Logged(e)'
  <2>1. CASE published' = published
    BY <2>1 DEF Logged
  <2>2. CASE published' = Append(published, w)
    BY <1>3, <1>4, <2>2 DEF Logged
  <2>. QED  BY <1>2, <2>1, <2>2
<1>7. Logged(w)'
  <2>1. CASE Logged(w) /\ published' = published
    BY <2>1 DEF Logged
  <2>2. CASE published' = Append(published, w)
    BY <1>3, <1>4, <2>2 DEF Logged
  <2>. QED  BY <1>2, <2>1, <2>2
<1>8. ASSUME NEW e \in Elders(w), Logged(e) PROVE <<e, w>> \in followed'
  <2>1. e \in ToSet(published)
    BY <1>3, <1>8 DEF Logged, ToSet
  <2>. QED  BY <1>2, <2>1
<1>9. /\ Called' /\ Counted' /\ PutAccounted' /\ PairsAccounted'
      /\ SavedLogged' /\ OvertakenWasRepeated' /\ OrderInv' /\ Quiet'
      /\ \A r \in Shards : ShardOrdered(r)'
  <2>1. followed \subseteq followed' /\ failures' \subseteq failures \cup {w}
    BY <1>2
  <2>. QED  BY <1>1, <1>2, <1>5, <1>6, <1>7, <1>8, <2>1, DoneStep
<1>10. ASSUME NEW e \in Events, Earlier(e, w) PROVE Logged(e)
  <2>0. w # NoEvent
    BY EventFacts
  <2>1. CASE e.tx = w.tx /\ e.pos < w.pos /\ e \notin failed
    <3>1. e \in Elders(w) /\ e \in Events \ failed
      BY <1>10, <2>1 DEF Earlier, Elders
    <3>2. ShardOrdered(s)
      BY DEF HandlerInv, WorkInv
    <3>. QED  BY <1>1, <2>0, <3>1, <3>2 DEF ShardOrdered
  <2>2. CASE e.tx < w.tx /\ ~stale
    <3>1. HeldDue
      BY <2>2 DEF HandlerInv, OrderInv
    <3>2. Due(w.tx)
      BY <1>1, <3>1 DEF HeldDue, Held, InShard
    <3>3. e.tx \in 1..(w.tx - 1)
      BY <2>2, EventFacts
    <3>4. e.tx \in saved
      BY <3>2, <3>3 DEF Due
    <3>. QED  BY <3>4 DEF HandlerInv, WorkInv, SavedLogged
  <2>. QED  BY <1>10, <2>1, <2>2 DEF Earlier
<1>11. LogOrdered'
  <2>0. LogOrdered
    BY DEF HandlerInv
  <2>1. CASE published' = published
    BY <1>2, <2>0, <2>1, LogKept
  <2>2. CASE ~Logged(w) /\ published' = Append(published, w)
    <3>. SUFFICES ASSUME NEW n \in 1..(Len(published) + 1),
                         NEW e \in Events, Earlier(e, published'[n])
                  PROVE  \E i \in 1..(Len(published) + 1) :
                            /\ published'[i] = e
                            /\ \A j \in 1..i : published'[j] # published'[n]
      BY <1>2, <1>4, <2>2 DEF LogOrdered, Earlier
    <3>1. CASE n \in 1..Len(published)
      <4>1. published'[n] = published[n]
        BY <1>4, <2>2, <3>1
      <4>2. PICK i \in 1..Len(published) :
                    /\ published[i] = e
                    /\ \A j \in 1..i : published[j] # published[n]
        BY <2>0, <3>1, <4>1 DEF LogOrdered
      <4>3. \A j \in 1..i : published'[j] = published[j]
        BY <1>3, <1>4, <2>2
      <4>. QED  BY <1>3, <4>1, <4>2, <4>3
    <3>2. CASE n = Len(published) + 1
      <4>1. published'[n] = w
        BY <1>4, <2>2, <3>2
      <4>2. Logged(e)
        BY <1>10, <4>1
      <4>3. PICK i \in 1..Len(published) : published[i] = e
        BY <4>2 DEF Logged
      <4>4. \A j \in 1..i : published'[j] = published[j] /\ published[j] # w
        BY <1>3, <1>4, <2>2 DEF Logged
      <4>. QED  BY <1>3, <4>1, <4>3, <4>4
    <3>. QED  BY <1>3, <3>1, <3>2
  <2>. QED  BY <1>2, <2>1, <2>2
<1>. QED  BY <1>5, <1>9, <1>11 DEF HandlerInv, WorkInv

\* Publishing raises: the failure is recorded before the task is done.
LEMMA FailStep ==
    ASSUME HandlerInv, NEW s \in Shards, Fail(s)
    PROVE  HandlerInv'
<1>0. HandlerType
  BY DEF HandlerInv, WorkInv
<1>1. PICK w \in Events : working[s] = w
  BY <1>0 DEF Fail, HandlerType
<1>2. /\ TaskDone(s)
      /\ UNCHANGED <<checkpoint, saved, published, followed, process, next_tx>>
      /\ UNCHANGED <<queue, stale, handling, put, shards>>
      /\ failures' = failures \cup {w} /\ failed' = failed \cup {w}
  BY <1>1 DEF Fail, clientVars
<1>3. HandlerType'
  <2>1. unfinished[s] \in Nat \ {0}
    <3>1. working[s] # NoEvent
      BY <1>1, EventFacts
    <3>2. unfinished[s] = Len(shards[s]) + 1 /\ Len(shards[s]) \in Nat
      BY <1>0, <3>1 DEF HandlerInv, WorkInv, HandlerType, Counted
    <3>. QED  BY <3>2
  <2>2. /\ unfinished' \in [Shards -> Nat]
        /\ working' \in [Shards -> Events \cup {NoEvent}]
    BY <1>0, <1>2, <2>1 DEF HandlerType, TaskDone
  <2>. QED  BY <1>0, <1>2, <2>2 DEF HandlerType
<1>4. \A e \in Events : Logged(e) => Logged(e)'
  BY <1>2 DEF Logged
<1>5. /\ Called' /\ Counted' /\ PutAccounted' /\ PairsAccounted'
      /\ SavedLogged' /\ OvertakenWasRepeated' /\ OrderInv' /\ Quiet'
      /\ \A r \in Shards : ShardOrdered(r)'
  <2>1. /\ followed \subseteq followed' /\ failed \subseteq failed'
        /\ failures \subseteq failures' /\ w \in failures'
        /\ failures' \subseteq failures \cup {w}
    BY <1>2
  <2>. QED  BY <1>1, <1>2, <1>3, <1>4, <2>1, DoneStep
<1>6. LogOrdered'
  BY <1>2, LogKept DEF HandlerInv
<1>. QED  BY <1>3, <1>5, <1>6 DEF HandlerInv, WorkInv

\* Every step keeps the invariant.
LEMMA NextHandler == HandlerInv /\ [Next]_vars => HandlerInv'
<1>. SUFFICES ASSUME HandlerInv, [Next]_vars PROVE HandlerInv'
  OBVIOUS
<1>1. CASE Next
  BY <1>1, FreshSteps, CallSteps, PutStep, ReturnStep, GetStep, PublishStep, FailStep
  DEF Next
<1>2. CASE UNCHANGED vars
  <2>1. /\ UNCHANGED <<checkpoint, saved, published, followed, failed, process>>
        /\ UNCHANGED <<next_tx, queue, stale, handling, put, shards, unfinished>>
        /\ UNCHANGED <<working, failures>>
    BY <1>2 DEF vars, durableVars, clientVars, shardVars
  <2>2. HandlerType' /\ Called' /\ Counted' /\ Quiet'
    BY <2>1 DEF HandlerInv, WorkInv, HandlerType, Called, Counted, Quiet
  <2>3. PutAccounted' /\ PairsAccounted'
    <3>1. PutAccounted'
      BY <2>1
      DEF HandlerInv, WorkInv, PutAccounted, Accounted, Insert, Logged, InShard
    <3>2. PairsAccounted'
      BY <2>1
      DEF HandlerInv, WorkInv, PairsAccounted, PairAccounted, QueuedBehind, Insert,
          Logged, InShard
    <3>. QED  BY <3>1, <3>2
  <2>4. SavedLogged' /\ OvertakenWasRepeated' /\ \A s \in Shards : ShardOrdered(s)'
    BY <2>1
    DEF HandlerInv, WorkInv, SavedLogged, OvertakenWasRepeated, ShardOrdered,
        NotOvertaken, Logged
  <2>5. OrderInv'
    <3>1. \A e \in Events : Held(e)' => Held(e)
      BY <2>1 DEF Held, InShard
    <3>. QED  BY <2>1, <3>1, OrderKept DEF HandlerInv
  <2>6. LogOrdered'
    BY <2>1, LogKept DEF HandlerInv
  <2>. QED  BY <2>2, <2>3, <2>4, <2>5, <2>6 DEF HandlerInv, WorkInv
<1>. QED  BY <1>1, <1>2

\* The invariant holds in every reachable state.
LEMMA HandlerInvariant == Spec => []HandlerInv
  BY InitHandler, NextHandler, PTL DEF Spec

-----------------------------------------------------------------------------
(* A checkpoint never claims progress on work that has not finished: every event
   of a transaction handle saved has reached the broker, whatever the shards and
   the list of failures held of cancelled calls, and so has every event the
   checkpoint passes over, unless a call was cancelled with later transactions
   queued. *)
THEOREM CheckpointCoversPublished == Spec => []SavedWasPublished
<1>1. HandlerInv => SavedWasPublished
  <2>. SUFFICES ASSUME HandlerInv, NEW e \in Events,
                       e.tx \in saved \/ (~stale /\ e.tx <= checkpoint)
                PROVE  Logged(e)
    BY DEF SavedWasPublished, Logged, Contains
  <2>1. ASSUME ~stale, e.tx <= checkpoint PROVE e.tx \in saved
    <3>1. SavedDue /\ checkpoint \in Nat
      BY <2>1 DEF HandlerInv, WorkInv, HandlerType, OrderInv
    <3>2. checkpoint \in saved
      BY <2>1, <3>1, EventFacts DEF SavedDue
    <3>3. e.tx = checkpoint \/ e.tx \in 1..(checkpoint - 1)
      BY <2>1, <3>1, EventFacts
    <3>. QED  BY <3>1, <3>2, <3>3 DEF SavedDue, Due
  <2>. QED  BY <2>1 DEF HandlerInv, WorkInv, SavedLogged
<1>. QED  BY <1>1, HandlerInvariant, PTL

(* The broker sees the events of an entity for the first time in their order:
   within a transaction except those whose publishing has failed, and across
   transactions all of them, unless a call was cancelled with later transactions
   queued. *)
THEOREM EntityEventsInOrder == Spec => []EntityOrderUnlessFailed
<1>1. HandlerInv => EntityOrderUnlessFailed
  <2>. SUFFICES ASSUME HandlerInv, NEW f \in ToSet(published), NEW e \in Events,
                       Earlier(e, f)
                PROVE  EarlierInLog(e, f)
    BY DEF EntityOrderUnlessFailed, Earlier
  <2>1. published \in Seq(Events) /\ DOMAIN published = 1..Len(published)
    BY DEF HandlerInv, WorkInv, HandlerType
  <2>2. PICK n \in 1..Len(published) : published[n] = f
    BY <2>1 DEF ToSet
  <2>3. LogOrdered
    BY DEF HandlerInv
  <2>. QED  BY <2>1, <2>2, <2>3 DEF LogOrdered, EarlierInLog
<1>. QED  BY <1>1, HandlerInvariant, PTL

(* Before the checkpoint names a transaction the broker has seen each of its
   events after every earlier one of the entity, failed ones included. *)
THEOREM FailedRepeatedInOrder == Spec => []OvertakenWasRepeated
  BY HandlerInvariant, PTL DEF HandlerInv, WorkInv

(* handle raises for failures of its own transaction, or of repeated events of a
   saved one, unless a call was cancelled with later transactions queued. *)
THEOREM OwnFailuresOnly == Spec => []FailuresAreOwn
<1>1. HandlerInv => FailuresAreOwn
  <2>. SUFFICES ASSUME HandlerInv, handling \notin saved, handling # 0, ~stale,
                       NEW e \in failures \cup {working[s] : s \in Shards},
                       e # NoEvent
                PROVE  e.tx \in saved \cup {handling}
    BY DEF FailuresAreOwn
  <2>1. NoneLeftOut /\ HeldDue
    BY DEF HandlerInv, OrderInv
  <2>2. e \in Events
    BY DEF HandlerInv, WorkInv, HandlerType
  <2>3. Held(e)
    BY DEF Held, InShard
  <2>4. Due(e.tx) /\ Due(handling)
    BY <2>1, <2>2, <2>3 DEF NoneLeftOut, HeldDue
  <2>5. handling \in Nat \ {0} /\ e.tx \in Nat \ {0}
    <3>1. handling \in Tx
      BY DEF HandlerInv, WorkInv, Called
    <3>2. Tx \subseteq Nat
      BY HandlerAssumption DEF Tx
    <3>. QED  BY <2>2, <3>1, <3>2, EventFacts
  <2>6. e.tx <= handling
    BY <2>4, <2>5 DEF Due
  <2>7. e.tx = handling \/ e.tx \in 1..(handling - 1)
    BY <2>5, <2>6
  <2>. QED  BY <2>4, <2>7 DEF Due
<1>. QED  BY <1>1, HandlerInvariant, PTL
=============================================================================
