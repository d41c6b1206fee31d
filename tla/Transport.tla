------------------------------ MODULE Transport ------------------------------
(***************************************************************************)
(* The readiness loop of ReplicationTransport (walbox/transport.py) under  *)
(* the receiver task of the Client: one read that waits for the socket to  *)
(* become readable, status updates written meanwhile, and the two helper   *)
(* tasks with which a write that does not fit waits for the socket.        *)
(*                                                                         *)
(* The event loop keeps one reader and one writer per file descriptor:     *)
(* add_reader replaces the registered callback and remove_reader removes   *)
(* whichever is registered.  A task runs until it awaits, so every action  *)
(* is what happens between two awaits of one task.                         *)
(*                                                                         *)
(* The wire is counted in pieces: a frame of the server is FramePieces     *)
(* long, a payload of ours is one.                                         *)
(***************************************************************************)
EXTENDS Integers

CONSTANTS
    Frames,         \* frames the server sends on a connection
    FramePieces,    \* pieces of a frame
    InCap,          \* pieces the socket's receive buffer holds
    OutCap,         \* pieces the socket's send buffer holds
    MaxDrops        \* connections the server drops

ASSUME TransportAssumption ==
    /\ Frames \in Nat /\ MaxDrops \in Nat
    /\ FramePieces \in Nat \ {0}
    /\ InCap \in Nat \ {0} /\ OutCap \in Nat \ {0}

VARIABLES
    sent,       \* pieces the server has sent on this connection
    got,        \* pieces of the frames read() has returned
    sock_in,    \* pieces in the receive buffer
    sock_out,   \* pieces in the send buffer
    out_buf,    \* pieces in libpq's output buffer
    eof,        \* the server dropped the connection
    drops,      \* how often it did
    reader,     \* whose callback add_reader left on the descriptor
    writer,     \* the same for add_writer
    recv,       \* what the receiver awaits
    closing,    \* _closing
    read_task,  \* the task of transport.read()
    write,      \* where transport.write() or end_copy() stands
    readable,   \* _flush's task that runs _wait_readable
    writable    \* _flush's task that runs _wait_writable

wireVars == <<sent, got, sock_in, sock_out, out_buf>>
connVars == <<eof, drops>>
flushVars == <<readable, writable, writer>>
taskVars == <<recv, closing, read_task, write>>
vars == <<wireVars, connVars, reader, taskVars, flushVars>>

Gone == {"broken", "closed"}
Waiting == {"wait", "woken"}
InBuf == sent - sock_in - got

-----------------------------------------------------------------------------
(* The server and the socket *)

ServerSends ==
    /\ recv \notin Gone /\ ~eof
    /\ sent < Frames * FramePieces
    /\ sock_in < InCap
    /\ sent' = sent + 1
    /\ sock_in' = sock_in + 1
    /\ UNCHANGED <<got, sock_out, out_buf, connVars, reader, taskVars,
                   flushVars>>

\* A server blocked on sending does not read what we send.
ServerReads ==
    /\ recv \notin Gone /\ ~eof
    /\ sock_out > 0
    /\ sent = Frames * FramePieces \/ sock_in < InCap
    /\ sock_out' = sock_out - 1
    /\ UNCHANGED <<sent, got, sock_in, out_buf, connVars, reader, taskVars,
                   flushVars>>

ServerDrops ==
    /\ recv \notin Gone /\ ~eof
    /\ drops < MaxDrops
    /\ eof' = TRUE
    /\ drops' = drops + 1
    /\ UNCHANGED <<wireVars, reader, taskVars, flushVars>>

-----------------------------------------------------------------------------
(* Readiness: the event loop calls the callback that is registered *)

\* What add_reader and remove_reader leave on the descriptor when the task
\* whose state is s leaves _wait_readable.
Unregistered(s) == IF s \in Waiting THEN "none" ELSE reader

ReaderReady ==
    /\ sock_in > 0 \/ eof
    /\ \/ /\ reader = "read" /\ read_task = "wait"
          /\ read_task' = "woken"
          /\ UNCHANGED readable
       \/ /\ reader = "flush" /\ readable = "wait"
          /\ readable' = "woken"
          /\ UNCHANGED read_task
    /\ UNCHANGED <<wireVars, connVars, reader, recv, closing, write, writable,
                   writer>>

WriterReady ==
    /\ sock_out < OutCap \/ eof
    /\ writer = "flush" /\ writable = "wait"
    /\ writable' = "woken"
    /\ UNCHANGED <<wireVars, connVars, reader, taskVars, readable, writer>>

-----------------------------------------------------------------------------
(* The read task *)

\* Mutant: the loop waits for read-ready and retries without consume_input.
ConsumedNever(woken) == sock_in

\* pgconn.consume_input(), called once the socket was readable.
Consumed(woken) == IF woken THEN 0 ELSE sock_in

\* consume_input raises: the connection was dropped and nothing is left to read.
AtEnd(woken) == woken /\ eof /\ sock_in = 0

(* _read_until_complete from one await to the next: leave _wait_readable,
   consume_input, get_copy_data, and wait again when no frame is complete. *)
ReadRuns ==
    /\ read_task \in {"run", "woken"}
    /\ LET woken == read_task = "woken"
           left == Unregistered(read_task)
       IN /\ sock_in' = Consumed(woken)
          /\ \/ /\ ~AtEnd(woken)
                /\ sent - sock_in' - got >= FramePieces
                /\ read_task' = "returned"
                /\ got' = got + FramePieces
                /\ reader' = left
             \/ /\ AtEnd(woken)
                /\ read_task' = "failed"
                /\ reader' = left
                /\ UNCHANGED got
             \/ /\ ~AtEnd(woken)
                /\ sent - sock_in' - got < FramePieces
                /\ read_task' = "wait"
                /\ reader' = "read"
                /\ UNCHANGED got
    /\ UNCHANGED <<sent, sock_out, out_buf, connVars, recv, closing, write,
                   flushVars>>

-----------------------------------------------------------------------------
(* write() and _flush_until_complete *)

\* put_copy_data takes the payload; flush() follows.
Put ==
    /\ out_buf' = out_buf + 1
    /\ write' = "flush"

\* The receiver turns to the next frame, or returns when close() was called.
NextFrame ==
    /\ recv' = IF closing THEN "returned" ELSE "read"
    /\ read_task' = IF closing THEN "none" ELSE "run"

(* The write is complete: a status update sent while something is awaited goes
   back to waiting, a keepalive was answered, the last status update is
   followed by end_copy, and end_copy by close(). *)
WriteReturns ==
    CASE recv \in {"read", "put", "stored"} ->
            /\ write' = "no"
            /\ UNCHANGED <<recv, read_task>>
      [] recv = "frame" ->
            /\ write' = "no"
            /\ NextFrame
      [] recv = "final" ->
            /\ write' = "endcopy"
            /\ recv' = "endcopy"
            /\ UNCHANGED read_task
      [] recv = "endcopy" ->
            /\ write' = "no"
            /\ recv' = "closed"
            /\ UNCHANGED read_task

\* pgconn.flush(): the socket takes what it has room for, for a while even
\* after the server has gone.
FlushDone ==
    /\ write = "flush"
    /\ out_buf <= OutCap - sock_out
    /\ sock_out' = sock_out + out_buf
    /\ out_buf' = 0
    /\ WriteReturns
    /\ UNCHANGED <<sent, got, sock_in, connVars, reader, closing, flushVars>>

\* Mutant: wait on write-ready alone.
FlushWaitsWriteOnly ==
    /\ readable' = "none"
    /\ writable' = "start"

\* The two tasks of the race.
FlushRace ==
    /\ readable' = "start"
    /\ writable' = "start"

FlushBlocks ==
    /\ write = "flush"
    /\ out_buf > OutCap - sock_out
    /\ sock_out' = OutCap
    /\ out_buf' = out_buf - (OutCap - sock_out)
    /\ write' = "wait"
    /\ FlushRace
    /\ UNCHANGED <<sent, got, sock_in, connVars, reader, recv, closing,
                   read_task, writer>>

\* The tasks start: each registers its own callback on the descriptor.
WaitReadable ==
    /\ readable = "start"
    /\ readable' = "wait"
    /\ reader' = "flush"
    /\ UNCHANGED <<wireVars, connVars, taskVars, writable, writer>>

WaitWritable ==
    /\ writable = "start"
    /\ writable' = "wait"
    /\ writer' = "flush"
    /\ UNCHANGED <<wireVars, connVars, reader, taskVars, readable>>

\* The tasks resume and remove a callback from the descriptor.
ReadableRuns ==
    /\ readable = "woken"
    /\ readable' = "done"
    /\ reader' = Unregistered(readable)
    /\ UNCHANGED <<wireVars, connVars, taskVars, writable, writer>>

WritableRuns ==
    /\ writable = "woken"
    /\ writable' = "done"
    /\ writer' = "none"
    /\ UNCHANGED <<wireVars, connVars, reader, taskVars, readable>>

\* Mutant: the loser is cancelled and not awaited, its finally never runs.
RaceLeft ==
    /\ UNCHANGED <<reader, writer>>
    /\ readable' = "none"
    /\ writable' = "none"

\* The tasks of the race that are not done are cancelled and awaited.
RaceCancelled ==
    /\ reader' = Unregistered(readable)
    /\ writer' = "none"
    /\ readable' = "none"
    /\ writable' = "none"

\* Mutant: write returns after one round of waiting.
FlushOnce ==
    /\ write = "wait"
    /\ "done" \in {readable, writable}
    /\ RaceCancelled
    /\ write' = "no"
    /\ UNCHANGED <<wireVars, connVars, recv, closing, read_task>>

\* The first of the two tasks is done: consume what is readable, flush again.
FlushResumes ==
    /\ write = "wait"
    /\ "done" \in {readable, writable}
    /\ ~AtEnd(readable = "done")
    /\ RaceCancelled
    /\ sock_in' = Consumed(readable = "done")
    /\ write' = "flush"
    /\ UNCHANGED <<sent, got, sock_out, out_buf, connVars, recv, closing,
                   read_task>>

-----------------------------------------------------------------------------
(* The receiver and _await_with_status_updates *)

\* read() returned a frame: a keepalive may ask for a reply, and a commit may
\* find the queue full.
FrameArrives ==
    /\ recv = "read" /\ write = "no"
    /\ read_task = "returned"
    /\ \/ /\ NextFrame
          /\ UNCHANGED <<out_buf, write>>
       \/ /\ recv' = "put"
          /\ read_task' = "none"
          /\ UNCHANGED <<out_buf, write>>
       \/ /\ recv' = "frame"
          /\ read_task' = "none"
          /\ Put
    /\ UNCHANGED <<sent, got, sock_in, sock_out, connVars, reader, closing,
                   flushVars>>

\* The consumer makes room, or close() shuts the queue down: put() is a task
\* of its own and completes whatever the receiver does meanwhile.
PutCompletes ==
    /\ recv = "put"
    /\ recv' = "stored"
    /\ UNCHANGED <<wireVars, connVars, reader, closing, read_task, write,
                   flushVars>>

PutReturns ==
    /\ recv = "stored" /\ write = "no"
    /\ NextFrame
    /\ UNCHANGED <<wireVars, connVars, reader, closing, write, flushVars>>

\* A pending read is cancelled and awaited.
ReadCancelled ==
    /\ read_task' = "none"
    /\ reader' = Unregistered(read_task)

\* status_interval elapses while the receiver waits.
StatusTimer ==
    /\ recv \in {"read", "put"} /\ write = "no"
    /\ read_task \notin {"returned", "failed"}
    /\ IF closing
       THEN /\ ReadCancelled
            /\ recv' = "returned"
            /\ UNCHANGED <<out_buf, write>>
       ELSE /\ Put
            /\ UNCHANGED <<read_task, reader, recv>>
    /\ UNCHANGED <<sent, got, sock_in, sock_out, connVars, closing, flushVars>>

\* close().
Close ==
    /\ recv \notin Gone /\ ~closing
    /\ closing' = TRUE
    /\ UNCHANGED <<wireVars, connVars, reader, recv, read_task, write,
                   flushVars>>

\* Both tasks of the Client returned: the final status update is written.
FinalStatus ==
    /\ recv = "returned"
    /\ recv' = "final"
    /\ Put
    /\ UNCHANGED <<sent, got, sock_in, sock_out, connVars, reader, closing,
                   read_task, flushVars>>

\* put_copy_end.
EndCopy ==
    /\ write = "endcopy"
    /\ Put
    /\ UNCHANGED <<sent, got, sock_in, sock_out, connVars, reader, recv,
                   closing, read_task, flushVars>>

(* The receiver ends with an exception: the race and the pending read are
   cancelled and awaited on the way out. *)
Unwind ==
    /\ recv' = "broken"
    /\ write' = "no"
    /\ read_task' = "none"
    /\ reader' = IF {read_task, readable} \cap Waiting # {} THEN "none" ELSE reader
    /\ writer' = "none"
    /\ readable' = "none"
    /\ writable' = "none"
    /\ UNCHANGED <<wireVars, connVars, closing>>

\* read, flush or consume_input meets the dropped connection.
ConnectionFails ==
    /\ \/ recv = "read" /\ write = "no" /\ read_task = "failed"
       \/ write = "flush" /\ eof
       \/ write = "wait" /\ AtEnd(readable = "done")
    /\ Unwind

\* The handler raised: the TaskGroup cancels the receiver at its await.
ReceiverCancelled ==
    /\ recv \in {"read", "put", "stored", "frame"}
    /\ write # "flush"
    /\ Unwind

\* The next connection gets the file descriptor of the old one.
Reconnect ==
    /\ recv = "broken" /\ ~closing
    /\ sent' = 0 /\ got' = 0 /\ sock_in' = 0 /\ sock_out' = 0 /\ out_buf' = 0
    /\ eof' = FALSE
    /\ recv' = "read"
    /\ read_task' = "run"
    /\ UNCHANGED <<drops, reader, closing, write, flushVars>>

-----------------------------------------------------------------------------
Init ==
    /\ sent = 0 /\ got = 0 /\ sock_in = 0 /\ sock_out = 0 /\ out_buf = 0
    /\ eof = FALSE /\ drops = 0
    /\ reader = "none" /\ writer = "none"
    /\ recv = "read" /\ read_task = "run"
    /\ closing = FALSE
    /\ write = "no" /\ readable = "none" /\ writable = "none"

Server == ServerSends \/ ServerReads
Flush == FlushDone \/ FlushBlocks \/ FlushResumes \/ EndCopy

Next ==
    \/ Server \/ ServerDrops
    \/ ReaderReady \/ WriterReady
    \/ ReadRuns \/ Flush
    \/ WaitReadable \/ WaitWritable \/ ReadableRuns \/ WritableRuns
    \/ FrameArrives \/ PutCompletes \/ PutReturns \/ StatusTimer \/ FinalStatus
    \/ Close \/ ConnectionFails \/ ReceiverCancelled \/ Reconnect

Spec == Init /\ [][Next]_vars

(* The server sends and reads when it can, the event loop calls the callback of
   a ready descriptor and runs every task that can go on, the handler makes
   room in the queue and status_interval elapses. *)
Fairness ==
    /\ WF_vars(ServerSends) /\ WF_vars(ServerReads)
    /\ WF_vars(ReaderReady) /\ WF_vars(WriterReady)
    /\ WF_vars(ReadRuns) /\ WF_vars(Flush)
    /\ WF_vars(WaitReadable) /\ WF_vars(WaitWritable)
    /\ WF_vars(ReadableRuns) /\ WF_vars(WritableRuns)
    /\ WF_vars(FrameArrives) /\ WF_vars(PutCompletes) /\ WF_vars(PutReturns)
    /\ WF_vars(StatusTimer) /\ WF_vars(FinalStatus)
    /\ WF_vars(ConnectionFails) /\ WF_vars(Reconnect)

FairSpec == Spec /\ Fairness

-----------------------------------------------------------------------------
(* Properties *)

TaskStates == {"none", "start", "wait", "woken", "done"}

(* Every variable keeps its type; libpq holds at most one payload, since a
   write returns only when flush() has handed everything to the socket. *)
TypeOK ==
    /\ sent \in 0..(Frames * FramePieces) /\ got \in 0..sent
    /\ sock_in \in 0..InCap /\ InBuf >= 0
    /\ sock_out \in 0..OutCap /\ out_buf \in 0..1
    /\ eof \in BOOLEAN /\ drops \in 0..MaxDrops
    /\ reader \in {"none", "read", "flush"} /\ writer \in {"none", "flush"}
    /\ recv \in Gone \cup {"read", "put", "stored", "frame", "returned", "final",
                           "endcopy"}
    /\ closing \in BOOLEAN
    /\ read_task \in {"none", "run", "wait", "woken", "returned", "failed"}
    /\ write \in {"no", "flush", "wait", "endcopy"}
    /\ readable \in TaskStates /\ writable \in TaskStates

(* However a connection ends (orderly, dropped, or the receiver cancelled in
   the middle of a write with a read pending), no callback of its tasks is left
   on the file descriptor, which the next connection may be given. *)
NoStaleRegistration == recv \in Gone => reader = "none" /\ writer = "none"

\* A task waits for a descriptor that calls somebody else, or nobody; or the
\* read waits for bytes that a flush has already taken from the socket.
Robbed ==
    \/ read_task = "wait" /\ InBuf >= FramePieces
    \/ read_task = "wait" /\ reader # "read"
    \/ readable = "wait" /\ reader # "flush"

Excused == eof \/ closing \/ recv \in Gone

(* A write that has to wait ends even when the server reads nothing before we
   have read what it sends, unless a task was robbed. *)
WriteEndsUnlessRobbed ==
    write # "no" ~> write = "no" \/ Robbed \/ eof \/ recv \in Gone

Reads(k) == got >= k * FramePieces

(* read() returns every frame that has arrived in full, whatever status updates
   are written while it waits (transport.py:325). *)
ReadReturns ==
    \A k \in 1..Frames :
        sent >= k * FramePieces ~> Reads(k) \/ Excused

(* ReadReturns as long as no task was robbed of its callback or its bytes. *)
ReadReturnsUnlessRobbed ==
    \A k \in 1..Frames :
        sent >= k * FramePieces ~> Reads(k) \/ Excused \/ Robbed
=============================================================================
