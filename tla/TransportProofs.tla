--------------------------- MODULE TransportProofs ---------------------------
(***************************************************************************)
(* The readiness loop of ReplicationTransport keeps its types, for frames  *)
(* and socket buffers of any size, and however a connection ends no        *)
(* callback is left on its file descriptor.                                *)
(***************************************************************************)
EXTENDS Transport, TLAPS

\* libpq holds a payload exactly while write() flushes it; a connection that
\* broke may take an unsent one with it.
OutBufFollowsWrite ==
    recv # "broken" => out_buf = IF write \in {"flush", "wait"} THEN 1 ELSE 0

\* The two helper tasks exist exactly while write() waits for them.
RaceOnlyInWait ==
    /\ write = "wait" => readable # "none" /\ writable # "none"
    /\ write # "wait" => readable = "none" /\ writable = "none"

\* A write belongs to a receiver that waits for it, and only a receiver that
\* waits for a frame has a read task.
WriteHasCaller ==
    /\ recv \in Gone \cup {"returned"} => write = "no"
    /\ recv = "final" => write \in {"flush", "wait"}
    /\ write = "endcopy" => recv = "endcopy"

ReadOnlyInRead == recv # "read" => read_task = "none"

\* A callback on the descriptor is the business of a task that will remove it.
RegistrationOwned ==
    /\ reader # "none" => read_task \in Waiting \/ readable \in Waiting
    /\ writer # "none" => writable \in Waiting

\* What the receiver, its read and its write owe each other.
Control ==
    /\ OutBufFollowsWrite /\ RaceOnlyInWait /\ WriteHasCaller /\ ReadOnlyInRead
    /\ RegistrationOwned

TransportInv == TypeOK /\ Control

-----------------------------------------------------------------------------
\* All frames of a connection together have a length.
LEMMA WireLength == Frames * FramePieces \in Nat
  BY TransportAssumption

\* A new connection satisfies the invariant.
LEMMA InitTransport == Init => TransportInv
<1>. SUFFICES ASSUME Init PROVE TransportInv
  OBVIOUS
<1>1. /\ sent \in 0..(Frames * FramePieces) /\ got \in 0..sent
      /\ sock_in \in 0..InCap /\ InBuf >= 0
      /\ sock_out \in 0..OutCap /\ out_buf \in 0..1 /\ drops \in 0..MaxDrops
  BY TransportAssumption, WireLength DEF Init, InBuf
<1>2. TypeOK
  BY <1>1 DEF Init, TypeOK, TaskStates, Gone
<1>3. Control
  BY DEF Init, Control, OutBufFollowsWrite, RaceOnlyInWait, WriteHasCaller,
         ReadOnlyInRead, RegistrationOwned, Gone, Waiting
<1>. QED  BY <1>2, <1>3 DEF TransportInv

\* The server and the socket.
LEMMA ServerSteps ==
    ASSUME TransportInv, ServerSends \/ ServerReads \/ ServerDrops
    PROVE  TransportInv'
<1>. USE TransportAssumption, WireLength
     DEF wireVars, connVars, flushVars, taskVars, Gone, Waiting, TaskStates, Control
<1>1. CASE ServerSends
  <2>1. TypeOK'
    BY <1>1 DEF TransportInv, TypeOK, InBuf, OutBufFollowsWrite, WriteHasCaller,
       ServerSends
  <2>2. Control'
    BY <1>1 DEF TransportInv, TypeOK, OutBufFollowsWrite, RaceOnlyInWait, WriteHasCaller, ReadOnlyInRead,
        RegistrationOwned, ServerSends
  <2>. QED  BY <2>1, <2>2 DEF TransportInv
<1>2. CASE ServerReads
  <2>1. TypeOK'
    BY <1>2 DEF TransportInv, TypeOK, InBuf, OutBufFollowsWrite, WriteHasCaller,
       ServerReads
  <2>2. Control'
    BY <1>2 DEF TransportInv, TypeOK, OutBufFollowsWrite, RaceOnlyInWait, WriteHasCaller, ReadOnlyInRead,
        RegistrationOwned, ServerReads
  <2>. QED  BY <2>1, <2>2 DEF TransportInv
<1>3. CASE ServerDrops
  <2>1. TypeOK'
    BY <1>3 DEF TransportInv, TypeOK, InBuf, OutBufFollowsWrite, WriteHasCaller,
       ServerDrops
  <2>2. Control'
    BY <1>3 DEF TransportInv, TypeOK, OutBufFollowsWrite, RaceOnlyInWait, WriteHasCaller, ReadOnlyInRead,
        RegistrationOwned, ServerDrops
  <2>. QED  BY <2>1, <2>2 DEF TransportInv
<1>. QED  BY <1>1, <1>2, <1>3

\* The event loop wakes the task whose callback is registered, and a task
\* that resumes removes a callback.
LEMMA ReadinessSteps ==
    ASSUME TransportInv, 
           ReaderReady \/ WriterReady \/ WaitReadable \/ WaitWritable
           \/ ReadableRuns \/ WritableRuns
    PROVE  TransportInv'
<1>. USE TransportAssumption, WireLength
     DEF wireVars, connVars, flushVars, taskVars, Gone, Waiting, TaskStates, Control
<1>1. CASE ReaderReady
  <2>1. TypeOK'
    BY <1>1 DEF TransportInv, TypeOK, InBuf, OutBufFollowsWrite, WriteHasCaller,
       ReaderReady
  <2>2. Control'
    BY <1>1 DEF TransportInv, TypeOK, OutBufFollowsWrite, RaceOnlyInWait, WriteHasCaller, ReadOnlyInRead,
        RegistrationOwned, ReaderReady
  <2>. QED  BY <2>1, <2>2 DEF TransportInv
<1>2. CASE WriterReady
  <2>1. TypeOK'
    BY <1>2 DEF TransportInv, TypeOK, InBuf, OutBufFollowsWrite, WriteHasCaller,
       WriterReady
  <2>2. Control'
    BY <1>2 DEF TransportInv, TypeOK, OutBufFollowsWrite, RaceOnlyInWait, WriteHasCaller, ReadOnlyInRead,
        RegistrationOwned, WriterReady
  <2>. QED  BY <2>1, <2>2 DEF TransportInv
<1>3. CASE WaitReadable
  <2>1. TypeOK'
    BY <1>3 DEF TransportInv, TypeOK, InBuf, OutBufFollowsWrite, WriteHasCaller,
       WaitReadable
  <2>2. Control'
    BY <1>3 DEF TransportInv, TypeOK, OutBufFollowsWrite, RaceOnlyInWait, WriteHasCaller, ReadOnlyInRead,
        RegistrationOwned, WaitReadable
  <2>. QED  BY <2>1, <2>2 DEF TransportInv
<1>4. CASE WaitWritable
  <2>1. TypeOK'
    BY <1>4 DEF TransportInv, TypeOK, InBuf, OutBufFollowsWrite, WriteHasCaller,
       WaitWritable
  <2>2. Control'
    BY <1>4 DEF TransportInv, TypeOK, OutBufFollowsWrite, RaceOnlyInWait, WriteHasCaller, ReadOnlyInRead,
        RegistrationOwned, WaitWritable
  <2>. QED  BY <2>1, <2>2 DEF TransportInv
<1>5. CASE ReadableRuns
  <2>1. TypeOK'
    BY <1>5 DEF TransportInv, TypeOK, InBuf, OutBufFollowsWrite, WriteHasCaller,
       ReadableRuns, Unregistered
  <2>2. Control'
    BY <1>5 DEF TransportInv, TypeOK, OutBufFollowsWrite, RaceOnlyInWait, WriteHasCaller, ReadOnlyInRead,
        RegistrationOwned, ReadableRuns, Unregistered
  <2>. QED  BY <2>1, <2>2 DEF TransportInv
<1>6. CASE WritableRuns
  <2>1. TypeOK'
    BY <1>6 DEF TransportInv, TypeOK, InBuf, OutBufFollowsWrite, WriteHasCaller,
       WritableRuns
  <2>2. Control'
    BY <1>6 DEF TransportInv, TypeOK, OutBufFollowsWrite, RaceOnlyInWait, WriteHasCaller, ReadOnlyInRead,
        RegistrationOwned, WritableRuns
  <2>. QED  BY <2>1, <2>2 DEF TransportInv
<1>. QED  BY <1>1, <1>2, <1>3, <1>4, <1>5, <1>6

\* The read task takes a frame, fails, or registers itself again.
LEMMA ReadSteps ==
    ASSUME TransportInv, ReadRuns
    PROVE  TransportInv'
<1>. USE TransportAssumption, WireLength
     DEF wireVars, connVars, flushVars, taskVars, Gone, Waiting, TaskStates, Control
<1>1. CASE ReadRuns
  <2>1. TypeOK'
    BY <1>1 DEF TransportInv, TypeOK, InBuf, OutBufFollowsWrite, WriteHasCaller,
       ReadRuns, Unregistered, Consumed, AtEnd
  <2>2. Control'
    BY <1>1 DEF TransportInv, TypeOK, OutBufFollowsWrite, RaceOnlyInWait, WriteHasCaller, ReadOnlyInRead,
        RegistrationOwned, ReadRuns, Unregistered, Consumed, AtEnd
  <2>. QED  BY <2>1, <2>2 DEF TransportInv
<1>. QED  BY <1>1

\* write() hands its payload to the socket, or waits with both tasks.
LEMMA WriteSteps ==
    ASSUME TransportInv, 
           FlushDone \/ FlushBlocks \/ FlushResumes \/ EndCopy
    PROVE  TransportInv'
<1>. USE TransportAssumption, WireLength
     DEF wireVars, connVars, flushVars, taskVars, Gone, Waiting, TaskStates, Control
<1>1. CASE FlushDone
  <2>1. TypeOK'
    <3>1. sock_out' \in 0..OutCap /\ out_buf' \in 0..1
      BY <1>1 DEF TransportInv, TypeOK, FlushDone
    <3>2. recv \in {"read", "put", "stored", "frame", "final", "endcopy"}
      BY <1>1 DEF TransportInv, TypeOK, WriteHasCaller, FlushDone
    <3>3. /\ recv' \in Gone \cup {"read", "put", "stored", "frame", "returned",
                                 "final", "endcopy"}
          /\ read_task' \in {"none", "run", "wait", "woken", "returned", "failed"}
          /\ write' \in {"no", "endcopy"}
      BY <1>1, <3>2 DEF TransportInv, TypeOK, FlushDone, WriteReturns, NextFrame
    <3>. QED  BY <1>1, <3>1, <3>3 DEF TransportInv, TypeOK, InBuf, FlushDone
  <2>2. Control'
    BY <1>1 DEF TransportInv, TypeOK, OutBufFollowsWrite, RaceOnlyInWait, WriteHasCaller, ReadOnlyInRead,
        RegistrationOwned, FlushDone, WriteReturns, NextFrame
  <2>. QED  BY <2>1, <2>2 DEF TransportInv
<1>2. CASE FlushBlocks
  <2>1. TypeOK'
    BY <1>2 DEF TransportInv, TypeOK, InBuf, OutBufFollowsWrite, WriteHasCaller,
       FlushBlocks, FlushRace
  <2>2. Control'
    BY <1>2 DEF TransportInv, TypeOK, OutBufFollowsWrite, RaceOnlyInWait, WriteHasCaller, ReadOnlyInRead,
        RegistrationOwned, FlushBlocks, FlushRace
  <2>. QED  BY <2>1, <2>2 DEF TransportInv
<1>3. CASE FlushResumes
  <2>1. TypeOK'
    BY <1>3 DEF TransportInv, TypeOK, InBuf, OutBufFollowsWrite, WriteHasCaller,
       FlushResumes, RaceCancelled, Unregistered, Consumed, AtEnd
  <2>2. Control'
    BY <1>3 DEF TransportInv, TypeOK, OutBufFollowsWrite, RaceOnlyInWait, WriteHasCaller, ReadOnlyInRead,
        RegistrationOwned, FlushResumes, RaceCancelled, Unregistered, Consumed, AtEnd
  <2>. QED  BY <2>1, <2>2 DEF TransportInv
<1>4. CASE EndCopy
  <2>1. TypeOK'
    BY <1>4 DEF TransportInv, TypeOK, InBuf, OutBufFollowsWrite, WriteHasCaller,
       EndCopy, Put
  <2>2. Control'
    BY <1>4 DEF TransportInv, TypeOK, OutBufFollowsWrite, RaceOnlyInWait, WriteHasCaller, ReadOnlyInRead,
        RegistrationOwned, EndCopy, Put
  <2>. QED  BY <2>1, <2>2 DEF TransportInv
<1>. QED  BY <1>1, <1>2, <1>3, <1>4

\* The receiver between two awaits.
LEMMA ReceiverSteps ==
    ASSUME TransportInv, 
           FrameArrives \/ PutCompletes \/ PutReturns \/ StatusTimer
           \/ FinalStatus \/ Close
    PROVE  TransportInv'
<1>. USE TransportAssumption, WireLength
     DEF wireVars, connVars, flushVars, taskVars, Gone, Waiting, TaskStates, Control
<1>1. CASE FrameArrives
  <2>1. TypeOK'
    BY <1>1 DEF TransportInv, TypeOK, InBuf, OutBufFollowsWrite, WriteHasCaller,
       FrameArrives, NextFrame, Put
  <2>2. Control'
    BY <1>1 DEF TransportInv, TypeOK, OutBufFollowsWrite, RaceOnlyInWait, WriteHasCaller, ReadOnlyInRead,
        RegistrationOwned, FrameArrives, NextFrame, Put
  <2>. QED  BY <2>1, <2>2 DEF TransportInv
<1>2. CASE PutCompletes
  <2>1. TypeOK'
    BY <1>2 DEF TransportInv, TypeOK, InBuf, OutBufFollowsWrite, WriteHasCaller,
       PutCompletes
  <2>2. Control'
    BY <1>2 DEF TransportInv, TypeOK, OutBufFollowsWrite, RaceOnlyInWait, WriteHasCaller, ReadOnlyInRead,
        RegistrationOwned, PutCompletes
  <2>. QED  BY <2>1, <2>2 DEF TransportInv
<1>3. CASE PutReturns
  <2>1. TypeOK'
    BY <1>3 DEF TransportInv, TypeOK, InBuf, OutBufFollowsWrite, WriteHasCaller,
       PutReturns, NextFrame
  <2>2. Control'
    BY <1>3 DEF TransportInv, TypeOK, OutBufFollowsWrite, RaceOnlyInWait, WriteHasCaller, ReadOnlyInRead,
        RegistrationOwned, PutReturns, NextFrame
  <2>. QED  BY <2>1, <2>2 DEF TransportInv
<1>4. CASE StatusTimer
  <2>1. TypeOK'
    BY <1>4 DEF TransportInv, TypeOK, InBuf, OutBufFollowsWrite, WriteHasCaller,
       StatusTimer, ReadCancelled, Unregistered, Put
  <2>2. Control'
    BY <1>4 DEF TransportInv, TypeOK, OutBufFollowsWrite, RaceOnlyInWait, WriteHasCaller, ReadOnlyInRead,
        RegistrationOwned, StatusTimer, ReadCancelled, Unregistered, Put
  <2>. QED  BY <2>1, <2>2 DEF TransportInv
<1>5. CASE FinalStatus
  <2>1. TypeOK'
    BY <1>5 DEF TransportInv, TypeOK, InBuf, OutBufFollowsWrite, WriteHasCaller,
       FinalStatus, Put
  <2>2. Control'
    BY <1>5 DEF TransportInv, TypeOK, OutBufFollowsWrite, RaceOnlyInWait, WriteHasCaller, ReadOnlyInRead,
        RegistrationOwned, FinalStatus, Put
  <2>. QED  BY <2>1, <2>2 DEF TransportInv
<1>6. CASE Close
  <2>1. TypeOK'
    BY <1>6 DEF TransportInv, TypeOK, InBuf, OutBufFollowsWrite, WriteHasCaller,
       Close
  <2>2. Control'
    BY <1>6 DEF TransportInv, TypeOK, OutBufFollowsWrite, RaceOnlyInWait, WriteHasCaller, ReadOnlyInRead,
        RegistrationOwned, Close
  <2>. QED  BY <2>1, <2>2 DEF TransportInv
<1>. QED  BY <1>1, <1>2, <1>3, <1>4, <1>5, <1>6

\* A connection breaks, and the next one starts.
LEMMA EndSteps ==
    ASSUME TransportInv, ConnectionFails \/ ReceiverCancelled \/ Reconnect
    PROVE  TransportInv'
<1>. USE TransportAssumption, WireLength
     DEF wireVars, connVars, flushVars, taskVars, Gone, Waiting, TaskStates, Control
<1>1. CASE ConnectionFails
  <2>1. TypeOK'
    BY <1>1 DEF TransportInv, TypeOK, InBuf, OutBufFollowsWrite, WriteHasCaller,
       ConnectionFails, Unwind, AtEnd
  <2>2. Control'
    BY <1>1 DEF TransportInv, TypeOK, OutBufFollowsWrite, RaceOnlyInWait, WriteHasCaller, ReadOnlyInRead,
        RegistrationOwned, ConnectionFails, Unwind, AtEnd
  <2>. QED  BY <2>1, <2>2 DEF TransportInv
<1>2. CASE ReceiverCancelled
  <2>1. TypeOK'
    BY <1>2 DEF TransportInv, TypeOK, InBuf, OutBufFollowsWrite, WriteHasCaller,
       ReceiverCancelled, Unwind
  <2>2. Control'
    BY <1>2 DEF TransportInv, TypeOK, OutBufFollowsWrite, RaceOnlyInWait, WriteHasCaller, ReadOnlyInRead,
        RegistrationOwned, ReceiverCancelled, Unwind
  <2>. QED  BY <2>1, <2>2 DEF TransportInv
<1>3. CASE Reconnect
  <2>1. TypeOK'
    <3>1. /\ sent' \in 0..(Frames * FramePieces) /\ got' \in 0..sent'
          /\ sock_in' \in 0..InCap /\ InBuf' >= 0
          /\ sock_out' \in 0..OutCap /\ out_buf' \in 0..1
      BY <1>3 DEF Reconnect, InBuf
    <3>. QED  BY <1>3, <3>1 DEF TransportInv, TypeOK, Reconnect
  <2>2. Control'
    BY <1>3 DEF TransportInv, TypeOK, OutBufFollowsWrite, RaceOnlyInWait, WriteHasCaller, ReadOnlyInRead,
        RegistrationOwned, Reconnect
  <2>. QED  BY <2>1, <2>2 DEF TransportInv
<1>. QED  BY <1>1, <1>2, <1>3

\* Every step keeps the invariant.
LEMMA NextTransport == TransportInv /\ [Next]_vars => TransportInv'
<1>. SUFFICES ASSUME TransportInv, [Next]_vars PROVE TransportInv'
  OBVIOUS
<1>1. CASE Next
  BY <1>1, ServerSteps, ReadinessSteps, ReadSteps, WriteSteps, ReceiverSteps,
     EndSteps
  DEF Next, Server, Flush
<1>2. CASE UNCHANGED vars
  BY <1>2
  DEF vars, wireVars, connVars, flushVars, taskVars, TransportInv, TypeOK, InBuf,
      Control, OutBufFollowsWrite, RaceOnlyInWait, WriteHasCaller, ReadOnlyInRead,
      RegistrationOwned
<1>. QED  BY <1>1, <1>2

\* The invariant holds in every reachable state.
LEMMA TransportInvariant == Spec => []TransportInv
  BY InitTransport, NextTransport, PTL DEF Spec

(* The variables of the transport keep their types for frames and buffers of any
   size: in particular write() never leaves a payload behind in libpq for the
   next one to queue up on, and read() never returns bytes that have not come. *)
THEOREM TransportTypes == Spec => []TypeOK
<1>1. TransportInv => TypeOK
  BY DEF TransportInv
<1>. QED  BY <1>1, TransportInvariant, PTL

(* However a connection ends, no callback of its tasks is left on the file
   descriptor: every _wait_readable and _wait_writable that is cancelled or done
   has run its finally before the receiver is gone. *)
THEOREM DescriptorLeftClean == Spec => []NoStaleRegistration
<1>1. TransportInv => NoStaleRegistration
  BY DEF TransportInv, Control, TypeOK, RaceOnlyInWait, WriteHasCaller, ReadOnlyInRead,
         RegistrationOwned, NoStaleRegistration, Gone, Waiting
<1>. QED  BY <1>1, TransportInvariant, PTL
=============================================================================
