----------------------------- MODULE PtyStream ------------------------------
(***************************************************************************)
(* The workspace terminal (server/chump_server/terminal.py): a PtySession, *)
(* the pump that sends its output over a websocket, and the websocket      *)
(* handler that writes the browser's input and cleans up at the end.       *)
(*                                                                         *)
(* The pump and the handler are coroutines; _on_readable is a callback of  *)
(* the event loop that fills a bounded queue.  It is unregistered while    *)
(* the queue is full and registered again by the read() that makes room.   *)
(* End of file is the sentinel None, put only into an empty queue: with    *)
(* chunks still queued it is found again by the reads that follow.         *)
(*                                                                         *)
(* External: the programs behind the pty, the kernel's two buffers and the *)
(* browser.  Output is a sequence of pieces 1, 2, 3, ...                   *)
(***************************************************************************)
EXTENDS Naturals, Sequences

CONSTANTS
    MaxQueue,   \* _READ_QUEUE_CHUNKS
    KernelRoom, \* pieces the kernel buffers in either direction
    MaxOutput,  \* bound: pieces of output
    MaxInput,   \* bound: messages of input
    MessageSize \* pieces of input in one message

ASSUME QueueAssumption == MaxQueue \in Nat \ {0}
ASSUME BufferAssumption ==
    /\ KernelRoom \in Nat \ {0} /\ MessageSize \in Nat \ {0}
    /\ MaxOutput \in Nat /\ MaxInput \in Nat

\* None in the queue; a chunk of output is never empty.
EOF == <<>>
Signals == <<"SIGHUP", "SIGTERM", "SIGKILL">>

VARIABLES
    produced,     \* pieces of output written by the programs
    outBuf,       \* output in the kernel
    inBuf,        \* number of pieces of input in the kernel
    slaveOpen,    \* some program has the slave side open
    exited,       \* the shell process is gone
    readQueue,    \* _read_queue
    readerActive, \* _reader_active
    closed,       \* _closed
    faulty,       \* history: os.read failed with an unexpected error
    pump,         \* where pump_pty_output stands
    chunk,        \* the chunk the pump is sending
    pumpCancelled,\* output_task.cancel() was called
    handler,      \* where terminal_websocket stands
    toWrite,      \* pieces of the current message not written yet
    inputs,       \* messages received so far
    signal,       \* index of the signal the handler waits on
    wsOpen,       \* the websocket is open
    received,     \* history: output the browser got
    ended         \* history: the browser got the exit message

device == <<produced, outBuf, inBuf, slaveOpen, exited>>
session == <<readQueue, readerActive, closed, faulty>>
pumping == <<pump, chunk, pumpCancelled>>
handling == <<handler, toWrite, inputs, signal>>
browser == <<wsOpen, received, ended>>
vars == <<device, session, pumping, handling, browser>>

Pieces == Nat \ {0}
PumpPCs == {"reading", "sending", "waitExit", "reporting", "done"}
HandlerPCs == {"receiving", "writing", "leaving", "terminating", "gathering", "done"}

TypeOK ==
    /\ produced \in Nat /\ inBuf \in Nat
    /\ outBuf \in Seq(Pieces) /\ received \in Seq(Pieces) /\ chunk \in Seq(Pieces)
    /\ slaveOpen \in BOOLEAN /\ exited \in BOOLEAN /\ faulty \in BOOLEAN
    /\ readQueue \in Seq(Seq(Pieces))
    /\ readerActive \in BOOLEAN /\ closed \in BOOLEAN
    /\ pump \in PumpPCs /\ pumpCancelled \in BOOLEAN
    /\ handler \in HandlerPCs
    /\ toWrite \in Nat /\ inputs \in Nat /\ signal \in 0 .. Len(Signals)
    /\ wsOpen \in BOOLEAN /\ ended \in BOOLEAN

\* PtySession.start and __init__, then the pump's first await.
Init ==
    /\ produced = 0 /\ outBuf = <<>> /\ inBuf = 0
    /\ slaveOpen = TRUE /\ exited = FALSE
    /\ readQueue = <<>> /\ readerActive = TRUE /\ closed = FALSE /\ faulty = FALSE
    /\ pump = "reading" /\ chunk = <<>> /\ pumpCancelled = FALSE
    /\ handler = "receiving" /\ toWrite = 0 /\ inputs = 0 /\ signal = 0
    /\ wsOpen = TRUE /\ received = <<>> /\ ended = FALSE

\* put_nowait(None), guarded by empty() as in _on_readable and close().
PutEofIfEmpty(q) == IF q = <<>> THEN <<EOF>> ELSE q

-----------------------------------------------------------------------------
(* Faulty forms of the actions below, no part of Spec.                     *)

\* The reader stays registered when the queue has become full.
ReadChunkKeepsReader ==
    /\ readerActive /\ outBuf # <<>>
    /\ \E n \in 1 .. Len(outBuf) :
          /\ readQueue' = Append(readQueue, SubSeq(outBuf, 1, n))
          /\ outBuf' = SubSeq(outBuf, n + 1, Len(outBuf))
    /\ UNCHANGED <<produced, inBuf, slaveOpen, exited, readerActive, closed, faulty,
                   pumping, handling, browser>>

\* A full queue makes room by dropping its oldest chunk.
ReadChunkDropsOldest ==
    /\ readerActive /\ outBuf # <<>>
    /\ readQueue' = Append(IF Len(readQueue) = MaxQueue - 1 THEN Tail(readQueue)
                                                         ELSE readQueue, outBuf)
    /\ outBuf' = <<>>
    /\ UNCHANGED <<produced, inBuf, slaveOpen, exited, readerActive, closed, faulty,
                   pumping, handling, browser>>

\* The pump stops at the exit of the shell instead of at the end of file.
PumpReadStopsAtExit ==
    /\ pump = "reading" /\ ~pumpCancelled
    /\ \/ exited /\ pump' = "waitExit" /\ UNCHANGED <<readQueue, chunk>>
       \/ /\ ~exited /\ readQueue # <<>>
          /\ readQueue' = Tail(readQueue)
          /\ pump' = "sending" /\ chunk' = Head(readQueue)
    /\ UNCHANGED <<device, readerActive, closed, faulty, pumpCancelled, handling,
                   browser>>

\* The pump is waited for but was not cancelled.
LeaveWithoutCancel ==
    /\ handler = "leaving"
    /\ closed' = TRUE /\ readerActive' = FALSE
    /\ UNCHANGED readQueue
    /\ handler' = IF exited THEN "gathering" ELSE "terminating"
    /\ signal' = IF exited THEN 0 ELSE 1
    /\ UNCHANGED <<device, faulty, pumping, toWrite, inputs, browser>>

-----------------------------------------------------------------------------
(* External: the programs behind the pty.  Once the master side is closed  *)
(* their reads and writes fail.                                            *)

ProgramWrites ==
    /\ slaveOpen /\ ~closed /\ Len(outBuf) < KernelRoom /\ produced < MaxOutput
    /\ produced' = produced + 1
    /\ outBuf' = Append(outBuf, produced + 1)
    /\ UNCHANGED <<inBuf, slaveOpen, exited, session, pumping, handling, browser>>

ProgramReads ==
    /\ slaveOpen /\ inBuf > 0
    /\ inBuf' = inBuf - 1
    /\ UNCHANGED <<produced, outBuf, slaveOpen, exited, session, pumping, handling,
                   browser>>

ShellExits ==
    /\ ~exited
    /\ exited' = TRUE
    /\ UNCHANGED <<produced, outBuf, inBuf, slaveOpen, session, pumping, handling,
                   browser>>

\* The last program that had the terminal open closes it; a background job
\* may keep it open after the shell has gone.
SlaveCloses ==
    /\ slaveOpen
    /\ slaveOpen' = FALSE
    /\ UNCHANGED <<produced, outBuf, inBuf, exited, session, pumping, handling,
                   browser>>

\* External: the browser sends a message or goes away.
Disconnect ==
    /\ wsOpen
    /\ wsOpen' = FALSE
    /\ UNCHANGED <<device, session, pumping, handling, received, ended>>

-----------------------------------------------------------------------------
(* PtySession._on_readable: some output is read ...                        *)
ReadChunk ==
    /\ readerActive /\ outBuf # <<>>
    /\ \E n \in 1 .. Len(outBuf) :
          /\ readQueue' = Append(readQueue, SubSeq(outBuf, 1, n))
          /\ outBuf' = SubSeq(outBuf, n + 1, Len(outBuf))
    /\ readerActive' = (Len(readQueue') < MaxQueue)
    /\ UNCHANGED <<produced, inBuf, slaveOpen, exited, closed, faulty, pumping,
                   handling, browser>>

(* ... or end of file: no output is left and nobody has the slave open ... *)
ReadEof ==
    /\ readerActive /\ outBuf = <<>> /\ ~slaveOpen
    /\ readerActive' = FALSE
    /\ readQueue' = PutEofIfEmpty(readQueue)
    /\ UNCHANGED <<device, closed, faulty, pumping, handling, browser>>

(* ... or an error that is neither EBADF nor EIO.                          *)
ReadError ==
    /\ readerActive
    /\ faulty' = TRUE
    /\ readQueue' = Append(readQueue, EOF)
    /\ readerActive' = FALSE
    /\ UNCHANGED <<device, closed, pumping, handling, browser>>

-----------------------------------------------------------------------------
(* pump_pty_output.                                                        *)

(* PtySession.read: take from the queue and register the reader again.     *)
PumpRead ==
    /\ pump = "reading" /\ readQueue # <<>> /\ ~pumpCancelled
    /\ readQueue' = Tail(readQueue)
    /\ readerActive' = (readerActive \/ ~closed)
    /\ \/ Head(readQueue) = EOF /\ pump' = "waitExit" /\ UNCHANGED chunk
       \/ Head(readQueue) # EOF /\ pump' = "sending" /\ chunk' = Head(readQueue)
    /\ UNCHANGED <<device, closed, faulty, pumpCancelled, handling, browser>>

(* ws.send_bytes: on a broken connection it raises and ends the task.      *)
PumpSend ==
    /\ pump = "sending" /\ ~pumpCancelled
    /\ chunk' = <<>>
    /\ \/ wsOpen /\ received' = received \o chunk /\ pump' = "reading"
       \/ ~wsOpen /\ pump' = "done" /\ UNCHANGED received
    /\ UNCHANGED <<device, session, pumpCancelled, handling, wsOpen, ended>>

(* await session.process.wait().                                           *)
PumpAwaitExit ==
    /\ pump = "waitExit" /\ exited /\ ~pumpCancelled
    /\ pump' = "reporting"
    /\ UNCHANGED <<device, session, chunk, pumpCancelled, handling, browser>>

(* The exit message, then ws.close(), unless the websocket is closed.      *)
PumpReport ==
    /\ pump = "reporting" /\ ~pumpCancelled
    /\ pump' = "done"
    /\ \/ wsOpen /\ ended' = TRUE /\ wsOpen' = FALSE
       \/ ~wsOpen /\ UNCHANGED <<ended, wsOpen>>
    /\ UNCHANGED <<device, session, chunk, pumpCancelled, handling, received>>

(* CancelledError at whatever the pump awaits.                             *)
PumpCancel ==
    /\ pumpCancelled /\ pump # "done"
    /\ pump' = "done" /\ chunk' = <<>>
    /\ UNCHANGED <<device, session, pumpCancelled, handling, browser>>

-----------------------------------------------------------------------------
(* terminal_websocket.                                                     *)

(* A binary message: session.write begins.                                 *)
ReceiveInput ==
    /\ handler = "receiving" /\ wsOpen /\ inputs < MaxInput
    /\ inputs' = inputs + 1 /\ toWrite' = MessageSize
    /\ handler' = "writing"
    /\ UNCHANGED <<device, session, pumping, signal, browser>>

(* An invalid control message closes the websocket and ends the loop.      *)
ReceiveInvalid ==
    /\ handler = "receiving" /\ wsOpen
    /\ wsOpen' = FALSE /\ handler' = "leaving"
    /\ UNCHANGED <<device, session, pumping, toWrite, inputs, signal, received, ended>>

(* The loop over the websocket ends when it is closed.                     *)
ReceiveClose ==
    /\ handler = "receiving" /\ ~wsOpen
    /\ handler' = "leaving"
    /\ UNCHANGED <<device, session, pumping, toWrite, inputs, signal, browser>>

(* os.write in PtySession.write: what fits is written, the rest waits for  *)
(* the descriptor to become writable; EIO gives up on the message.         *)
WriteInput ==
    /\ handler = "writing" /\ toWrite > 0
    /\ \/ /\ slaveOpen
          /\ \E n \in 1 .. toWrite :
                /\ inBuf + n <= KernelRoom
                /\ inBuf' = inBuf + n /\ toWrite' = toWrite - n
       \/ ~slaveOpen /\ toWrite' = 0 /\ UNCHANGED inBuf
    /\ UNCHANGED <<produced, outBuf, slaveOpen, exited, session, pumping, handler,
                   inputs, signal, browser>>

WriteDone ==
    /\ handler = "writing" /\ toWrite = 0
    /\ handler' = "receiving"
    /\ UNCHANGED <<device, session, pumping, toWrite, inputs, signal, browser>>

(* The finally clause: cancel the pump, then PtySession.close up to its    *)
(* await of terminate_process_group.                                       *)
Leave ==
    /\ handler = "leaving"
    /\ pumpCancelled' = TRUE
    /\ closed' = TRUE /\ readerActive' = FALSE
    /\ readQueue' = PutEofIfEmpty(readQueue)
    /\ handler' = IF exited THEN "gathering" ELSE "terminating"
    /\ signal' = IF exited THEN 0 ELSE 1
    /\ UNCHANGED <<device, faulty, pump, chunk, toWrite, inputs, browser>>

(* terminate_process_group: each signal is given its time; the process may *)
(* survive any of them (SIGKILL when it is stuck in the kernel).           *)
SignalEscalates ==
    /\ handler = "terminating" /\ ~exited
    /\ \/ signal < Len(Signals) /\ signal' = signal + 1 /\ UNCHANGED handler
       \/ signal = Len(Signals) /\ handler' = "gathering" /\ UNCHANGED signal
    /\ UNCHANGED <<device, session, pumping, toWrite, inputs, browser>>

Terminated ==
    /\ handler = "terminating" /\ exited
    /\ handler' = "gathering"
    /\ UNCHANGED <<device, session, pumping, toWrite, inputs, signal, browser>>

(* asyncio.gather(output_task).                                            *)
Gather ==
    /\ handler = "gathering" /\ pump = "done"
    /\ handler' = "done" /\ wsOpen' = FALSE
    /\ UNCHANGED <<device, session, pumping, toWrite, inputs, signal, received, ended>>

-----------------------------------------------------------------------------
ProgramsNext == ProgramWrites \/ ProgramReads \/ ShellExits \/ SlaveCloses
ReaderNext == ReadChunk \/ ReadEof \/ ReadError
PumpNext == PumpRead \/ PumpSend \/ PumpAwaitExit \/ PumpReport \/ PumpCancel
HandlerNext ==
    \/ ReceiveInput \/ ReceiveInvalid \/ ReceiveClose
    \/ WriteInput \/ WriteDone
    \/ Leave \/ SignalEscalates \/ Terminated \/ Gather

Next == ProgramsNext \/ Disconnect \/ ReaderNext \/ PumpNext \/ HandlerNext

Spec == Init /\ [][Next]_vars

(***************************************************************************)
(* Fairness.  The event loop runs a callback whose descriptor is ready and *)
(* a coroutine whose await is over.  That ws.send_bytes finishes assumes a *)
(* browser that keeps reading.  Nothing obliges a program to read its      *)
(* terminal, to write, to exit or to close it.                             *)
(***************************************************************************)
ServerWork ==
    \/ ReceiveClose \/ WriteInput \/ WriteDone
    \/ Leave \/ SignalEscalates \/ Terminated \/ Gather

Fairness ==
    /\ WF_vars(ReadChunk \/ ReadEof)
    /\ WF_vars(PumpNext)
    /\ WF_vars(ServerWork)

FairSpec == Spec /\ Fairness

\* The programs behind the terminal keep reading what is typed.
ReadingSpec == FairSpec /\ WF_vars(ProgramReads)

-----------------------------------------------------------------------------
(* Properties.                                                             *)

(* put_nowait never raises QueueFull: the queue keeps within its size, and *)
(* there is room for one more item whenever the callback may run.          *)
QueueHasRoom ==
    /\ Len(readQueue) <= MaxQueue
    /\ readerActive => Len(readQueue) < MaxQueue

(* No lost wakeup: the pump never waits on an empty queue that nobody is   *)
(* registered to fill, although the session is open.                       *)
SomeoneFillsQueue == ~closed /\ readQueue = <<>> => readerActive

(* A closed session leaves no callback on its descriptor, whose number the *)
(* process may have given to another file by then.                         *)
ClosedHasNoReader == closed => ~readerActive

(* Where output is held, on its way from the programs to the browser.      *)
Places == <<received, chunk>> \o readQueue \o <<outBuf>>
Positions == {p \in (1 .. Len(Places)) \X (1 .. produced) : p[2] <= Len(Places[p[1]])}
PieceAt(p) == Places[p[1]][p[2]]
Before(p, q) == p[1] < q[1] \/ (p[1] = q[1] /\ p[2] < q[2])

(* Flow control holds output back, it does not drop, repeat or reorder it: *)
(* what the browser got, what is queued and what the kernel has is         *)
(* everything produced, in order, for as long as the pump has not given up *)
(* (terminal.py: _on_readable, read, pump_pty_output).                     *)
NothingLost ==
    /\ TypeOK
    /\ pump \in {"reading", "sending"} =>
           /\ \A k \in 1 .. Len(Places) : Len(Places[k]) <= produced
           /\ \A p, q \in Positions : Before(p, q) => PieceAt(p) < PieceAt(q)
           /\ {PieceAt(p) : p \in Positions} = 1 .. produced

(* The terminal implements the stream it promises: in order, without gaps, *)
(* and the exit message after the last piece of output.                    *)
Stream == INSTANCE OutputStream
    WITH produced <- produced, received <- received, ended <- ended, faulty <- faulty
StreamSpec == Stream!Spec

(* When the shell is gone and nothing holds its terminal, the browser is   *)
(* told, however full the queue was, unless the connection goes first.     *)
ExitIsReported == exited /\ ~slaveOpen ~> ended \/ ~wsOpen

(* Once the browser is gone the handler finishes: the session is closed,   *)
(* the shell was signalled and the pump has ended.  (In ReadingSpec.)      *)
GoneIsCleanedUp == ~wsOpen ~> handler = "done" /\ closed /\ pump = "done"

(* The callback on the descriptor is registered exactly when it may run    *)
(* and must: never on a full queue or a closed session, always on an empty *)
(* queue of an open one (terminal.py: _read_ready, read, close).           *)
ReaderIsAccounted == QueueHasRoom /\ SomeoneFillsQueue /\ ClosedHasNoReader

(* A session comes to its end on either side: an exit is reported, and a   *)
(* lost connection is cleaned up (server/CHANGELOG.md:49).                 *)
SessionsEnd == ExitIsReported /\ GoneIsCleanedUp

=============================================================================
