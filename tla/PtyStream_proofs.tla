-------------------------- MODULE PtyStream_proofs --------------------------
(***************************************************************************)
(* Theorems about the terminal, for any size of its queue and of the       *)
(* kernel's buffers: the reader is registered when it must be, output is   *)
(* not lost, and the terminal implements OutputStream.                     *)
(***************************************************************************)
EXTENDS PtyStream, TLAPS, WellFoundedInduction

(***************************************************************************)
(* QueueHasRoom alone is not inductive: a read() of a closed session must  *)
(* not register the reader again, and close() itself puts an item.  The    *)
(* three properties together are.                                          *)
(***************************************************************************)
ReaderInv ==
    /\ readQueue \in Seq(Seq(Pieces))
    /\ outBuf \in Seq(Pieces) /\ produced \in Nat
    /\ readerActive \in BOOLEAN
    /\ QueueHasRoom
    /\ SomeoneFillsQueue
    /\ ClosedHasNoReader

LEMMA InitReaderInv == Init => ReaderInv
BY QueueAssumption
   DEF Init, ReaderInv, QueueHasRoom, SomeoneFillsQueue, ClosedHasNoReader

\* The sentinel is put only into an empty queue.
LEMMA PutEofFits ==
    ASSUME NEW q \in Seq(Seq(Pieces)), Len(q) <= MaxQueue
    PROVE  /\ PutEofIfEmpty(q) \in Seq(Seq(Pieces))
           /\ Len(PutEofIfEmpty(q)) <= MaxQueue
           /\ PutEofIfEmpty(q) # <<>>
<1>1. EOF \in Seq(Pieces)
  BY DEF EOF
<1>2. CASE q = <<>>
  <2>1. PutEofIfEmpty(q) = <<EOF>>
    BY <1>2 DEF PutEofIfEmpty
  <2> QED BY <1>1, <2>1, QueueAssumption
<1>3. CASE q # <<>>
  BY <1>3 DEF PutEofIfEmpty
<1> QED BY <1>2, <1>3

LEMMA NextReaderInv == ReaderInv /\ [Next]_vars => ReaderInv'
<1> SUFFICES ASSUME ReaderInv, [Next]_vars PROVE ReaderInv'
  OBVIOUS
<1> USE QueueAssumption
        DEF ReaderInv, QueueHasRoom, SomeoneFillsQueue, ClosedHasNoReader
<1>1. CASE UNCHANGED <<session, outBuf, produced>>
  BY <1>1 DEF session
<1>2. CASE ReadChunk
  <2>1. PICK n \in 1 .. Len(outBuf) :
            /\ readQueue' = Append(readQueue, SubSeq(outBuf, 1, n))
            /\ outBuf' = SubSeq(outBuf, n + 1, Len(outBuf))
    BY <1>2 DEF ReadChunk
  <2>2. /\ SubSeq(outBuf, 1, n) \in Seq(Pieces)
        /\ outBuf' \in Seq(Pieces)
    BY <2>1
  <2>3. /\ readQueue' \in Seq(Seq(Pieces))
        /\ Len(readQueue') = Len(readQueue) + 1
    BY <2>1, <2>2
  <2>4. readerActive /\ readerActive' = (Len(readQueue') < MaxQueue) /\ closed' = closed
    BY <1>2 DEF ReadChunk
  <2>5. produced' = produced
    BY <1>2 DEF ReadChunk
  <2>6. Len(readQueue) < MaxQueue /\ Len(readQueue) \in Nat /\ ~closed
    BY <2>4
  <2>7. Len(readQueue') <= MaxQueue /\ readQueue' # <<>>
    BY <2>3, <2>6
  <2>8. readerActive' \in BOOLEAN /\ (readerActive' => Len(readQueue') < MaxQueue)
    <3>1. CASE Len(readQueue') < MaxQueue
      BY <2>4, <3>1, Zenon
    <3>2. CASE ~(Len(readQueue') < MaxQueue)
      <4>1. (Len(readQueue') < MaxQueue) = FALSE
        BY <3>2
      <4>2. readerActive' = FALSE
        BY <2>4, <4>1, Zenon
      <4> QED BY <4>2
    <3> QED BY <3>1, <3>2
  <2>9. closed' = closed
    BY <2>4
  <2> HIDE <2>4
  <2> QED BY <2>2, <2>3, <2>5, <2>6, <2>7, <2>8, <2>9
<1>3. CASE ReadEof
  <2>1. /\ readQueue' = PutEofIfEmpty(readQueue)
        /\ readerActive' = FALSE /\ UNCHANGED <<outBuf, produced>>
    BY <1>3 DEF ReadEof, device
  <2> QED BY <2>1, PutEofFits
<1>4. CASE ReadError
  <2>1. /\ readerActive /\ readQueue' = Append(readQueue, EOF)
        /\ readerActive' = FALSE /\ UNCHANGED <<outBuf, produced>>
    BY <1>4 DEF ReadError, device
  <2>2. EOF \in Seq(Pieces)
    BY DEF EOF
  <2>3. Len(readQueue) < MaxQueue /\ Len(readQueue) \in Nat
    BY <2>1
  <2>4. /\ readQueue' \in Seq(Seq(Pieces)) /\ readQueue' # <<>>
        /\ Len(readQueue') = Len(readQueue) + 1
    BY <2>1, <2>2
  <2>5. Len(readQueue') <= MaxQueue
    BY <2>3, <2>4
  <2> QED BY <2>1, <2>4, <2>5
<1>5. CASE PumpRead
  <2>1. /\ readQueue # <<>> /\ readQueue' = Tail(readQueue)
        /\ readerActive' = (readerActive \/ ~closed)
        /\ closed' = closed /\ UNCHANGED <<outBuf, produced>>
    BY <1>5 DEF PumpRead, device
  <2>2. readQueue' \in Seq(Seq(Pieces)) /\ Len(readQueue') = Len(readQueue) - 1
    BY <2>1
  <2>3. Len(readQueue') < MaxQueue
    BY <2>2
  <2>4. closed => ~readerActive'
    BY <2>1
  <2>5. readerActive' \in BOOLEAN /\ (~closed => readerActive')
    BY <2>1
  <2> QED BY <2>1, <2>2, <2>3, <2>4, <2>5
<1>6. CASE Leave
  <2>1. /\ readQueue' = PutEofIfEmpty(readQueue)
        /\ closed' = TRUE /\ readerActive' = FALSE /\ UNCHANGED <<outBuf, produced>>
    BY <1>6 DEF Leave, device
  <2> QED BY <2>1, PutEofFits
<1>7. CASE ProgramWrites
  <2>1. outBuf' \in Seq(Pieces)
    <3>1. outBuf' = Append(outBuf, produced + 1)
      BY <1>7 DEF ProgramWrites
    <3>2. produced + 1 \in Pieces
      BY DEF Pieces
    <3> QED BY <3>1, <3>2
  <2> QED BY <1>7, <2>1 DEF ProgramWrites, session
<1> QED
  BY <1>1, <1>2, <1>3, <1>4, <1>5, <1>6, <1>7
     DEF Next, ProgramsNext, ReaderNext, PumpNext, HandlerNext, vars, device,
         ProgramReads, ShellExits, SlaveCloses, Disconnect, PumpSend,
         PumpAwaitExit, PumpReport, PumpCancel, ReceiveInput, ReceiveInvalid,
         ReceiveClose, WriteInput, WriteDone, SignalEscalates, Terminated, Gather

(* put_nowait never raises QueueFull in the callback of the event loop,    *)
(* whatever the size of the queue and the speed of either side.            *)
THEOREM QueueNeverOverflows == Spec => []QueueHasRoom
<1>1. ReaderInv => QueueHasRoom
  BY DEF ReaderInv
<1> QED BY <1>1, InitReaderInv, NextReaderInv, PTL DEF Spec

(* The pump is never left waiting with nobody registered to wake it.       *)
THEOREM NoLostWakeup == Spec => []SomeoneFillsQueue
<1>1. ReaderInv => SomeoneFillsQueue
  BY DEF ReaderInv
<1> QED BY <1>1, InitReaderInv, NextReaderInv, PTL DEF Spec

(* No callback outlives the descriptor it was registered for.              *)
THEOREM NoReaderAfterClose == Spec => []ClosedHasNoReader
<1>1. ReaderInv => ClosedHasNoReader
  BY DEF ReaderInv
<1> QED BY <1>1, InitReaderInv, NextReaderInv, PTL DEF Spec

(* The reader callback is registered when it must be and only then.        *)
THEOREM ReaderAccounted == Spec => []ReaderIsAccounted
<1>1. ReaderInv => ReaderIsAccounted
  BY DEF ReaderInv, ReaderIsAccounted
<1> QED BY <1>1, InitReaderInv, NextReaderInv, PTL DEF Spec

-----------------------------------------------------------------------------
(***************************************************************************)
(* No output is lost.  Every place where output is held, in the order of   *)
(* its way to the browser, holds a run of consecutive pieces, and each     *)
(* begins where the one before it ends.  The function b of Chain says      *)
(* where: the k-th chunk of the queue holds the pieces b[k-1]+1 .. b[k].   *)
(* The sentinel is the empty run, so an error does not break the chain.    *)
(***************************************************************************)
Run(s, from, to) ==
    /\ to = from + Len(s)
    /\ \A i \in 1 .. Len(s) : s[i] = from + i

Bounds(q, from, to, b) ==
    /\ b \in [0 .. Len(q) -> from .. to]
    /\ b[0] = from /\ b[Len(q)] = to
    /\ \A k \in 1 .. Len(q) : Run(q[k], b[k - 1], b[k])
    /\ \A j, k \in 0 .. Len(q) : j <= k => b[j] <= b[k]

Chain(q, from, to) == \E b \in [0 .. Len(q) -> from .. to] : Bounds(q, from, to, b)

Sent == Len(received) + Len(chunk)
Unread == produced - Len(outBuf)

FlowInv ==
    /\ Run(received, 0, Len(received)) /\ Len(received) <= produced
    /\ pump \in {"reading", "sending"} =>
           /\ Run(chunk, Len(received), Sent)
           /\ Sent <= Unread
           /\ Chain(readQueue, Sent, Unread)
           /\ Run(outBuf, Unread, produced)

(***************************************************************************)
(* The end of file is queued by itself, once nothing can follow: no output *)
(* is left and nobody can write any.  It is why the exit message is the    *)
(* last thing the browser gets.                                            *)
(***************************************************************************)
Healthy == ~faulty /\ ~pumpCancelled

EndInv ==
    /\ Healthy /\ pump \in {"reading", "sending"} =>
           \A k \in 1 .. Len(readQueue) :
               readQueue[k] = EOF => Len(readQueue) = 1 /\ outBuf = <<>> /\ ~slaveOpen
    /\ Healthy /\ pump \in {"waitExit", "reporting"} =>
           Len(received) = produced /\ ~slaveOpen
    /\ pump # "sending" => chunk = <<>>
    /\ ended => pump = "done"
    /\ closed => pumpCancelled

StreamInv == TypeOK /\ FlowInv /\ EndInv

-----------------------------------------------------------------------------
(* Lemmas about chains.                                                    *)

\* A run put at the end of the queue extends the chain.
LEMMA ChainAppend ==
    ASSUME NEW q \in Seq(Seq(Pieces)), NEW from \in Nat, NEW to \in Nat,
           NEW up \in Nat, NEW s \in Seq(Pieces),
           Chain(q, from, to), Run(s, to, up)
    PROVE  Chain(Append(q, s), from, up)
<1>1. PICK b \in [0 .. Len(q) -> from .. to] : Bounds(q, from, to, b)
  BY DEF Chain
<1> DEFINE n == Len(q)
           c == [k \in 0 .. (n + 1) |-> IF k = n + 1 THEN up ELSE b[k]]
<1>2. n \in Nat /\ to <= up /\ from <= to
  <2>1. Len(s) \in Nat /\ up = to + Len(s)
    BY DEF Run
  <2>2. b[0] \in from .. to
    BY <1>1
  <2> QED BY <2>1, <2>2
<1>3. Len(Append(q, s)) = n + 1
  OBVIOUS
<1>4. /\ \A k \in 0 .. n : c[k] = b[k]
      /\ c[n + 1] = up
  BY <1>2
<1>5. c \in [0 .. (n + 1) -> from .. up]
  <2>1. \A k \in 0 .. n : b[k] \in from .. to
    BY <1>1
  <2>2. ASSUME NEW k \in 0 .. (n + 1) PROVE c[k] \in from .. up
    <3>1. CASE k = n + 1
      BY <3>1, <1>2, <1>4
    <3>2. CASE k # n + 1
      <4>1. k \in 0 .. n
        BY <3>2, <1>2
      <4>2. c[k] = b[k] /\ b[k] \in from .. to
        BY <4>1, <1>4, <2>1
      <4> HIDE DEF c
      <4> QED BY <4>2, <1>2
    <3> QED BY <3>1, <3>2
  <2> QED BY <2>2
<1> HIDE DEF c
<1>6. c[0] = from /\ c[n + 1] = up
  BY <1>1, <1>2, <1>4 DEF Bounds
<1>7. ASSUME NEW k \in 1 .. (n + 1) PROVE Run(Append(q, s)[k], c[k - 1], c[k])
  <2>1. CASE k = n + 1
    <3>1. Append(q, s)[k] = s
      BY <2>1
    <3>2. c[k - 1] = to /\ c[k] = up
      BY <2>1, <1>1, <1>2, <1>4 DEF Bounds
    <3> QED BY <3>1, <3>2
  <2>2. CASE k # n + 1
    <3>1. k \in 1 .. n /\ k \in 0 .. n /\ k - 1 \in 0 .. n
      BY <2>2, <1>2
    <3>2. Append(q, s)[k] = q[k]
      BY <3>1
    <3>3. c[k - 1] = b[k - 1] /\ c[k] = b[k]
      BY <3>1, <1>4
    <3> QED BY <3>1, <3>2, <3>3, <1>1 DEF Bounds
  <2> QED BY <2>1, <2>2
<1>8. ASSUME NEW j \in 0 .. (n + 1), NEW k \in 0 .. (n + 1), j <= k PROVE c[j] <= c[k]
  <2>1. CASE k = n + 1
    <3>1. c[k] = up /\ c[j] \in from .. up
      BY <2>1, <1>4, <1>5
    <3> QED BY <3>1, <1>2
  <2>2. CASE k # n + 1
    <3>1. j \in 0 .. n /\ k \in 0 .. n
      BY <2>2, <1>2, <1>8
    <3> QED BY <3>1, <1>1, <1>4, <1>8 DEF Bounds
  <2> QED BY <2>1, <2>2
<1>9. Bounds(Append(q, s), from, up, c)
  BY <1>3, <1>5, <1>6, <1>7, <1>8 DEF Bounds
<1> QED BY <1>3, <1>5, <1>9 DEF Chain

\* The head of the queue is a run, and the chain goes on behind it.
LEMMA ChainTail ==
    ASSUME NEW q \in Seq(Seq(Pieces)), q # <<>>, NEW from \in Nat, NEW to \in Nat,
           Chain(q, from, to)
    PROVE  \E mid \in from .. to : Run(Head(q), from, mid) /\ Chain(Tail(q), mid, to)
<1>1. PICK b \in [0 .. Len(q) -> from .. to] : Bounds(q, from, to, b)
  BY DEF Chain
<1> DEFINE n == Len(q)
           c == [k \in 0 .. (n - 1) |-> b[k + 1]]
<1>2. n \in Nat /\ n >= 1 /\ Len(Tail(q)) = n - 1
  OBVIOUS
<1>3. \A k \in 0 .. (n - 1) : c[k] = b[k + 1] /\ k + 1 \in 0 .. n
  BY <1>2
<1>4. b[1] \in from .. to
  BY <1>1, <1>2
<1>5. c \in [0 .. (n - 1) -> b[1] .. to]
  <2>1. ASSUME NEW k \in 0 .. (n - 1) PROVE c[k] \in b[1] .. to
    <3>1. k + 1 \in 0 .. n /\ 1 \in 0 .. n /\ 1 <= k + 1
      BY <1>2
    <3>2. b[k + 1] \in from .. to /\ b[1] <= b[k + 1]
      BY <1>1, <3>1 DEF Bounds
    <3> QED BY <1>3, <1>4, <3>2
  <2> QED BY <2>1
<1> HIDE DEF c
<1>6. c[0] = b[1] /\ c[n - 1] = to
  BY <1>1, <1>2, <1>3 DEF Bounds
<1>7. ASSUME NEW k \in 1 .. (n - 1) PROVE Run(Tail(q)[k], c[k - 1], c[k])
  <2>1. Tail(q)[k] = q[k + 1]
    BY <1>2
  <2>2. k + 1 \in 1 .. n /\ k - 1 \in 0 .. (n - 1) /\ k \in 0 .. (n - 1)
    BY <1>2
  <2>3. c[k - 1] = b[(k - 1) + 1] /\ c[k] = b[k + 1]
    BY <2>2, <1>3
  <2>4. (k - 1) + 1 = k /\ (k + 1) - 1 = k
    BY <1>2
  <2>5. Run(q[k + 1], b[(k + 1) - 1], b[k + 1])
    BY <1>1, <2>2 DEF Bounds
  <2> QED BY <2>1, <2>3, <2>4, <2>5
<1>8. ASSUME NEW j \in 0 .. (n - 1), NEW k \in 0 .. (n - 1), j <= k PROVE c[j] <= c[k]
  BY <1>1, <1>2, <1>3, <1>8 DEF Bounds
<1>9. Bounds(Tail(q), b[1], to, c)
  BY <1>2, <1>5, <1>6, <1>7, <1>8 DEF Bounds
<1>10. Chain(Tail(q), b[1], to)
  BY <1>2, <1>5, <1>9 DEF Chain
<1>11. Run(Head(q), from, b[1])
  BY <1>1, <1>2 DEF Bounds
<1> QED BY <1>4, <1>10, <1>11

LEMMA ChainOfNothing ==
    ASSUME NEW from \in Nat
    PROVE  Chain(<<>>, from, from)
<1> DEFINE b == [k \in 0 .. 0 |-> from]
<1>1. b \in [0 .. Len(<<>>) -> from .. from] /\ b[0] = from
  OBVIOUS
<1>2. Bounds(<<>>, from, from, b)
  BY <1>1 DEF Bounds
<1> QED BY <1>1, <1>2 DEF Chain

\* A run that is cut in two is two runs.
LEMMA RunSplit ==
    ASSUME NEW s \in Seq(Pieces), NEW from \in Nat, NEW to \in Nat, Run(s, from, to),
           NEW n \in 1 .. Len(s)
    PROVE  /\ Run(SubSeq(s, 1, n), from, from + n)
           /\ Run(SubSeq(s, n + 1, Len(s)), from + n, to)
<1>1. Len(SubSeq(s, 1, n)) = n /\ \A i \in 1 .. n : SubSeq(s, 1, n)[i] = s[i]
  OBVIOUS
<1>2. /\ Len(SubSeq(s, n + 1, Len(s))) = Len(s) - n
      /\ \A i \in 1 .. (Len(s) - n) : SubSeq(s, n + 1, Len(s))[i] = s[i + n]
  OBVIOUS
<1>3. Len(s) \in Nat /\ to = from + Len(s) /\ \A i \in 1 .. Len(s) : s[i] = from + i
  BY DEF Run
<1>4. \A i \in 1 .. (Len(s) - n) : s[i + n] = (from + n) + i
  BY <1>3
<1>5. to = (from + n) + (Len(s) - n)
  BY <1>3
<1>6. Run(SubSeq(s, 1, n), from, from + n)
  BY <1>1, <1>3 DEF Run
<1> DEFINE t == SubSeq(s, n + 1, Len(s))
<1>7. Len(t) = Len(s) - n /\ \A i \in 1 .. Len(t) : t[i] = (from + n) + i
  BY <1>2, <1>4
<1> HIDE DEF t
<1>8. Run(t, from + n, to)
  BY <1>5, <1>7 DEF Run
<1> QED BY <1>6, <1>8 DEF t

\* Two runs that meet are one.
LEMMA RunJoin ==
    ASSUME NEW s \in Seq(Pieces), NEW t \in Seq(Pieces),
           NEW from \in Nat, NEW mid \in Nat, NEW to \in Nat,
           Run(s, from, mid), Run(t, mid, to)
    PROVE  Run(s \o t, from, to)
<1>1. Len(s \o t) = Len(s) + Len(t)
  OBVIOUS
<1>2. mid = from + Len(s) /\ to = mid + Len(t)
  BY DEF Run
<1>3. ASSUME NEW i \in 1 .. (Len(s) + Len(t)) PROVE (s \o t)[i] = from + i
  <2>1. CASE i <= Len(s)
    BY <2>1 DEF Run
  <2>2. CASE i > Len(s)
    <3>1. i - Len(s) \in 1 .. Len(t) /\ (s \o t)[i] = t[i - Len(s)]
      BY <2>2
    <3> QED BY <3>1, <1>2 DEF Run
  <2> QED BY <2>1, <2>2
<1> QED BY <1>1, <1>2, <1>3 DEF Run

-----------------------------------------------------------------------------
(* Typing.                                                                 *)

LEMMA SignalCount == Len(Signals) = 3
BY DEF Signals

LEMMA InitTypeOK == Init => TypeOK
<1> SUFFICES ASSUME Init PROVE TypeOK
  OBVIOUS
<1>1. <<>> \in Seq(Pieces) /\ <<>> \in Seq(Seq(Pieces)) /\ 0 \in 0 .. Len(Signals)
  BY SignalCount
<1> QED BY <1>1 DEF Init, TypeOK, PumpPCs, HandlerPCs

LEMMA NextTypeOK == TypeOK /\ [Next]_vars => TypeOK'
<1> SUFFICES ASSUME TypeOK, [Next]_vars PROVE TypeOK'
  OBVIOUS
<1> USE QueueAssumption, BufferAssumption, SignalCount
        DEF TypeOK, PumpPCs, HandlerPCs, device, session, pumping, handling,
            browser
<1>0. EOF \in Seq(Pieces)
  BY DEF EOF
<1>1. CASE ProgramsNext
  <2>1. CASE ProgramWrites
    <3>1. produced + 1 \in Pieces /\ produced + 1 \in Nat
      BY DEF Pieces
    <3>2. Append(outBuf, produced + 1) \in Seq(Pieces)
      BY <3>1
    <3> QED BY <2>1, <3>1, <3>2 DEF ProgramWrites
  <2>2. CASE ProgramReads
    BY <2>2 DEF ProgramReads
  <2>3. CASE ShellExits
    <3>1. exited' = TRUE /\ UNCHANGED <<produced, outBuf, inBuf, slaveOpen, session,
                                        pumping, handling, browser>>
      BY <2>3 DEF ShellExits
    <3>2. exited' \in BOOLEAN /\ slaveOpen' \in BOOLEAN
      BY <3>1
    <3>3. UNCHANGED <<produced, outBuf, inBuf, received, chunk, faulty, readQueue, readerActive,
                      closed, pump, pumpCancelled, handler, toWrite, inputs, signal, wsOpen,
                      ended>>
      BY <3>1
    <3> QED BY <3>2, <3>3
  <2>4. CASE SlaveCloses
    <3>1. slaveOpen' = FALSE /\ UNCHANGED <<produced, outBuf, inBuf, exited, session,
                                            pumping, handling, browser>>
      BY <2>4 DEF SlaveCloses
    <3>2. exited' \in BOOLEAN /\ slaveOpen' \in BOOLEAN
      BY <3>1
    <3>3. UNCHANGED <<produced, outBuf, inBuf, received, chunk, faulty, readQueue, readerActive,
                      closed, pump, pumpCancelled, handler, toWrite, inputs, signal, wsOpen,
                      ended>>
      BY <3>1
    <3> QED BY <3>2, <3>3
  <2> QED BY <1>1, <2>1, <2>2, <2>3, <2>4 DEF ProgramsNext
<1>2. CASE Disconnect
  <2>1. wsOpen' \in BOOLEAN /\ ended' \in BOOLEAN
    BY <1>2 DEF Disconnect
  <2>2. UNCHANGED <<produced, outBuf, inBuf, slaveOpen, exited, received, chunk, faulty, readQueue,
                    readerActive, closed, pump, pumpCancelled, handler, toWrite, inputs, signal>>
    BY <1>2 DEF Disconnect
  <2> QED BY <2>1, <2>2
<1>3. CASE ReaderNext
  <2>1. CASE ReadChunk
    <3>1. PICK n \in 1 .. Len(outBuf) :
              /\ readQueue' = Append(readQueue, SubSeq(outBuf, 1, n))
              /\ outBuf' = SubSeq(outBuf, n + 1, Len(outBuf))
      BY <2>1 DEF ReadChunk
    <3>2. SubSeq(outBuf, 1, n) \in Seq(Pieces) /\ outBuf' \in Seq(Pieces)
      BY <3>1
    <3>3. readQueue' \in Seq(Seq(Pieces))
      BY <3>1, <3>2
    <3>4. readerActive' \in BOOLEAN
      <4>1. readerActive' = (Len(readQueue') < MaxQueue)
        BY <2>1 DEF ReadChunk
      <4>2. (Len(readQueue') < MaxQueue) \in BOOLEAN
        OBVIOUS
      <4> QED BY <4>1, <4>2, Zenon
    <3>5. UNCHANGED <<produced, inBuf, slaveOpen, exited, closed, faulty, pumping,
                      handling, browser>>
      BY <2>1 DEF ReadChunk
    <3> QED BY <3>2, <3>3, <3>4, <3>5
  <2>2. CASE ReadEof
    <3>1. PutEofIfEmpty(readQueue) \in Seq(Seq(Pieces))
      BY <1>0 DEF PutEofIfEmpty
    <3> QED BY <2>2, <3>1, ZenonT(40) DEF ReadEof
  <2>3. CASE ReadError
    <3>1. Append(readQueue, EOF) \in Seq(Seq(Pieces))
      BY <1>0
    <3> QED BY <2>3, <3>1, ZenonT(40) DEF ReadError
  <2> QED BY <1>3, <2>1, <2>2, <2>3 DEF ReaderNext
<1>4. CASE PumpNext
  <2>1. CASE PumpRead
    <3>1. readQueue # <<>> /\ readQueue' = Tail(readQueue)
      BY <2>1 DEF PumpRead
    <3>2. readQueue' \in Seq(Seq(Pieces)) /\ Head(readQueue) \in Seq(Pieces)
      BY <3>1
    <3>3. pump' \in PumpPCs /\ chunk' \in Seq(Pieces)
      BY <2>1, <3>2 DEF PumpRead
    <3>4. /\ readerActive' = (readerActive \/ ~closed)
          /\ UNCHANGED <<device, closed, faulty, pumpCancelled, handling, browser>>
      BY <2>1 DEF PumpRead
    <3> QED BY <3>2, <3>3, <3>4
  <2>2. CASE PumpSend
    <3>1. chunk' = <<>> /\ <<>> \in Seq(Pieces)
      BY <2>2 DEF PumpSend
    <3>2. received \o chunk \in Seq(Pieces)
      OBVIOUS
    <3>3. received' \in Seq(Pieces) /\ pump' \in PumpPCs
      BY <2>2, <3>2 DEF PumpSend
    <3>4. UNCHANGED <<device, session, pumpCancelled, handling, wsOpen, ended>>
      BY <2>2 DEF PumpSend
    <3> QED BY <3>1, <3>3, <3>4
  <2>3. CASE PumpAwaitExit
    BY <2>3 DEF PumpAwaitExit
  <2>4. CASE PumpReport
    BY <2>4 DEF PumpReport
  <2>5. CASE PumpCancel
    <3>1. <<>> \in Seq(Pieces)
      OBVIOUS
    <3> QED BY <2>5, <3>1 DEF PumpCancel
  <2> QED BY <1>4, <2>1, <2>2, <2>3, <2>4, <2>5 DEF PumpNext
<1>5. CASE HandlerNext
  <2>1. CASE WriteInput
    <3>1. inBuf' \in Nat /\ toWrite' \in Nat
      BY <2>1 DEF WriteInput
    <3> QED BY <2>1, <3>1 DEF WriteInput
  <2>2. CASE Leave
    <3>1. PutEofIfEmpty(readQueue) \in Seq(Seq(Pieces))
      BY <1>0 DEF PutEofIfEmpty
    <3>2. handler' \in HandlerPCs /\ signal' \in 0 .. Len(Signals)
      BY <2>2 DEF Leave
    <3>3. /\ readQueue' = PutEofIfEmpty(readQueue)
          /\ pumpCancelled' = TRUE /\ closed' = TRUE /\ readerActive' = FALSE
          /\ UNCHANGED <<device, faulty, pump, chunk, toWrite, inputs, browser>>
      BY <2>2 DEF Leave
    <3> QED BY <3>1, <3>2, <3>3
  <2>3. CASE SignalEscalates
    <3>1. signal' \in 0 .. Len(Signals) /\ handler' \in HandlerPCs
      BY <2>3 DEF SignalEscalates
    <3> QED BY <2>3, <3>1 DEF SignalEscalates
  <2>4. CASE ReceiveInput
    BY <2>4 DEF ReceiveInput
  <2>5. CASE ReceiveInvalid \/ ReceiveClose
    BY <2>5, ZenonT(40) DEF ReceiveInvalid, ReceiveClose
  <2>6. CASE WriteDone
    BY <2>6 DEF WriteDone
  <2>7. CASE Terminated
    BY <2>7 DEF Terminated
  <2>8. CASE Gather
    BY <2>8 DEF Gather
  <2> QED BY <1>5, <2>1, <2>2, <2>3, <2>4, <2>5, <2>6, <2>7, <2>8 DEF HandlerNext
<1>6. CASE UNCHANGED vars
  BY <1>6 DEF vars
<1> QED BY <1>1, <1>2, <1>3, <1>4, <1>5, <1>6 DEF Next

-----------------------------------------------------------------------------
(* The chain is kept by every step.                                        *)

LEMMA EmptyRun == \A k \in Nat : Run(<<>>, k, k)
BY DEF Run

LEMMA InitStreamInv == Init => StreamInv
<1> SUFFICES ASSUME Init PROVE StreamInv
  OBVIOUS
<1>1. TypeOK
  BY InitTypeOK
<1>2. FlowInv
  <2>0. Len(<<>>) = 0
    OBVIOUS
  <2>1. Sent = 0 /\ Unread = 0
    <3>1. Sent = 0 + 0 /\ Unread = 0 - 0
      BY <2>0 DEF Init, Sent, Unread
    <3> QED BY <3>1
  <2>2. Run(<<>>, 0, 0) /\ Chain(<<>>, 0, 0)
    BY EmptyRun, ChainOfNothing
  <2> QED BY <2>0, <2>1, <2>2 DEF Init, FlowInv
<1>3. EndInv
  <2>1. \A k \in 1 .. Len(readQueue) : FALSE
    BY DEF Init
  <2> QED BY <2>1 DEF Init, EndInv
<1> QED BY <1>1, <1>2, <1>3 DEF StreamInv

LEMMA ChainPutEof ==
    ASSUME NEW q \in Seq(Seq(Pieces)), NEW from \in Nat, NEW to \in Nat, Chain(q, from, to)
    PROVE  /\ Chain(Append(q, EOF), from, to)
           /\ Chain(PutEofIfEmpty(q), from, to)
<1>1. EOF \in Seq(Pieces) /\ Run(EOF, to, to)
  BY EmptyRun DEF EOF
<1>2. Chain(Append(q, EOF), from, to)
  BY <1>1, ChainAppend
<1>3. q = <<>> => Append(q, EOF) = <<EOF>>
  OBVIOUS
<1> QED BY <1>2, <1>3 DEF PutEofIfEmpty

LEMMA NextFlowInv == StreamInv /\ [Next]_vars => FlowInv'
<1> SUFFICES ASSUME TypeOK, FlowInv, EndInv, [Next]_vars PROVE FlowInv'
  BY DEF StreamInv
<1>0. /\ produced \in Nat
      /\ outBuf \in Seq(Pieces) /\ received \in Seq(Pieces) /\ chunk \in Seq(Pieces)
      /\ readQueue \in Seq(Seq(Pieces))
      /\ Len(outBuf) \in Nat /\ Len(received) \in Nat /\ Len(chunk) \in Nat
  BY DEF TypeOK
<1> DEFINE Flowing == pump \in {"reading", "sending"}
<1>a. /\ Run(received, 0, Len(received)) /\ Len(received) <= produced
      /\ Flowing => /\ Run(chunk, Len(received), Sent)
                    /\ Sent <= Unread
                    /\ Chain(readQueue, Sent, Unread)
                    /\ Run(outBuf, Unread, produced)
                    /\ Sent \in Nat /\ Unread \in Nat
  BY <1>0 DEF FlowInv, Sent, Unread
<1>1. CASE /\ UNCHANGED <<produced, outBuf, readQueue, chunk, received>>
           /\ pump' \in {"reading", "sending"} => pump \in {"reading", "sending"}
  BY <1>1 DEF FlowInv, Sent, Unread
<1>2. CASE ProgramWrites
  <2>1. /\ produced' = produced + 1 /\ outBuf' = Append(outBuf, produced + 1)
        /\ UNCHANGED <<readQueue, chunk, received, pump>>
    BY <1>2 DEF ProgramWrites, session, pumping, browser
  <2>2. Unread' = Unread /\ Sent' = Sent
    BY <2>1, <1>0 DEF Unread, Sent
  <2>3. Flowing => Run(outBuf', Unread, produced')
    <3>1. /\ Len(outBuf') = Len(outBuf) + 1 /\ outBuf'[Len(outBuf) + 1] = produced + 1
          /\ \A i \in 1 .. Len(outBuf) : outBuf'[i] = outBuf[i]
      BY <2>1, <1>0
    <3>2. Flowing => /\ produced = Unread + Len(outBuf)
                     /\ \A i \in 1 .. Len(outBuf) : outBuf[i] = Unread + i
      BY <1>a DEF Run
    <3>3. ASSUME Flowing PROVE produced' = Unread + Len(outBuf')
      <4>1. produced = Unread + Len(outBuf) /\ Unread \in Nat
        BY <3>2, <3>3, <1>a
      <4>2. produced' = produced + 1 /\ Len(outBuf') = Len(outBuf) + 1
        BY <2>1, <3>1
      <4> HIDE DEF Flowing
      <4> QED BY <4>1, <4>2, <1>0
    <3>4. ASSUME Flowing, NEW i \in 1 .. Len(outBuf') PROVE outBuf'[i] = Unread + i
      <4>1. CASE i = Len(outBuf) + 1
        <5>1. produced + 1 = Unread + i
          BY <4>1, <3>2, <3>4, <1>0, <1>a
        <5> QED BY <5>1, <4>1, <3>1
      <4>2. CASE i # Len(outBuf) + 1
        <5>1. i \in 1 .. Len(outBuf)
          BY <4>2, <3>1, <1>0
        <5> QED BY <5>1, <3>1, <3>2, <3>4
      <4> QED BY <4>1, <4>2
    <3> QED BY <3>3, <3>4 DEF Run
  <2>4. Len(received) <= produced'
    BY <2>1, <1>0, <1>a
  <2> QED BY <1>a, <2>1, <2>2, <2>3, <2>4 DEF FlowInv
<1>3. CASE ReadChunk
  <2>1. PICK n \in 1 .. Len(outBuf) :
            /\ readQueue' = Append(readQueue, SubSeq(outBuf, 1, n))
            /\ outBuf' = SubSeq(outBuf, n + 1, Len(outBuf))
    BY <1>3 DEF ReadChunk
  <2>2. UNCHANGED <<produced, chunk, received, pump>>
    BY <1>3 DEF ReadChunk, pumping, browser
  <2>3. SubSeq(outBuf, 1, n) \in Seq(Pieces) /\ Len(outBuf') = Len(outBuf) - n /\ n \in Nat
    BY <2>1, <1>0
  <2>4. Unread' = Unread + n /\ Sent' = Sent
    BY <2>2, <2>3, <1>0 DEF Unread, Sent
  <2>5. ASSUME Flowing PROVE /\ Run(SubSeq(outBuf, 1, n), Unread, Unread + n)
                             /\ Run(outBuf', Unread + n, produced)
                             /\ Unread + n \in Nat /\ Sent <= Unread + n
    BY <2>1, <2>5, <1>0, <1>a, RunSplit
  <2>6. Flowing => Chain(readQueue', Sent, Unread + n)
    BY <2>1, <2>3, <2>5, <1>0, <1>a, ChainAppend
  <2> QED BY <1>a, <2>2, <2>4, <2>5, <2>6 DEF FlowInv
<1>4. CASE /\ readQueue' \in {Append(readQueue, EOF), PutEofIfEmpty(readQueue)}
           /\ UNCHANGED <<produced, outBuf, chunk, received, pump>>
  <2>1. Flowing => Chain(readQueue', Sent, Unread)
    BY <1>4, <1>0, <1>a, ChainPutEof
  <2>2. Unread' = Unread /\ Sent' = Sent
    BY <1>4 DEF Unread, Sent
  <2> QED BY <1>4, <1>a, <2>1, <2>2 DEF FlowInv
<1>5. CASE PumpRead
  <2>1. /\ pump = "reading" /\ readQueue # <<>> /\ readQueue' = Tail(readQueue)
        /\ UNCHANGED <<produced, outBuf, received>>
        /\ \/ pump' = "waitExit"
           \/ pump' = "sending" /\ chunk' = Head(readQueue)
    BY <1>5 DEF PumpRead, device, browser
  <2>2. CASE pump' = "waitExit"
    BY <2>1, <2>2, <1>a DEF FlowInv
  <2>3. CASE pump' = "sending" /\ chunk' = Head(readQueue)
    <3>1. chunk = <<>> /\ Sent = Len(received)
      BY <2>1, <1>0 DEF EndInv, Sent
    <3>2. PICK mid \in Sent .. Unread :
              Run(chunk', Sent, mid) /\ Chain(readQueue', mid, Unread)
      BY <2>1, <2>3, <1>0, <1>a, ChainTail
    <3>3. mid = Len(received) + Len(chunk')
      BY <3>1, <3>2 DEF Run
    <3>4. Sent' = mid /\ Unread' = Unread
      BY <3>3, <2>1 DEF Sent, Unread
    <3>5. mid <= Unread
      BY <3>2, <1>a, <2>1
    <3> QED BY <2>1, <1>a, <3>1, <3>2, <3>4, <3>5 DEF FlowInv
  <2> QED BY <2>1, <2>2, <2>3
<1>6. CASE PumpSend
  <2>1. /\ pump = "sending" /\ chunk' = <<>>
        /\ UNCHANGED <<produced, outBuf, readQueue>>
        /\ \/ received' = received \o chunk /\ pump' = "reading"
           \/ pump' = "done" /\ received' = received
    BY <1>6 DEF PumpSend, device, session
  <2>2. CASE pump' = "done" /\ received' = received
    BY <2>1, <2>2, <1>a DEF FlowInv
  <2>3. CASE received' = received \o chunk /\ pump' = "reading"
    <3>1. Len(received') = Sent /\ Len(chunk') = 0
      BY <2>1, <2>3, <1>0 DEF Sent
    <3>2. Sent' = Sent /\ Unread' = Unread /\ Sent \in Nat
      BY <3>1, <2>1, <1>0 DEF Sent, Unread
    <3>3. Run(received', 0, Sent)
      BY <2>1, <2>3, <1>0, <1>a, RunJoin
    <3>4. Run(chunk', Sent, Sent)
      BY <2>1, <3>2, EmptyRun
    <3>5. Sent <= produced
      BY <2>1, <1>0, <1>a DEF Unread
    <3> QED BY <2>1, <1>a, <3>1, <3>2, <3>3, <3>4, <3>5 DEF FlowInv
  <2> QED BY <2>1, <2>2, <2>3
<1>7. CASE pump' = "done" /\ UNCHANGED <<produced, received>>
  BY <1>7, <1>a DEF FlowInv
<1>8. CASE ReadEof \/ Leave
  BY <1>8, <1>4 DEF ReadEof, Leave, device, pumping, browser
<1>9. CASE ReadError
  BY <1>9, <1>4 DEF ReadError, device, pumping, browser
<1>10. CASE PumpAwaitExit \/ PumpReport \/ PumpCancel
  BY <1>10, <1>1, <1>7 DEF PumpAwaitExit, PumpReport, PumpCancel, device, session, browser
<1>11. CASE ProgramReads \/ ShellExits \/ SlaveCloses \/ Disconnect
  BY <1>11, <1>1 DEF ProgramReads, ShellExits, SlaveCloses, Disconnect, device, session,
                     pumping, browser
<1>12. CASE HandlerNext /\ ~Leave
  BY <1>12, <1>1 DEF HandlerNext, ReceiveInput, ReceiveInvalid, ReceiveClose, WriteInput,
                     WriteDone, SignalEscalates, Terminated, Gather, device, session,
                     pumping, browser
<1>13. CASE UNCHANGED vars
  BY <1>13, <1>1 DEF vars, device, session, pumping, browser
<1> QED
  BY <1>2, <1>3, <1>5, <1>6, <1>8, <1>9, <1>10, <1>11, <1>12, <1>13
     DEF Next, ProgramsNext, ReaderNext, PumpNext

LEMMA NextEndInv == StreamInv /\ [Next]_vars => EndInv'
<1> SUFFICES ASSUME TypeOK, FlowInv, EndInv, [Next]_vars PROVE EndInv'
  BY DEF StreamInv
<1> USE DEF EndInv, Healthy
<1>0. /\ produced \in Nat
      /\ outBuf \in Seq(Pieces) /\ received \in Seq(Pieces) /\ chunk \in Seq(Pieces)
      /\ readQueue \in Seq(Seq(Pieces))
      /\ Len(readQueue) \in Nat
  BY DEF TypeOK
<1>1. CASE UNCHANGED <<produced, outBuf, slaveOpen, readQueue, closed, faulty, pump, chunk,
                       pumpCancelled, received, ended>>
  BY <1>1
<1>2. CASE ProgramWrites
  BY <1>2 DEF ProgramWrites, session, pumping, browser
<1>3. CASE ReadChunk
  <2>1. PICK n \in 1 .. Len(outBuf) :
            readQueue' = Append(readQueue, SubSeq(outBuf, 1, n))
    BY <1>3 DEF ReadChunk
  <2>2. /\ outBuf # <<>>
        /\ UNCHANGED <<produced, slaveOpen, closed, faulty, pump, chunk, pumpCancelled,
                       received, ended>>
    BY <1>3 DEF ReadChunk, pumping, browser
  <2>3. SubSeq(outBuf, 1, n) # EOF /\ Len(readQueue') = Len(readQueue) + 1
    <3>1. /\ Len(SubSeq(outBuf, 1, n)) = n /\ n # 0
          /\ SubSeq(outBuf, 1, n) \in Seq(Pieces)
      BY <1>0
    <3>2. Len(EOF) = 0
      BY DEF EOF
    <3>3. Len(readQueue') = Len(readQueue) + 1
      BY <3>1, <2>1, <1>0
    <3> QED BY <3>1, <3>2, <3>3
  <2>4. \A k \in 1 .. Len(readQueue') : readQueue'[k] = EOF =>
            k \in 1 .. Len(readQueue) /\ readQueue[k] = EOF
    BY <2>1, <2>3, <1>0
  <2> QED BY <2>2, <2>4
<1>4. CASE ReadEof
  <2>1. /\ readQueue' = PutEofIfEmpty(readQueue) /\ outBuf = <<>> /\ ~slaveOpen
        /\ UNCHANGED <<produced, outBuf, slaveOpen, closed, faulty, pump, chunk,
                       pumpCancelled, received, ended>>
    BY <1>4 DEF ReadEof, device, pumping, browser
  <2>2. CASE readQueue = <<>>
    <3>1. readQueue' = <<EOF>>
      BY <2>1, <2>2 DEF PutEofIfEmpty
    <3>2. Len(readQueue') = 1
      BY <3>1
    <3> QED BY <2>1, <3>2
  <2>3. CASE readQueue # <<>>
    BY <2>1, <2>3 DEF PutEofIfEmpty
  <2> QED BY <2>2, <2>3
<1>5. CASE ReadError
  BY <1>5 DEF ReadError, device, pumping, browser
<1>6. CASE PumpRead
  <2>1. /\ pump = "reading" /\ readQueue # <<>> /\ readQueue' = Tail(readQueue)
        /\ UNCHANGED <<produced, outBuf, slaveOpen, closed, faulty, pumpCancelled, received,
                       ended>>
        /\ \/ Head(readQueue) = EOF /\ pump' = "waitExit" /\ chunk' = chunk
           \/ pump' = "sending" /\ chunk' = Head(readQueue)
    BY <1>6 DEF PumpRead, device, handling, browser
  <2>2. Head(readQueue) = readQueue[1] /\ 1 \in 1 .. Len(readQueue)
    BY <2>1, <1>0
  <2>3. \A k \in 1 .. Len(readQueue') : readQueue'[k] = readQueue[k + 1]
                                         /\ k + 1 \in 1 .. Len(readQueue)
    BY <2>1, <1>0
  <2>4. Len(readQueue') = Len(readQueue) - 1
    BY <2>1, <1>0
  <2>5. CASE pump' = "sending"
    <3>1. ASSUME Healthy, NEW k \in 1 .. Len(readQueue'), readQueue'[k] = EOF PROVE FALSE
      <4>1. Len(readQueue) = 1
        BY <3>1, <2>1, <2>3
      <4> QED BY <4>1, <2>4, <3>1
    <3>2. ended => FALSE
      BY <2>1
    <3> QED BY <2>1, <2>5, <3>1, <3>2
  <2>6. CASE Head(readQueue) = EOF /\ pump' = "waitExit" /\ chunk' = chunk
    <3>1. Healthy => Len(readQueue) = 1 /\ outBuf = <<>> /\ ~slaveOpen
      BY <2>1, <2>2, <2>6
    <3>2. Healthy => Len(received) = produced
      <4>1. ASSUME Healthy PROVE Len(received) = produced
        <5>1. Len(outBuf) = 0 /\ Len(chunk) = 0
          BY <4>1, <3>1, <2>1
        <5>2. PICK b \in [0 .. Len(readQueue) -> Sent .. Unread] :
                  Bounds(readQueue, Sent, Unread, b)
          BY <2>1 DEF FlowInv, Chain
        <5>3. Run(EOF, Sent, Unread)
          <6>1. Len(readQueue) = 1 /\ readQueue[1] = EOF
            BY <3>1, <4>1, <2>2, <2>6
          <6>2. 1 \in 1 .. Len(readQueue) /\ 1 - 1 = 0
            BY <6>1
          <6>3. b[0] = Sent /\ b[1] = Unread /\ Run(readQueue[1], b[1 - 1], b[1])
            BY <5>2, <6>1, <6>2 DEF Bounds
          <6> QED BY <6>1, <6>2, <6>3
        <5>4. Sent = Len(received) + 0 /\ Unread = produced - 0
          BY <5>1 DEF Sent, Unread
        <5>5. Len(EOF) = 0 /\ Len(received) \in Nat
          BY <1>0 DEF EOF
        <5> QED BY <5>3, <5>4, <5>5, <1>0 DEF Run
      <4> QED BY <4>1
    <3>3. ended => FALSE
      BY <2>1
    <3> QED BY <2>1, <2>6, <3>1, <3>2, <3>3
  <2> QED BY <2>1, <2>5, <2>6
<1>7. CASE PumpSend
  BY <1>7 DEF PumpSend, device, session
<1>8. CASE PumpAwaitExit
  BY <1>8 DEF PumpAwaitExit, device, session, browser
<1>9. CASE PumpReport
  BY <1>9 DEF PumpReport, device, session
<1>10. CASE PumpCancel
  BY <1>10 DEF PumpCancel, device, session, browser
<1>11. CASE Leave
  BY <1>11 DEF Leave, device, browser
<1>12. CASE SlaveCloses
  BY <1>12 DEF SlaveCloses, session, pumping, browser
<1>13. CASE ProgramReads \/ ShellExits \/ Disconnect
  BY <1>13, <1>1 DEF ProgramReads, ShellExits, Disconnect, device, session, pumping, browser
<1>14. CASE HandlerNext /\ ~Leave
  BY <1>14, <1>1 DEF HandlerNext, ReceiveInput, ReceiveInvalid, ReceiveClose, WriteInput,
                     WriteDone, SignalEscalates, Terminated, Gather, device, session,
                     pumping, browser
<1>15. CASE UNCHANGED vars
  BY <1>15, <1>1 DEF vars, device, session, pumping, browser
<1> QED
  BY <1>2, <1>3, <1>4, <1>5, <1>6, <1>7, <1>8, <1>9, <1>10, <1>11, <1>12, <1>13, <1>14, <1>15
     DEF Next, ProgramsNext, ReaderNext, PumpNext

LEMMA NextStreamInv == StreamInv /\ [Next]_vars => StreamInv'
BY NextTypeOK, NextFlowInv, NextEndInv DEF StreamInv

(* The steps of the terminal are steps of the stream it implements.        *)
LEMMA InitImplements == Init => Stream!Init
BY DEF Init, Stream!Init

LEMMA NextImplements == StreamInv /\ [Next]_vars => [Stream!Next]_(Stream!vars)
<1> SUFFICES ASSUME StreamInv, [Next]_vars PROVE [Stream!Next]_(Stream!vars)
  OBVIOUS
<1> USE DEF Stream!vars, Stream!Next
<1>0. produced \in Nat /\ received \in Seq(Pieces) /\ chunk \in Seq(Pieces)
  BY DEF StreamInv, TypeOK
<1>1. CASE UNCHANGED <<produced, received, ended, faulty>>
  BY <1>1
<1>2. CASE ProgramWrites
  BY <1>2 DEF ProgramWrites, session, browser, Stream!Produce
<1>3. CASE ReadError
  BY <1>3 DEF ReadError, device, browser, Stream!Fault
<1>4. CASE PumpSend
  <2>1. /\ pump = "sending" /\ ~ended
        /\ UNCHANGED <<produced, ended, faulty>>
        /\ received' \in {received, received \o chunk}
    BY <1>4 DEF PumpSend, device, session, StreamInv, EndInv
  <2>2. CASE received' = received
    BY <2>1, <2>2
  <2>3. CASE received' = received \o chunk
    <3>1. /\ Run(received, 0, Len(received)) /\ Run(chunk, Len(received), Sent)
          /\ Sent \in Nat /\ Sent <= produced
      BY <1>0, <2>1 DEF StreamInv, FlowInv, Sent, Unread, TypeOK
    <3>2. Run(received', 0, Sent)
      BY <1>0, <2>3, <3>1, RunJoin
    <3>3. /\ DOMAIN received' = 1 .. Sent
          /\ received' = [i \in DOMAIN received' |-> received'[i]]
      <4>1. received' \in Seq(Pieces) /\ Len(received') = Len(received) + Len(chunk)
        BY <1>0, <2>3
      <4> QED BY <4>1 DEF Sent
    <3>4. \A i \in 1 .. Sent : received'[i] = i
      BY <3>1, <3>2, <1>0 DEF Run
    <3>5. received' = [i \in 1 .. Sent |-> i]
      BY <3>3, <3>4
    <3>6. CASE Len(chunk) = 0
      BY <3>6, <1>0, <2>1, <2>3
    <3>7. CASE Len(chunk) # 0
      <4>1. Sent \in (Len(received) + 1) .. produced
        BY <3>1, <3>7, <1>0 DEF Sent
      <4> QED BY <4>1, <3>5, <2>1 DEF Stream!Receive
    <3> QED BY <3>6, <3>7
  <2> QED BY <2>1, <2>2, <2>3
<1>5. CASE PumpReport
  <2>1. /\ pump = "reporting" /\ ~pumpCancelled /\ ~ended
        /\ UNCHANGED <<produced, received, faulty>> /\ ended' \in {ended, TRUE}
    BY <1>5 DEF PumpReport, device, session, StreamInv, EndInv
  <2>2. faulty \/ Len(received) = produced
    BY <2>1 DEF StreamInv, EndInv, Healthy
  <2> QED BY <2>1, <2>2 DEF Stream!Finish
<1>6. CASE UNCHANGED vars
  BY <1>6 DEF vars, device, session, browser
<1> QED
  BY <1>1, <1>2, <1>3, <1>4, <1>5, <1>6
     DEF Next, ProgramsNext, ReaderNext, PumpNext, HandlerNext, ProgramReads, ShellExits,
         SlaveCloses, Disconnect, ReadChunk, ReadEof, PumpRead, PumpAwaitExit, PumpCancel,
         ReceiveInput, ReceiveInvalid, ReceiveClose, WriteInput, WriteDone, Leave,
         SignalEscalates, Terminated, Gather, device, session, pumping, browser

(***************************************************************************)
(* The terminal implements the stream it promises to the browser: output   *)
(* arrives in order and without gaps, and the exit message after all of    *)
(* it, whatever the sizes of the queue and of the kernel's buffers.        *)
(***************************************************************************)
THEOREM Implements == Spec => StreamSpec
BY InitImplements, NextImplements, InitStreamInv, NextStreamInv, PTL
   DEF Spec, StreamSpec, Stream!Spec

-----------------------------------------------------------------------------
(* From the chain to NothingLost.                                          *)

\* The chain can be extended at its front too.
LEMMA ChainPrepend ==
    ASSUME NEW q \in Seq(Seq(Pieces)), NEW from \in Nat, NEW mid \in Nat, NEW to \in Nat,
           NEW s \in Seq(Pieces), Run(s, from, mid), mid <= to, Chain(q, mid, to)
    PROVE  Chain(<<s>> \o q, from, to)
<1>1. PICK b \in [0 .. Len(q) -> mid .. to] : Bounds(q, mid, to, b)
  BY DEF Chain
<1> DEFINE n == Len(q)
           c == [k \in 0 .. (n + 1) |-> IF k = 0 THEN from ELSE b[k - 1]]
<1>2. n \in Nat /\ from <= mid
  <2>1. Len(s) \in Nat /\ mid = from + Len(s)
    BY DEF Run
  <2> QED BY <2>1
<1>3. Len(<<s>> \o q) = n + 1
  OBVIOUS
<1>4. c[0] = from /\ \A k \in 1 .. (n + 1) : c[k] = b[k - 1] /\ k - 1 \in 0 .. n
  BY <1>2
<1>5. c \in [0 .. (n + 1) -> from .. to]
  <2>1. ASSUME NEW k \in 0 .. (n + 1) PROVE c[k] \in from .. to
    <3>1. CASE k = 0
      BY <3>1, <1>2, <1>4
    <3>2. CASE k # 0
      <4>1. k \in 1 .. (n + 1)
        BY <3>2, <1>2
      <4>2. c[k] = b[k - 1] /\ b[k - 1] \in mid .. to
        BY <4>1, <1>4, <1>1
      <4> HIDE DEF c
      <4> QED BY <4>2, <1>2
    <3> QED BY <3>1, <3>2
  <2> QED BY <2>1
<1> HIDE DEF c
<1>6. c[1] = mid /\ c[n + 1] = to
  <2>1. 1 \in 1 .. (n + 1) /\ n + 1 \in 1 .. (n + 1) /\ (n + 1) - 1 = n /\ 1 - 1 = 0
    BY <1>2
  <2> QED BY <2>1, <1>1, <1>4 DEF Bounds
<1>7. ASSUME NEW k \in 1 .. (n + 1) PROVE Run((<<s>> \o q)[k], c[k - 1], c[k])
  <2>1. CASE k = 1
    <3>1. (<<s>> \o q)[k] = s /\ k - 1 = 0
      BY <2>1
    <3> QED BY <2>1, <3>1, <1>4, <1>6
  <2>2. CASE k # 1
    <3>1. k - 1 \in 1 .. n /\ k - 1 \in 1 .. (n + 1) /\ (<<s>> \o q)[k] = q[k - 1]
      BY <2>2, <1>2
    <3>2. c[k - 1] = b[(k - 1) - 1] /\ c[k] = b[k - 1]
      BY <3>1, <1>4
    <3> QED BY <3>1, <3>2, <1>1 DEF Bounds
  <2> QED BY <2>1, <2>2
<1>8. ASSUME NEW j \in 0 .. (n + 1), NEW k \in 0 .. (n + 1), j <= k PROVE c[j] <= c[k]
  <2>1. CASE j = 0
    BY <2>1, <1>2, <1>4, <1>5
  <2>2. CASE j # 0
    <3>1. j \in 1 .. (n + 1) /\ k \in 1 .. (n + 1) /\ j - 1 <= k - 1
      BY <2>2, <1>2, <1>8
    <3> QED BY <3>1, <1>1, <1>4 DEF Bounds
  <2> QED BY <2>1, <2>2
<1>9. Bounds(<<s>> \o q, from, to, c)
  BY <1>3, <1>4, <1>5, <1>6, <1>7, <1>8 DEF Bounds
<1> QED BY <1>3, <1>5, <1>9 DEF Chain

LEMMA LeastNatural ==
    ASSUME NEW T, T \subseteq Nat, T # {}
    PROVE  \E x \in T : \A y \in T : x <= y
<1>1. PICK x \in T : \A y \in T : ~ (<<y, x>> \in OpToRel(<, Nat))
  BY NatLessThanWellFounded, WFMin
<1>2. ASSUME NEW y \in T PROVE x <= y
  <2>1. ~ (y < x)
    BY <1>1 DEF OpToRel
  <2> QED BY <2>1
<1> QED BY <1>2

(***************************************************************************)
(* A chain from 0 to n holds the pieces 1 .. n, each once and in order.    *)
(***************************************************************************)
LEMMA ChainIsComplete ==
    ASSUME NEW q \in Seq(Seq(Pieces)), NEW to \in Nat, Chain(q, 0, to)
    PROVE  /\ \A k \in 1 .. Len(q) : Len(q[k]) <= to
           /\ \A k \in 1 .. Len(q) : \A i \in 1 .. Len(q[k]) : q[k][i] \in 1 .. to
           /\ \A k, l \in 1 .. Len(q) :
                  \A i \in 1 .. Len(q[k]), j \in 1 .. Len(q[l]) :
                      k < l \/ (k = l /\ i < j) => q[k][i] < q[l][j]
           /\ \A x \in 1 .. to :
                  \E k \in 1 .. Len(q) : \E i \in 1 .. Len(q[k]) : q[k][i] = x
<1>1. PICK b \in [0 .. Len(q) -> 0 .. to] : Bounds(q, 0, to, b)
  BY DEF Chain
<1>2. Len(q) \in Nat
  OBVIOUS
<1>3. ASSUME NEW k \in 1 .. Len(q)
      PROVE  /\ b[k - 1] \in Nat /\ b[k] \in Nat /\ Len(q[k]) \in Nat
             /\ b[k] <= to /\ b[k] = b[k - 1] + Len(q[k])
             /\ \A i \in 1 .. Len(q[k]) : q[k][i] = b[k - 1] + i
  <2>1. k \in 0 .. Len(q) /\ k - 1 \in 0 .. Len(q)
    BY <1>2
  <2>2. b[k] \in 0 .. to /\ b[k - 1] \in 0 .. to
    BY <1>1, <2>1
  <2>3. Run(q[k], b[k - 1], b[k])
    BY <1>1 DEF Bounds
  <2>4. Len(q[k]) \in Nat
    OBVIOUS
  <2> QED BY <2>2, <2>3, <2>4 DEF Run
<1>4. ASSUME NEW k \in 1 .. Len(q) PROVE Len(q[k]) <= to
  BY <1>3
<1>5. ASSUME NEW k \in 1 .. Len(q), NEW i \in 1 .. Len(q[k])
      PROVE  q[k][i] \in 1 .. to /\ q[k][i] <= b[k] /\ q[k][i] > b[k - 1]
  <2>1. q[k][i] = b[k - 1] + i
    BY <1>3
  <2>2. i \in Nat /\ 1 <= i /\ i <= Len(q[k])
    BY <1>3
  <2>3. ASSUME NEW u \in Nat, NEW n \in Nat, NEW v \in Nat, v = u + n, v <= to, i <= n
        PROVE  u + i \in 1 .. to /\ u + i <= v /\ u + i > u
    BY <2>2, <2>3
  <2>4. b[k - 1] + i \in 1 .. to /\ b[k - 1] + i <= b[k] /\ b[k - 1] + i > b[k - 1]
    BY <2>2, <2>3, <1>3
  <2> QED BY <2>1, <2>4
<1>6. ASSUME NEW k \in 1 .. Len(q), NEW l \in 1 .. Len(q),
             NEW i \in 1 .. Len(q[k]), NEW j \in 1 .. Len(q[l]),
             k < l \/ (k = l /\ i < j)
      PROVE  q[k][i] < q[l][j]
  <2>1. CASE k = l /\ i < j
    <3>1. q[k][i] = b[k - 1] + i /\ q[l][j] = b[k - 1] + j
      BY <2>1, <1>3
    <3>2. i \in Nat /\ j \in Nat /\ b[k - 1] \in Nat
      BY <1>3
    <3> QED BY <2>1, <3>1, <3>2
  <2>2. CASE k < l
    <3>1. k \in 0 .. Len(q) /\ l - 1 \in 0 .. Len(q) /\ k <= l - 1
      BY <1>2, <2>2
    <3>2. b[k] <= b[l - 1]
      BY <1>1, <3>1 DEF Bounds
    <3>3. q[k][i] \in 1 .. to /\ q[k][i] <= b[k]
      BY <1>5
    <3>4. q[l][j] \in 1 .. to /\ q[l][j] > b[l - 1]
      BY <1>5
    <3>5. b[k] \in Nat
      BY <1>3
    <3>6. b[l - 1] \in Nat
      BY <1>3
    <3>7. ASSUME NEW u \in Nat, NEW v \in Nat, NEW x \in Nat, NEW y \in Nat,
                 x <= u, u <= v, y > v
          PROVE  x < y
      BY <3>7
    <3>8. \A z \in 1 .. to : z \in Nat
      OBVIOUS
    <3>9. q[k][i] \in Nat
      BY <3>3, <3>8, Zenon
    <3>10. q[l][j] \in Nat
      BY <3>4, <3>8, Zenon
    <3>11. q[k][i] <= b[k] /\ q[l][j] > b[l - 1]
      BY <3>3, <3>4
    <3> QED BY <3>2, <3>5, <3>6, <3>7, <3>9, <3>10, <3>11
  <2> QED BY <1>6, <2>1, <2>2
<1>7. ASSUME NEW x \in 1 .. to
      PROVE  \E k \in 1 .. Len(q) : \E i \in 1 .. Len(q[k]) : q[k][i] = x
  <2> DEFINE T == {k \in 0 .. Len(q) : x <= b[k]}
  <2>1. T \subseteq Nat /\ Len(q) \in T
    BY <1>1, <1>2 DEF Bounds
  <2>2. PICK k \in T : \A y \in T : k <= y
    BY <2>1, LeastNatural
  <2>3. k \in 1 .. Len(q)
    <3>1. b[0] = 0
      BY <1>1 DEF Bounds
    <3> QED BY <2>2, <3>1
  <2>4. b[k - 1] < x /\ x <= b[k]
    <3>1. k - 1 \in 0 .. Len(q) /\ k - 1 \notin T
      <4>1. k - 1 \in 0 .. Len(q) /\ ~ (k <= k - 1)
        BY <2>3, <1>2
      <4> QED BY <4>1, <2>2
    <3>2. ~ (x <= b[k - 1])
      BY <3>1
    <3> QED BY <2>2, <2>3, <3>2, <1>3
  <2>5. x - b[k - 1] \in 1 .. Len(q[k]) /\ b[k - 1] + (x - b[k - 1]) = x
    BY <2>3, <2>4, <1>3, SMTT(20)
  <2>6. q[k][x - b[k - 1]] = x
    BY <2>3, <2>5, <1>3
  <2> QED BY <2>3, <2>5, <2>6
<1> QED BY <1>4, <1>5, <1>6, <1>7

LEMMA PlacesChain ==
    ASSUME StreamInv, pump \in {"reading", "sending"}
    PROVE  Places \in Seq(Seq(Pieces)) /\ Chain(Places, 0, produced)
<1>0. /\ produced \in Nat
      /\ outBuf \in Seq(Pieces) /\ received \in Seq(Pieces) /\ chunk \in Seq(Pieces)
      /\ readQueue \in Seq(Seq(Pieces))
      /\ Sent \in Nat /\ Unread \in Nat /\ Sent <= Unread
  BY DEF StreamInv, TypeOK, FlowInv, Sent, Unread
<1>1. /\ Run(received, 0, Len(received)) /\ Len(received) \in Nat
      /\ Run(chunk, Len(received), Sent) /\ Len(received) <= Unread
      /\ Run(outBuf, Unread, produced) /\ Unread <= produced
  BY <1>0 DEF StreamInv, TypeOK, FlowInv, Sent, Unread
<1> DEFINE p == <<chunk>> \o readQueue
           r == <<received>> \o p
<1>2. p \in Seq(Seq(Pieces)) /\ r \in Seq(Seq(Pieces))
  BY <1>0
<1>3. Chain(p, Len(received), Unread)
  BY <1>0, <1>1, ChainPrepend DEF StreamInv, FlowInv
<1> HIDE DEF p
<1>4. Chain(r, 0, Unread)
  BY <1>0, <1>1, <1>2, <1>3, ChainPrepend
<1> HIDE DEF r
<1>5. Append(r, outBuf) \in Seq(Seq(Pieces)) /\ Chain(Append(r, outBuf), 0, produced)
  BY <1>0, <1>1, <1>2, <1>4, ChainAppend
<1>6. Places = Append(r, outBuf)
  BY <1>0, SMTT(20) DEF Places, p, r
<1> QED BY <1>5, <1>6

(***************************************************************************)
(* Flow control loses, repeats and reorders nothing, whatever the sizes of *)
(* the queue and of the kernel's buffers, and even after an error of the   *)
(* device: what has been read is delivered before the pump stops.          *)
(***************************************************************************)
THEOREM OutputIsKept == Spec => []NothingLost
<1>1. ASSUME StreamInv PROVE NothingLost
  <2>1. TypeOK
    BY <1>1 DEF StreamInv
  <2>2. ASSUME pump \in {"reading", "sending"}
        PROVE  /\ \A k \in 1 .. Len(Places) : Len(Places[k]) <= produced
               /\ \A p, q \in Positions : Before(p, q) => PieceAt(p) < PieceAt(q)
               /\ {PieceAt(p) : p \in Positions} = 1 .. produced
    <3>1. Places \in Seq(Seq(Pieces)) /\ Chain(Places, 0, produced) /\ produced \in Nat
      BY <1>1, <2>1, <2>2, PlacesChain DEF TypeOK
    <3> DEFINE places == Places
    <3>2. places \in Seq(Seq(Pieces)) /\ Chain(places, 0, produced)
      BY <3>1
    <3> HIDE DEF places
    <3>3. /\ \A k \in 1 .. Len(places) : Len(places[k]) <= produced
          /\ \A k \in 1 .. Len(places) :
                 \A i \in 1 .. Len(places[k]) : places[k][i] \in 1 .. produced
          /\ \A k, l \in 1 .. Len(places) :
                 \A i \in 1 .. Len(places[k]), j \in 1 .. Len(places[l]) :
                     k < l \/ (k = l /\ i < j) => places[k][i] < places[l][j]
          /\ \A x \in 1 .. produced :
                 \E k \in 1 .. Len(places) : \E i \in 1 .. Len(places[k]) : places[k][i] = x
      BY <3>1, <3>2, ChainIsComplete
    <3>4. \A p \in Positions : /\ p[1] \in 1 .. Len(places)
                               /\ p[2] \in 1 .. Len(places[p[1]])
                               /\ PieceAt(p) = places[p[1]][p[2]]
      BY <3>1, <3>2 DEF Positions, PieceAt, places
    <3>5. \A k \in 1 .. Len(places) : \A i \in 1 .. Len(places[k]) :
              <<k, i>> \in Positions /\ PieceAt(<<k, i>>) = places[k][i]
      <4>1. ASSUME NEW k \in 1 .. Len(places), NEW i \in 1 .. Len(places[k])
            PROVE  i \in 1 .. produced /\ i <= Len(places[k])
        <5>1. Len(places[k]) \in Nat /\ Len(places[k]) <= produced
          BY <3>2, <3>3
        <5> QED BY <5>1, <3>1
      <4> QED BY <4>1 DEF Positions, PieceAt, places
    <3>6. ASSUME NEW p \in Positions, NEW q \in Positions, Before(p, q)
          PROVE  PieceAt(p) < PieceAt(q)
      <4>1. /\ p[1] \in 1 .. Len(places) /\ p[2] \in 1 .. Len(places[p[1]])
            /\ PieceAt(p) = places[p[1]][p[2]]
        BY <3>4
      <4>2. /\ q[1] \in 1 .. Len(places) /\ q[2] \in 1 .. Len(places[q[1]])
            /\ PieceAt(q) = places[q[1]][q[2]]
        BY <3>4
      <4>3. p[1] < q[1] \/ (p[1] = q[1] /\ p[2] < q[2])
        BY <3>6 DEF Before
      <4>4. places[p[1]][p[2]] < places[q[1]][q[2]]
        BY <4>1, <4>2, <4>3, <3>3
      <4> QED BY <4>1, <4>2, <4>4
    <3>7. {PieceAt(p) : p \in Positions} = 1 .. produced
      <4>1. ASSUME NEW x \in 1 .. produced PROVE \E p \in Positions : PieceAt(p) = x
        <5>1. PICK k \in 1 .. Len(places) : \E i \in 1 .. Len(places[k]) : places[k][i] = x
          BY <3>3
        <5>2. PICK i \in 1 .. Len(places[k]) : places[k][i] = x
          BY <5>1
        <5> QED BY <5>2, <3>5
      <4>2. \A p \in Positions : PieceAt(p) \in 1 .. produced
        BY <3>3, <3>4
      <4> QED BY <4>1, <4>2
    <3> QED BY <3>3, <3>6, <3>7 DEF places
  <2> QED BY <2>1, <2>2 DEF NothingLost
<1> QED BY <1>1, InitStreamInv, NextStreamInv, PTL DEF Spec

=============================================================================
