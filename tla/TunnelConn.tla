---------------------------- MODULE TunnelConn ----------------------------
(***************************************************************************)
(* tunnelConn, the client's net.Conn over the HTTP tunnel: Write hands its *)
(* bytes to pumpWrite, which batches them into POST requests and           *)
(* acknowledges them; pumpRead moves the download stream into readCh for   *)
(* Read; Close runs once.  Callers, the two pumps, the timer, the HTTP     *)
(* exchanges and the closing goroutine interleave.                         *)
(*                                                                         *)
(* A Write is a number and a size, the unit of size being such that        *)
(* MaxBatch of them make maxBatchBytes.  Writes are never empty: neither   *)
(* io.Copy nor the resolver makes one.  The server is reduced to whether   *)
(* it still holds the connection.                                          *)
(***************************************************************************)
EXTENDS Naturals, Sequences, SequencesExt

CONSTANTS
  WriteCaller, \* goroutines that call Write
  none,       \* no Write in progress
  MaxWrites,  \* bound on the Writes of a connection
  WriteCap,   \* capacity of writeCh; 64 in the code
  MaxBatch,   \* maxBatchBytes
  MaxChunks,  \* bound on the chunks of the download stream
  ChunkLen,   \* bytes of a chunk
  ReadCap     \* capacity of readCh; 16 in the code

ASSUME TunnelConnAssumption ==
  /\ MaxWrites \in Nat /\ WriteCap \in Nat \ {0} /\ MaxBatch \in Nat \ {0}
  /\ MaxChunks \in Nat /\ ChunkLen \in Nat \ {0} /\ ReadCap \in Nat \ {0}
  /\ none \notin 1 .. MaxWrites

VARIABLES
  writing,    \* the Write each writer is in, or none
  accepted,   \* history: the Writes that entered writeCh, in order
  writeCh,    \* Writes waiting for pumpWrite
  size,       \* bytes of each Write; 0 before it is made
  ack,        \* the channel of each writeReq: "empty", "ok" or "err"
  result,     \* what Write returned: "none", "ok" or "err"
  pumpW,      \* program counter of pumpWrite
  batch,      \* the Writes in batch and acks
  timer,      \* the flush timer is set
  server,     \* the server holds the connection: "open" or "closed"
  delivered,  \* history: the Writes the server passed to the target
  once,       \* closeOnce: "new", "conn", "stream" or "done"
  stream,     \* the download stream: "open" or "ended"
  pumpR,      \* program counter of pumpRead
  nread,      \* chunks pumpRead took from the stream
  readCh,     \* chunks waiting for Read
  readClosed, \* close(readCh) has happened
  readBuf,    \* bytes of a chunk that Read has not returned yet
  reading,    \* the caller of Read: "idle", "wait" or "eof"
  received    \* history: the bytes Read returned

vars == <<writing, accepted, writeCh, size, ack, result, pumpW, batch, timer,
          delivered, server, once, stream, pumpR, nread, readCh, readClosed,
          readBuf, reading, received>>

(* What the steps of each party leave alone.                                *)
writeRest == <<ack, pumpW, batch, timer, delivered, server, once, stream,
               pumpR, nread, readCh, readClosed, readBuf, reading, received>>
pumpWRest == <<writing, accepted, size, result, once, stream, pumpR, nread,
               readCh, readClosed, readBuf, reading, received>>
pumpRRest == <<writing, accepted, writeCh, size, ack, result, pumpW, batch,
               timer, delivered, server, once, stream, readBuf, reading,
               received>>
readRest == <<writing, accepted, writeCh, size, ack, result, pumpW, batch,
              timer, delivered, server, once, stream, pumpR, nread,
              readClosed>>
closeRest == <<writing, accepted, writeCh, size, ack, result, pumpW, batch,
               timer, delivered, pumpR, nread, readCh, readClosed, readBuf,
               reading, received>>

Write == 1 .. MaxWrites
closed == once # "new"    \* closeCh is closed

TypeOK ==
  /\ writing \in [WriteCaller -> Write \cup {none}]
  /\ accepted \in Seq(Write) /\ writeCh \in Seq(Write) /\ batch \in Seq(Write)
  /\ size \in [Write -> 0 .. MaxBatch]
  /\ ack \in [Write -> {"empty", "ok", "err"}]
  /\ result \in [Write -> {"none", "ok", "err"}]
  /\ pumpW \in {"select", "send", "last", "close", "done"}
  /\ timer \in BOOLEAN
  /\ server \in {"open", "closed"}
  /\ delivered \in Seq(Write)
  /\ once \in {"new", "conn", "stream", "done"}
  /\ stream \in {"open", "ended"}
  /\ pumpR \in {"check", "read", "push", "done"}
  /\ nread \in 0 .. MaxChunks
  /\ readCh \in Seq(1 .. MaxChunks) /\ readClosed \in BOOLEAN
  /\ Len(writeCh) <= WriteCap /\ Len(readCh) <= ReadCap
  /\ readBuf \in Seq(Nat) /\ received \in Seq(Nat)
  /\ reading \in {"idle", "wait", "eof"}

(* newTunnelConn, once the download stream is open.                        *)
Init ==
  /\ writing = [w \in WriteCaller |-> none]
  /\ accepted = <<>> /\ writeCh = <<>> /\ batch = <<>> /\ delivered = <<>>
  /\ size = [n \in Write |-> 0]
  /\ ack = [n \in Write |-> "empty"]
  /\ result = [n \in Write |-> "none"]
  /\ pumpW = "select" /\ timer = FALSE
  /\ server = "open" /\ once = "new" /\ stream = "open"
  /\ pumpR = "check" /\ nread = 0
  /\ readCh = <<>> /\ readClosed = FALSE /\ readBuf = <<>>
  /\ reading = "idle" /\ received = <<>>

-----------------------------------------------------------------------------
(* Write.                                                                  *)

(* Write(b) is called.                                                     *)
WriteCall(w) ==
  /\ writing[w] = none
  /\ \E n \in Write, s \in {1, MaxBatch} :
       /\ size[n] = 0 /\ \A m \in 1 .. n - 1 : size[m] # 0
       /\ size' = [size EXCEPT ![n] = s]
       /\ writing' = [writing EXCEPT ![w] = n]
  /\ UNCHANGED <<accepted, writeCh, result>> /\ UNCHANGED writeRest

(* Variant: writeCh takes one request more than its capacity.              *)
WriteEnqueue_Over(w) ==
  /\ writing[w] # none
  /\ writing[w] \notin ToSet(accepted)
  /\ Len(writeCh) <= WriteCap
  /\ writeCh' = Append(writeCh, writing[w])
  /\ accepted' = Append(accepted, writing[w])
  /\ UNCHANGED <<writing, size, result>> /\ UNCHANGED writeRest

(* tc.writeCh <- req.                                                      *)
WriteEnqueue(w) ==
  /\ writing[w] # none
  /\ writing[w] \notin ToSet(accepted)
  /\ Len(writeCh) < WriteCap
  /\ writeCh' = Append(writeCh, writing[w])
  /\ accepted' = Append(accepted, writing[w])
  /\ UNCHANGED <<writing, size, result>> /\ UNCHANGED writeRest

(* The acknowledgement arrives.                                            *)
WriteAcked(w) ==
  /\ writing[w] # none
  /\ ack[writing[w]] # "empty"
  /\ result' = [result EXCEPT ![writing[w]] = ack[writing[w]]]
  /\ writing' = [writing EXCEPT ![w] = none]
  /\ UNCHANGED <<accepted, writeCh, size>> /\ UNCHANGED writeRest

(* <-tc.closeCh in either select: io.EOF.                                  *)
WriteEOF(w) ==
  /\ writing[w] # none
  /\ closed
  /\ result' = [result EXCEPT ![writing[w]] = "err"]
  /\ writing' = [writing EXCEPT ![w] = none]
  /\ UNCHANGED <<accepted, writeCh, size>> /\ UNCHANGED writeRest

-----------------------------------------------------------------------------
(* pumpWrite.                                                              *)

batchLen(b) == FoldSeq(LAMBDA n, sum : size[n] + sum, 0, b)

(* Variant: a small batch waits for more without a timer.                  *)
PumpTake_NoTimer ==
  /\ pumpW = "select"
  /\ writeCh # <<>>
  /\ batch' = Append(batch, Head(writeCh))
  /\ writeCh' = Tail(writeCh)
  /\ pumpW' = IF batchLen(batch') >= MaxBatch THEN "send" ELSE pumpW
  /\ UNCHANGED <<ack, timer, delivered, server>> /\ UNCHANGED pumpWRest

(* case req := <-tc.writeCh.                                               *)
PumpTake ==
  /\ pumpW = "select"
  /\ writeCh # <<>>
  /\ batch' = Append(batch, Head(writeCh))
  /\ writeCh' = Tail(writeCh)
  /\ IF batchLen(batch') >= MaxBatch
     THEN pumpW' = "send" /\ UNCHANGED timer
     ELSE timer' = TRUE /\ UNCHANGED pumpW
  /\ UNCHANGED <<ack, delivered, server>> /\ UNCHANGED pumpWRest

(* case <-timerC.                                                          *)
PumpTimer ==
  /\ pumpW = "select"
  /\ timer
  /\ pumpW' = "send"
  /\ UNCHANGED <<writeCh, ack, batch, timer, delivered, server>>
  /\ UNCHANGED pumpWRest

(* case <-tc.closeCh: what is in the batch is still sent.                  *)
PumpClosed ==
  /\ pumpW = "select"
  /\ closed
  /\ pumpW' = IF batch = <<>> THEN "done" ELSE "last"
  /\ UNCHANGED <<writeCh, ack, batch, timer, delivered, server>>
  /\ UNCHANGED pumpWRest

(* Variant: the batch is kept after it was acknowledged.                   *)
flush_KeepBatch(a) ==
  /\ ack' = [n \in Write |-> IF n \in ToSet(batch) THEN a ELSE ack[n]]
  /\ batch' = batch
  /\ timer' = FALSE

flush(a) ==
  /\ ack' = [n \in Write |-> IF n \in ToSet(batch) THEN a ELSE ack[n]]
  /\ batch' = <<>>
  /\ timer' = FALSE

(* The POST of SendData reaches the server, which writes the bytes to the  *)
(* target if it holds the connection, and lets go of the connection when   *)
(* the target took only some of them.  It says "ok" in any case.           *)
deliver ==
  \/ /\ server = "open"
     /\ delivered' = delivered \o batch
     /\ UNCHANGED server
  \/ /\ server = "open"
     /\ \E k \in 0 .. Len(batch) - 1 : delivered' = delivered \o SubSeq(batch, 1, k)
     /\ server' = "closed"
  \/ /\ server = "closed"
     /\ UNCHANGED <<delivered, server>>

(* Variant: a failed exchange is acknowledged like one that succeeded.     *)
PumpSendError_AckOk ==
  /\ pumpW \in {"send", "last"}
  /\ deliver \/ UNCHANGED <<delivered, server>>
  /\ flush("ok")
  /\ pumpW' = "close"
  /\ UNCHANGED writeCh /\ UNCHANGED pumpWRest

(* sendBatch, SendData returning nil.                                      *)
PumpSent ==
  /\ pumpW \in {"send", "last"}
  /\ deliver
  /\ flush("ok")
  /\ pumpW' = IF pumpW = "send" THEN "select" ELSE "done"
  /\ UNCHANGED writeCh /\ UNCHANGED pumpWRest

(* sendBatch, SendData returning an error: the request or only its answer  *)
(* was lost; tc.Close() follows.                                           *)
PumpSendError ==
  /\ pumpW \in {"send", "last"}
  /\ deliver \/ UNCHANGED <<delivered, server>>
  /\ flush("err")
  /\ pumpW' = "close"
  /\ UNCHANGED writeCh /\ UNCHANGED pumpWRest

-----------------------------------------------------------------------------
(* Close: the first caller runs the function, the others wait for its end. *)

CloseStart ==
  /\ once = "new"
  /\ once' = "conn"
  /\ UNCHANGED <<server, stream>> /\ UNCHANGED closeRest

(* transport.CloseConn: its error is ignored.                              *)
CloseConn ==
  /\ once = "conn"
  /\ server' = "closed" \/ UNCHANGED server
  /\ once' = "stream"
  /\ UNCHANGED stream /\ UNCHANGED closeRest

(* tc.reader.Close().                                                      *)
CloseStream ==
  /\ once = "stream"
  /\ stream' = "ended"
  /\ once' = "done"
  /\ UNCHANGED server /\ UNCHANGED closeRest

(* pumpWrite's own call of Close returns.                                  *)
PumpClosedConn ==
  /\ pumpW = "close"
  /\ once = "done"
  /\ pumpW' = "done"
  /\ UNCHANGED <<writeCh, ack, batch, timer, delivered, server>>
  /\ UNCHANGED pumpWRest

-----------------------------------------------------------------------------
(* pumpRead.                                                               *)

(* The closeCh test at the head of the loop.                               *)
PumpCheck ==
  /\ pumpR = "check"
  /\ pumpR' = IF closed THEN "done" ELSE "read"
  /\ UNCHANGED <<nread, readCh, readClosed>> /\ UNCHANGED pumpRRest

(* tc.reader.Read returns the bytes of the next frame.                     *)
PumpRead ==
  /\ pumpR = "read"
  /\ stream = "open"
  /\ nread < MaxChunks
  /\ nread' = nread + 1
  /\ pumpR' = "push"
  /\ UNCHANGED <<readCh, readClosed>> /\ UNCHANGED pumpRRest

(* Variant: pumpRead waits for room in readCh, Close or not.               *)
PumpPush_Wait ==
  /\ pumpR = "push"
  /\ Len(readCh) < ReadCap
  /\ readCh' = Append(readCh, nread)
  /\ pumpR' = "check"
  /\ UNCHANGED <<nread, readClosed>> /\ UNCHANGED pumpRRest

(* tc.readCh <- dup, or <-tc.closeCh.                                      *)
PumpPush ==
  /\ pumpR = "push"
  /\ \/ /\ Len(readCh) < ReadCap
        /\ readCh' = Append(readCh, nread)
        /\ pumpR' = "check"
     \/ /\ closed
        /\ pumpR' = "done"
        /\ UNCHANGED readCh
  /\ UNCHANGED <<nread, readClosed>> /\ UNCHANGED pumpRRest

(* Variant: readCh is never closed.                                        *)
PumpReadError_Silent ==
  /\ pumpR = "read"
  /\ stream = "ended"
  /\ pumpR' = "done"
  /\ UNCHANGED <<nread, readCh, readClosed>> /\ UNCHANGED pumpRRest

(* tc.reader.Read fails: readCh is closed unless closeCh is.               *)
PumpReadError ==
  /\ pumpR = "read"
  /\ stream = "ended"
  /\ readClosed' = ~closed
  /\ pumpR' = "done"
  /\ UNCHANGED <<nread, readCh>> /\ UNCHANGED pumpRRest

-----------------------------------------------------------------------------
(* Read.                                                                   *)

Bytes(k) == [i \in 1 .. ChunkLen |-> (k - 1) * ChunkLen + i]

(* copy(b, data), for a b of length len: what it returns and what is left. *)
Take(data, len) == SubSeq(data, 1, len)
Rest(data, len) == SubSeq(data, len + 1, Len(data))

ReadCall ==
  /\ reading = "idle"
  /\ reading' = "wait"
  /\ UNCHANGED <<readCh, readBuf, received>> /\ UNCHANGED readRest

(* Variant: the remainder of a chunk is forgotten.                         *)
Return_Forget(data, len) ==
  /\ received' = received \o Take(data, len)
  /\ readBuf' = <<>>
  /\ reading' = "idle"

Return(data, len) ==
  /\ received' = received \o Take(data, len)
  /\ readBuf' = Rest(data, len)
  /\ reading' = "idle"

(* Read returns bytes of readBuf, or of the next chunk of readCh.          *)
ReadData(len) ==
  /\ reading = "wait"
  /\ IF readBuf # <<>>
     THEN /\ len <= Len(readBuf)
          /\ Return(readBuf, len)
          /\ UNCHANGED readCh
     ELSE /\ readCh # <<>>
          /\ Return(Bytes(Head(readCh)), len)
          /\ readCh' = Tail(readCh)
  /\ UNCHANGED readRest

(* readCh is closed and drained: io.EOF.                                   *)
ReadEOF ==
  /\ reading = "wait"
  /\ readBuf = <<>> /\ readCh = <<>> /\ readClosed
  /\ reading' = "eof"
  /\ UNCHANGED <<readCh, readBuf, received>> /\ UNCHANGED readRest

-----------------------------------------------------------------------------
(* The server lets go of the connection, or the download is cut off.       *)
ServerCloses ==
  /\ server = "open"
  /\ server' = "closed"
  /\ UNCHANGED <<once, stream>> /\ UNCHANGED closeRest

StreamEnds ==
  /\ stream = "open"
  /\ stream' = "ended"
  /\ UNCHANGED <<server, once>> /\ UNCHANGED closeRest

PumpWriteStep ==
  \/ PumpTake \/ PumpTimer \/ PumpClosed
  \/ PumpSent \/ PumpSendError \/ PumpClosedConn

PumpReadStep == PumpCheck \/ PumpRead \/ PumpPush \/ PumpReadError

Next ==
  \/ \E w \in WriteCaller : \/ WriteCall(w) \/ WriteEnqueue(w)
                       \/ WriteAcked(w) \/ WriteEOF(w)
  \/ PumpWriteStep
  \/ CloseStart \/ CloseConn \/ CloseStream
  \/ PumpReadStep
  \/ ReadCall \/ ReadEOF \/ \E len \in 1 .. ChunkLen : ReadData(len)
  \/ ServerCloses \/ StreamEnds

Spec == Init /\ [][Next]_vars

(* Goroutines that can run do run, timers fire, and an HTTP exchange ends  *)
(* with an answer or an error.  The stream owes nothing: PumpRead is left  *)
(* to the server.  Nobody has to call Write, Read or Close, except that    *)
(* pumpWrite closes the connection after an error.                         *)
Fairness ==
  /\ \A w \in WriteCaller : WF_vars(WriteEnqueue(w) \/ WriteAcked(w) \/ WriteEOF(w))
  /\ WF_vars(PumpWriteStep)
  /\ WF_vars(pumpW = "close" /\ CloseStart) /\ WF_vars(CloseConn \/ CloseStream)
  /\ WF_vars(PumpCheck \/ PumpPush \/ PumpReadError)
  /\ WF_vars(ReadEOF \/ \E len \in 1 .. ChunkLen : ReadData(len))

FairSpec == Spec /\ Fairness

-----------------------------------------------------------------------------
(* Properties.                                                             *)

(* Uploads: what reaches the target is a prefix of what entered writeCh,   *)
(* in that order and without a gap or a repetition, through batching,      *)
(* errors, lost answers and Close.                                         *)
UploadInOrder == IsPrefix(delivered, accepted)

(* A Write reports success only if its bytes reached the target or the     *)
(* server had let go of the connection.                                    *)
SuccessMeansSent ==
  \A n \in Write : result[n] = "ok" =>
    n \in ToSet(delivered) \/ server = "closed"

Held == IF pumpR = "push" THEN Bytes(nread) ELSE <<>>

(* Downloads: the bytes returned by Read, those it keeps back and those on *)
(* their way are the stream so far, in order; a chunk in pumpRead's hands  *)
(* is given up by Close only.  Read reports the end of the stream only     *)
(* when it has ended and every byte that pumpRead took from it has been    *)
(* returned, whatever Close does.                                          *)
DownloadInOrder ==
  LET inFlight == received \o readBuf \o FlattenSeq([i \in DOMAIN readCh |->
                                                       Bytes(readCh[i])])
                  \o Held IN
  /\ \A i \in DOMAIN inFlight : inFlight[i] = i
  /\ Len(inFlight) = nread * ChunkLen \/ (pumpR = "done" /\ closed)
  /\ reading = "eof" => stream = "ended" /\ Len(received) = nread * ChunkLen

(* Every Write returns, whatever the server, the network and Close do.     *)
WritesReturn == \A w \in WriteCaller : writing[w] # none ~> writing[w] = none

(* After Close both pumps return and the server has been told.             *)
CloseEndsPumps ==
  closed ~> pumpW = "done" /\ pumpR = "done" /\ once = "done"

(* The end of the stream is not kept from a reader of a connection nobody  *)
(* closed.                                                                 *)
StreamEndReachesReader ==
  stream = "ended" /\ reading = "wait" ~> reading # "wait" \/ closed

(* "tunnelConn implements net.Conn", so Close unblocks a pending Read.     *)
CloseUnblocksRead == closed /\ reading = "wait" ~> reading # "wait"
=============================================================================
