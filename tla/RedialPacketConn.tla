-------------------------- MODULE RedialPacketConn --------------------------
(***************************************************************************)
(* RedialPacketConn, the snowflake client's long-lived packet connection   *)
(* over a sequence of transient ones.  dialLoop dials and runs exchange,   *)
(* whose reader and writer goroutines tell each other and exchange of an   *)
(* error through two unbuffered channels; a goroutine of an old exchange   *)
(* may outlive it.  Callers of ReadFrom, WriteTo and Close interleave.     *)
(*                                                                         *)
(* Transient connections are numbered by dial, packets by direction in the *)
(* order they enter: WriteTo for the way up, the network for the way down. *)
(***************************************************************************)
EXTENDS Naturals, Sequences, SequencesExt

CONSTANTS
  MaxDials,  \* bound on the transient connections
  MaxUp,     \* bound on the calls of WriteTo
  MaxDown,   \* bound on the packets that arrive
  QueueSize  \* queueSize; 32 in the code

ASSUME RedialAssumption ==
  MaxDials \in Nat /\ MaxUp \in Nat /\ MaxDown \in Nat /\ QueueSize \in Nat \ {0}

VARIABLES
  loop,       \* program counter of dialLoop
  cur,        \* the transient connections dialed so far; the last is current
  conn,       \* each of them: "none", "open" or "closed"
  reader,     \* program counter of its reader goroutine
  writer,     \* program counter of its writer goroutine
  rpacket,    \* the packet the reader is about to queue; 0 if none
  wpacket,    \* the packet the writer is writing; 0 if none
  sendQueue, recvQueue,
  err,        \* the stored error: "none", "dial" or "closed"
  sender,     \* the caller of WriteTo: "idle" or "push"
  receiver,   \* the caller of ReadFrom: "idle", "wait" or "failed"
  nup, ndown, \* packets that entered on the way up and on the way down
  sent,       \* history: packets that went out on a transient connection
  received    \* history: packets ReadFrom returned

vars == <<loop, cur, conn, reader, writer, rpacket, wpacket, sendQueue,
          recvQueue, err, sender, receiver, nup, ndown, sent, received>>

(* The packets and their users, and what the steps of an exchange's reader  *)
(* and writer that move a packet, and of the callers, leave alone.          *)
packetState == <<rpacket, wpacket, sendQueue, recvQueue, sender, receiver, nup,
                 ndown, sent, received>>
readerRest == <<loop, cur, conn, wpacket, sendQueue, err, sender, receiver, nup,
                sent, received>>
writerRest == <<loop, cur, conn, rpacket, recvQueue, err, sender, receiver, nup,
                ndown, received>>
callerRest == <<loop, cur, conn, reader, writer, rpacket, wpacket, ndown, sent>>

Dial == 1 .. MaxDials
closed == err # "none"    \* the channel closed is closed

TypeOK ==
  /\ loop \in {"check", "dial", "exchange", "close", "done"}
  /\ cur \in 0 .. MaxDials
  /\ conn \in [Dial -> {"none", "open", "closed"}]
  /\ reader \in [Dial -> {"none", "check", "read", "push", "report", "done"}]
  /\ writer \in [Dial -> {"none", "select", "write", "report", "done"}]
  /\ rpacket \in [Dial -> 0 .. MaxDown]
  /\ wpacket \in [Dial -> 0 .. MaxUp]
  /\ sendQueue \in Seq(1 .. MaxUp) /\ Len(sendQueue) <= QueueSize
  /\ recvQueue \in Seq(1 .. MaxDown) /\ Len(recvQueue) <= QueueSize
  /\ err \in {"none", "dial", "closed"}
  /\ sender \in {"idle", "push"}
  /\ receiver \in {"idle", "wait", "failed"}
  /\ nup \in 0 .. MaxUp /\ ndown \in 0 .. MaxDown
  /\ sent \in Seq(1 .. MaxUp) /\ received \in Seq(1 .. MaxDown)

(* NewRedialPacketConn.                                                    *)
Init ==
  /\ loop = "check" /\ cur = 0
  /\ conn = [s \in Dial |-> "none"]
  /\ reader = [s \in Dial |-> "none"] /\ writer = [s \in Dial |-> "none"]
  /\ rpacket = [s \in Dial |-> 0] /\ wpacket = [s \in Dial |-> 0]
  /\ sendQueue = <<>> /\ recvQueue = <<>>
  /\ err = "none" /\ sender = "idle" /\ receiver = "idle"
  /\ nup = 0 /\ ndown = 0 /\ sent = <<>> /\ received = <<>>

-----------------------------------------------------------------------------
(* dialLoop.                                                               *)

LoopCheck ==
  /\ loop = "check"
  /\ loop' = IF closed THEN "done" ELSE "dial"
  /\ UNCHANGED <<cur, conn, reader, writer, err>> /\ UNCHANGED packetState

(* dialContext returns a connection and exchange starts its goroutines.    *)
DialOk ==
  /\ loop = "dial"
  /\ cur < MaxDials
  /\ cur' = cur + 1
  /\ conn' = [conn EXCEPT ![cur + 1] = "open"]
  /\ reader' = [reader EXCEPT ![cur + 1] = "check"]
  /\ writer' = [writer EXCEPT ![cur + 1] = "select"]
  /\ loop' = "exchange"
  /\ UNCHANGED err /\ UNCHANGED packetState

(* closeWithError: the first error is the one that is kept.                *)
closeWithError(e) == err' = IF closed THEN err ELSE e

DialError ==
  /\ loop = "dial"
  /\ closeWithError("dial")
  /\ loop' = "done"
  /\ UNCHANGED <<cur, conn, reader, writer>> /\ UNCHANGED packetState

(* A receive from readErrCh or writeErrCh of connection s: it meets the    *)
(* goroutine that reports, which then returns and closes the channel, or   *)
(* finds the channel closed.                                               *)
recvReadErr(s) ==
  /\ reader[s] \in {"report", "done"}
  /\ reader' = [reader EXCEPT ![s] = "done"]

recvWriteErr(s) ==
  /\ writer[s] \in {"report", "done"}
  /\ writer' = [writer EXCEPT ![s] = "done"]

(* The select at the end of exchange.                                      *)
ExchangeReadErr ==
  /\ loop = "exchange"
  /\ recvReadErr(cur)
  /\ loop' = "close"
  /\ UNCHANGED <<cur, conn, writer, err>> /\ UNCHANGED packetState

(* Variant: exchange waits for the reader only.                            *)
ExchangeWriteErr_Ignored == FALSE

ExchangeWriteErr ==
  /\ loop = "exchange"
  /\ recvWriteErr(cur)
  /\ loop' = "close"
  /\ UNCHANGED <<cur, conn, reader, err>> /\ UNCHANGED packetState

(* conn.Close().                                                           *)
LoopClose ==
  /\ loop = "close"
  /\ conn' = [conn EXCEPT ![cur] = "closed"]
  /\ loop' = "check"
  /\ UNCHANGED <<cur, reader, writer, err>> /\ UNCHANGED packetState

-----------------------------------------------------------------------------
(* The reader goroutine of connection s.                                   *)

(* The select with a default at the head of the loop.                      *)
ReaderClosed(s) ==
  /\ reader[s] = "check"
  /\ closed
  /\ reader' = [reader EXCEPT ![s] = "done"]
  /\ UNCHANGED <<loop, cur, conn, writer, err>> /\ UNCHANGED packetState

ReaderPeer(s) ==
  /\ reader[s] = "check"
  /\ recvWriteErr(s)
  /\ reader' = [reader EXCEPT ![s] = "done"]
  /\ UNCHANGED <<loop, cur, conn, err>> /\ UNCHANGED packetState

ReaderDefault(s) ==
  /\ reader[s] = "check"
  /\ ~closed /\ writer[s] \notin {"report", "done"}
  /\ reader' = [reader EXCEPT ![s] = "read"]
  /\ UNCHANGED <<loop, cur, conn, writer, err>> /\ UNCHANGED packetState

(* conn.ReadFrom returns a packet.                                         *)
ReaderPacket(s) ==
  /\ reader[s] = "read"
  /\ conn[s] = "open"
  /\ ndown < MaxDown
  /\ ndown' = ndown + 1
  /\ rpacket' = [rpacket EXCEPT ![s] = ndown + 1]
  /\ reader' = [reader EXCEPT ![s] = "push"]
  /\ UNCHANGED <<writer, recvQueue>> /\ UNCHANGED readerRest

(* Variant: the queue has no bound.                                        *)
push_Over(queue, p) == Append(queue, p)

(* A push that does not wait: a full queue drops the packet.               *)
push(queue, p) == IF Len(queue) < QueueSize THEN Append(queue, p) ELSE queue

ReaderPush(s) ==
  /\ reader[s] = "push"
  /\ recvQueue' = push(recvQueue, rpacket[s])
  /\ rpacket' = [rpacket EXCEPT ![s] = 0]
  /\ reader' = [reader EXCEPT ![s] = "check"]
  /\ UNCHANGED <<writer, ndown>> /\ UNCHANGED readerRest

(* conn.ReadFrom fails, as it must when the connection has been closed.    *)
ReaderError(s) ==
  /\ reader[s] = "read"
  /\ reader' = [reader EXCEPT ![s] = "report"]
  /\ UNCHANGED <<loop, cur, conn, writer, err>> /\ UNCHANGED packetState

-----------------------------------------------------------------------------
(* The writer goroutine of connection s.                                   *)

WriterClosed(s) ==
  /\ writer[s] = "select"
  /\ closed
  /\ writer' = [writer EXCEPT ![s] = "done"]
  /\ UNCHANGED <<loop, cur, conn, reader, err>> /\ UNCHANGED packetState

WriterPeer(s) ==
  /\ writer[s] = "select"
  /\ recvReadErr(s)
  /\ writer' = [writer EXCEPT ![s] = "done"]
  /\ UNCHANGED <<loop, cur, conn, err>> /\ UNCHANGED packetState

(* p := <-c.sendQueue, also when the other cases are ready.                *)
WriterTake(s) ==
  /\ writer[s] = "select"
  /\ sendQueue # <<>>
  /\ wpacket' = [wpacket EXCEPT ![s] = Head(sendQueue)]
  /\ sendQueue' = Tail(sendQueue)
  /\ writer' = [writer EXCEPT ![s] = "write"]
  /\ UNCHANGED <<reader, sent>> /\ UNCHANGED writerRest

(* conn.WriteTo sends the packet.                                          *)
WriterSent(s) ==
  /\ writer[s] = "write"
  /\ conn[s] = "open"
  /\ sent' = Append(sent, wpacket[s])
  /\ wpacket' = [wpacket EXCEPT ![s] = 0]
  /\ writer' = [writer EXCEPT ![s] = "select"]
  /\ UNCHANGED <<reader, sendQueue>> /\ UNCHANGED writerRest

(* conn.WriteTo fails and the packet is lost.                              *)
WriterError(s) ==
  /\ writer[s] = "write"
  /\ wpacket' = [wpacket EXCEPT ![s] = 0]
  /\ writer' = [writer EXCEPT ![s] = "report"]
  /\ UNCHANGED <<reader, sendQueue, sent>> /\ UNCHANGED writerRest

(* Variant: a packet whose write failed after it went out is queued again. *)
WriterLate_Requeue(s) ==
  /\ writer[s] = "write"
  /\ conn[s] = "open"
  /\ sent' = Append(sent, wpacket[s])
  /\ sendQueue' = push(sendQueue, wpacket[s])
  /\ wpacket' = [wpacket EXCEPT ![s] = 0]
  /\ writer' = [writer EXCEPT ![s] = "report"]
  /\ UNCHANGED reader /\ UNCHANGED writerRest

(* conn.WriteTo fails after the packet went out.                           *)
WriterLate(s) ==
  /\ writer[s] = "write"
  /\ conn[s] = "open"
  /\ sent' = Append(sent, wpacket[s])
  /\ wpacket' = [wpacket EXCEPT ![s] = 0]
  /\ writer' = [writer EXCEPT ![s] = "report"]
  /\ UNCHANGED <<reader, sendQueue>> /\ UNCHANGED writerRest

-----------------------------------------------------------------------------
(* The callers of WriteTo, ReadFrom and Close.                             *)

(* WriteTo finds the connection open; otherwise it fails at once.          *)
WriteTo ==
  /\ sender = "idle"
  /\ ~closed
  /\ nup < MaxUp
  /\ nup' = nup + 1
  /\ sender' = "push"
  /\ UNCHANGED <<sendQueue, recvQueue, err, receiver, received>>
  /\ UNCHANGED callerRest

WriteToPush ==
  /\ sender = "push"
  /\ sendQueue' = push(sendQueue, nup)
  /\ sender' = "idle"
  /\ UNCHANGED <<recvQueue, err, receiver, nup, received>>
  /\ UNCHANGED callerRest

(* The first select of ReadFrom.                                           *)
ReadFrom ==
  /\ receiver = "idle"
  /\ receiver' = IF closed THEN "failed" ELSE "wait"
  /\ UNCHANGED <<sendQueue, recvQueue, err, sender, nup, received>>
  /\ UNCHANGED callerRest

(* The second select of ReadFrom.                                          *)
ReadFromPacket ==
  /\ receiver = "wait"
  /\ recvQueue # <<>>
  /\ received' = Append(received, Head(recvQueue))
  /\ recvQueue' = Tail(recvQueue)
  /\ receiver' = "idle"
  /\ UNCHANGED <<sendQueue, err, sender, nup>> /\ UNCHANGED callerRest

ReadFromClosed ==
  /\ receiver = "wait"
  /\ closed
  /\ receiver' = "failed"
  /\ UNCHANGED <<sendQueue, recvQueue, err, sender, nup, received>>
  /\ UNCHANGED callerRest

Close ==
  /\ ~closed
  /\ closeWithError("closed")
  /\ UNCHANGED <<loop, cur, conn, reader, writer>> /\ UNCHANGED packetState

-----------------------------------------------------------------------------
DialLoop ==
  \/ LoopCheck \/ DialOk \/ DialError
  \/ ExchangeReadErr \/ ExchangeWriteErr \/ LoopClose

Reader(s) ==
  \/ ReaderClosed(s) \/ ReaderPeer(s) \/ ReaderDefault(s)
  \/ ReaderPacket(s) \/ ReaderPush(s) \/ ReaderError(s)

Writer(s) ==
  \/ WriterClosed(s) \/ WriterPeer(s) \/ WriterTake(s)
  \/ WriterSent(s) \/ WriterError(s) \/ WriterLate(s)

Caller ==
  \/ WriteTo \/ WriteToPush
  \/ ReadFrom \/ ReadFromPacket \/ ReadFromClosed
  \/ Close

Next == DialLoop \/ (\E s \in Dial : Reader(s) \/ Writer(s)) \/ Caller

Spec == Init /\ [][Next]_vars

(* Goroutines that can run do run; a dial and a write end in some way.  A  *)
(* read of an open connection may wait for ever, one of a closed           *)
(* connection fails.  Nobody has to call WriteTo, ReadFrom or Close.       *)
Fairness ==
  /\ WF_vars(DialLoop)
  /\ \A s \in Dial :
       /\ WF_vars(ReaderClosed(s) \/ ReaderPeer(s) \/ ReaderDefault(s)
                                  \/ ReaderPush(s))
       /\ WF_vars(conn[s] = "closed" /\ ReaderError(s))
       /\ WF_vars(Writer(s))
  /\ WF_vars(WriteToPush) /\ WF_vars(ReadFromPacket \/ ReadFromClosed)

FairSpec == Spec /\ Fairness

-----------------------------------------------------------------------------
(* Properties.                                                             *)

(* exchange has returned for connection s.                                 *)
Left(s) == s < cur \/ (s = cur /\ loop # "exchange")

(* A redial leaves at most one goroutine behind: once exchange is over its *)
(* reader or its writer has returned.  (The other one can be left sending  *)
(* an error that nobody receives, for good.)                               *)
AtMostOneLeftBehind ==
  \A s \in Dial : Left(s) => reader[s] = "done" \/ writer[s] = "done"

(* Packets leave on the current connection only, whatever the writers of   *)
(* older ones still take from sendQueue.                                   *)
OnlyCurrentConnSends ==
  [][\A s \in Dial : s # cur => ~(WriterSent(s) \/ WriterLate(s))]_vars

(* ... and therefore in the order in which they were written.              *)
SentInOrder == \A i, j \in DOMAIN sent : i < j => sent[i] < sent[j]

Held(f) == {f[s] : s \in Dial} \ {0}

Up == INSTANCE PacketChannel WITH
  Packet <- 1 .. MaxUp, given <- 1 .. nup, out <- sent,
  flight <- ToSet(sendQueue) \cup Held(wpacket)
              \cup (IF sender = "push" THEN {nup} ELSE {})

Down == INSTANCE PacketChannel WITH
  Packet <- 1 .. MaxDown, given <- 1 .. ndown, out <- received,
  flight <- ToSet(recvQueue) \cup Held(rpacket)

(* Both directions are packet channels: no packet comes out twice or from  *)
(* nowhere, whichever of the goroutines of all exchanges has it.  The way  *)
(* down may reorder, since the reader of an old connection can queue its   *)
(* last packet late.                                                       *)
ImplementsPacketChannel == Up!Spec /\ Down!Spec

(* An error of either goroutine ends the exchange, so that dialLoop dials  *)
(* again, even when the other goroutine receives the error first.  Close   *)
(* and a failed dial end dialLoop and a waiting ReadFrom.                  *)
ExchangesEnd ==
  /\ \A s \in Dial : reader[s] = "report" \/ writer[s] = "report" ~> Left(s)
  /\ closed ~> loop = "done" /\ receiver # "wait"
=============================================================================
