---------------------- MODULE RedialPacketConn_proofs ----------------------
(***************************************************************************)
(* What holds of RedialPacketConn for any number of dials and packets and  *)
(* any queue size.                                                         *)
(***************************************************************************)
EXTENDS RedialPacketConn, TLAPS

-----------------------------------------------------------------------------
(* The life of the transient connections: at most the current one is open, *)
(* and only from its dial to the Close that ends its exchange; the later   *)
(* ones do not exist.                                                      *)
DialInv ==
  /\ cur \in 0 .. MaxDials
  /\ conn \in [Dial -> {"none", "open", "closed"}]
  /\ reader \in [Dial -> {"none", "check", "read", "push", "report", "done"}]
  /\ writer \in [Dial -> {"none", "select", "write", "report", "done"}]
  /\ loop \in {"exchange", "close"} => cur > 0
  /\ \A s \in Dial : conn[s] = "open" => s = cur /\ loop \in {"exchange", "close"}

IInv == DialInv /\ AtMostOneLeftBehind

(* A step that neither moves dialLoop nor opens a connection, and in which *)
(* a goroutine that has returned stays so.                                 *)
Quiet ==
  /\ UNCHANGED <<loop, cur, conn>>
  /\ reader' \in [Dial -> {"none", "check", "read", "push", "report", "done"}]
  /\ writer' \in [Dial -> {"none", "select", "write", "report", "done"}]
  /\ \A s \in Dial : /\ reader[s] = "done" => reader'[s] = "done"
                     /\ writer[s] = "done" => writer'[s] = "done"

(* A quiet step keeps the invariant.                                       *)
LEMMA QuietStep == IInv /\ Quiet => IInv'
  BY DEF IInv, DialInv, AtMostOneLeftBehind, Left, Quiet

(* dialLoop keeps the invariant: exchange returns only when one of its     *)
(* goroutines is done, and the connection is closed before the next dial.  *)
LEMMA LoopStep == IInv /\ DialLoop => IInv'
<1> SUFFICES ASSUME IInv, DialLoop PROVE IInv'
  OBVIOUS
<1> USE RedialAssumption DEF IInv, DialInv, AtMostOneLeftBehind, Left, Dial
<1>1. CASE LoopCheck
  BY <1>1 DEF LoopCheck, packetState
<1>2. CASE DialOk
  BY <1>2 DEF DialOk
<1>3. CASE DialError
  BY <1>3 DEF DialError, packetState
<1>4. CASE ExchangeReadErr
  BY <1>4 DEF ExchangeReadErr, recvReadErr
<1>5. CASE ExchangeWriteErr
  BY <1>5 DEF ExchangeWriteErr, recvWriteErr
<1>6. CASE LoopClose
  BY <1>6 DEF LoopClose, packetState
<1> QED
  BY SMTT(30), <1>1, <1>2, <1>3, <1>4, <1>5, <1>6 DEF DialLoop

(* The reader goroutines take quiet steps only.                            *)
LEMMA ReaderQuiet ==
  ASSUME IInv, NEW s \in Dial, Reader(s) PROVE Quiet
<1> USE DEF IInv, DialInv, Quiet, readerRest, packetState
<1>1. CASE ReaderClosed(s)
  BY <1>1 DEF ReaderClosed
<1>2. CASE ReaderPeer(s)
  BY <1>2 DEF ReaderPeer, recvWriteErr
<1>3. CASE ReaderDefault(s)
  BY <1>3 DEF ReaderDefault
<1>4. CASE ReaderPacket(s)
  BY <1>4 DEF ReaderPacket
<1>5. CASE ReaderPush(s)
  BY <1>5 DEF ReaderPush
<1>6. CASE ReaderError(s)
  BY SMTT(30), <1>6 DEF ReaderError
<1> QED
  BY SMTT(30), <1>1, <1>2, <1>3, <1>4, <1>5, <1>6 DEF Reader

(* So do the writer goroutines.                                            *)
LEMMA WriterQuiet ==
  ASSUME IInv, NEW s \in Dial, Writer(s) PROVE Quiet
<1> USE DEF IInv, DialInv, Quiet, writerRest, packetState
<1>1. CASE WriterClosed(s)
  BY <1>1 DEF WriterClosed
<1>2. CASE WriterPeer(s)
  BY <1>2 DEF WriterPeer, recvReadErr
<1>3. CASE WriterTake(s)
  BY <1>3 DEF WriterTake
<1>4. CASE WriterSent(s)
  BY <1>4 DEF WriterSent
<1>5. CASE WriterError(s)
  BY <1>5 DEF WriterError
<1>6. CASE WriterLate(s)
  BY <1>6 DEF WriterLate
<1> QED
  BY <1>1, <1>2, <1>3, <1>4, <1>5, <1>6 DEF Writer

(* So do the callers.                                                      *)
LEMMA CallerQuiet == ASSUME IInv, Caller PROVE Quiet
<1> USE DEF IInv, DialInv, Quiet, callerRest, packetState
<1>1. CASE WriteTo
  BY <1>1 DEF WriteTo
<1>2. CASE WriteToPush
  BY <1>2 DEF WriteToPush
<1>3. CASE ReadFrom
  BY <1>3 DEF ReadFrom
<1>4. CASE ReadFromPacket
  BY <1>4 DEF ReadFromPacket
<1>5. CASE ReadFromClosed
  BY <1>5 DEF ReadFromClosed
<1>6. CASE Close
  BY <1>6 DEF Close
<1> QED
  BY SMTT(30), <1>1, <1>2, <1>3, <1>4, <1>5, <1>6 DEF Caller

(* The invariant holds when the connection is made.                        *)
LEMMA InitDial == Init => IInv
  BY RedialAssumption DEF Init, IInv, DialInv, AtMostOneLeftBehind, Left, Dial

(* Every step keeps the invariant.                                         *)
LEMMA NextDial == IInv /\ [Next]_vars => IInv'
<1> SUFFICES ASSUME IInv, [Next]_vars PROVE IInv'
  OBVIOUS
<1>1. CASE DialLoop
  BY <1>1, LoopStep
<1>2. ASSUME NEW s \in Dial, Reader(s) PROVE IInv'
  BY SMTT(30), <1>2, ReaderQuiet, QuietStep
<1>3. ASSUME NEW s \in Dial, Writer(s) PROVE IInv'
  BY SMTT(30), <1>3, WriterQuiet, QuietStep
<1>4. CASE Caller
  BY SMTT(30), <1>4, CallerQuiet, QuietStep
<1>5. CASE UNCHANGED vars
  <2>1. Quiet
    BY <1>5 DEF vars, Quiet, IInv, DialInv
  <2> QED
    BY <2>1, QuietStep
<1> QED
  BY SMTT(30), <1>1, <1>2, <1>3, <1>4, <1>5 DEF Next

(* A redial leaves at most one goroutine of its exchange behind.           *)
THEOREM OneLeftBehind == Spec => []AtMostOneLeftBehind
<1>1. IInv => AtMostOneLeftBehind
  BY DEF IInv
<1> QED
  BY <1>1, InitDial, NextDial, PTL DEF Spec

(* No packet leaves on any connection but the current one.                 *)
THEOREM CurrentConnSends == Spec => OnlyCurrentConnSends
<1>1. IInv => \A s \in Dial : s # cur => ~(WriterSent(s) \/ WriterLate(s))
  BY DEF IInv, DialInv, WriterSent, WriterLate
<1>2. IInv /\ [Next]_vars =>
        [\A s \in Dial : s # cur => ~(WriterSent(s) \/ WriterLate(s))]_vars
  BY <1>1
<1> QED
  BY <1>2, InitDial, NextDial, PTL DEF Spec, OnlyCurrentConnSends

-----------------------------------------------------------------------------
(* Order on the way up.  Packets are older the further they have come: the *)
(* sent ones, the one the current writer holds, the queue, the caller.     *)
(* Old writers may hold anything that has left the queue.                  *)
Entered == IF sender = "push" THEN nup - 1 ELSE nup

OrderType ==
  /\ sent \in Seq(Nat) /\ sendQueue \in Seq(Nat)
  /\ wpacket \in [Dial -> Nat]
  /\ nup \in Nat /\ (sender = "push" => nup > 0)

SentFacts ==
  /\ SentInOrder
  /\ \A i \in DOMAIN sent : sent[i] <= Entered

QueueFacts ==
  /\ \A i, j \in DOMAIN sendQueue : i < j => sendQueue[i] < sendQueue[j]
  /\ \A j \in DOMAIN sendQueue : sendQueue[j] <= Entered
  /\ \A i \in DOMAIN sent, j \in DOMAIN sendQueue : sent[i] < sendQueue[j]

WriterFacts ==
  /\ \A s \in Dial : writer[s] = "write" =>
       /\ wpacket[s] <= Entered
       /\ \A j \in DOMAIN sendQueue : wpacket[s] < sendQueue[j]
  /\ \A s \in Dial : writer[s] = "write" /\ conn[s] = "open" =>
       \A i \in DOMAIN sent : sent[i] < wpacket[s]

OrderInv == OrderType /\ SentFacts /\ QueueFacts /\ WriterFacts

(* A step that leaves the way up alone: no writer starts to write, no      *)
(* connection opens under a writer that writes.                            *)
Aside ==
  /\ UNCHANGED <<sent, sendQueue, wpacket, nup, sender>>
  /\ \A s \in Dial : writer'[s] = "write" =>
       writer[s] = "write" /\ (conn'[s] = "open" => conn[s] = "open")

(* Such a step keeps the order.                                            *)
LEMMA AsideStep == OrderInv /\ Aside => OrderInv'
  BY DEF OrderInv, OrderType, SentFacts, QueueFacts, WriterFacts, Aside,
         SentInOrder, Entered

(* dialLoop leaves the way up alone.                                       *)
LEMMA LoopAside == ASSUME IInv, DialLoop PROVE Aside
<1> USE RedialAssumption
    DEF IInv, DialInv, Aside, Dial, packetState
<1>1. CASE LoopCheck
  BY <1>1 DEF LoopCheck
<1>2. CASE DialOk
  BY <1>2 DEF DialOk
<1>3. CASE DialError
  BY <1>3 DEF DialError
<1>4. CASE ExchangeReadErr
  BY <1>4 DEF ExchangeReadErr
<1>5. CASE ExchangeWriteErr
  BY <1>5 DEF ExchangeWriteErr, recvWriteErr
<1>6. CASE LoopClose
  BY <1>6 DEF LoopClose
<1> QED
  BY SMTT(30), <1>1, <1>2, <1>3, <1>4, <1>5, <1>6 DEF DialLoop

(* The reader goroutines leave the way up alone.                           *)
LEMMA ReaderAside == ASSUME IInv, NEW s \in Dial, Reader(s) PROVE Aside
<1> USE DEF IInv, DialInv, Aside, readerRest, packetState
<1>1. CASE ReaderClosed(s)
  BY <1>1 DEF ReaderClosed
<1>2. CASE ReaderPeer(s)
  BY <1>2 DEF ReaderPeer, recvWriteErr
<1>3. CASE ReaderDefault(s)
  BY <1>3 DEF ReaderDefault
<1>4. CASE ReaderPacket(s)
  BY <1>4 DEF ReaderPacket
<1>5. CASE ReaderPush(s)
  BY <1>5 DEF ReaderPush
<1>6. CASE ReaderError(s)
  BY <1>6 DEF ReaderError
<1> QED
  BY SMTT(30), <1>1, <1>2, <1>3, <1>4, <1>5, <1>6 DEF Reader

(* The packet at the head of the queue follows everything sent.            *)
LEMMA TakeOrder ==
  ASSUME IInv, OrderInv, NEW s \in Dial, WriterTake(s) PROVE OrderInv'
<1> USE DEF OrderType, WriterTake, writerRest, Entered
<1>1. /\ UNCHANGED <<sent, nup, sender, conn>>
      /\ sendQueue \in Seq(Nat) /\ sendQueue # <<>>
      /\ wpacket \in [Dial -> Nat]
      /\ writer \in [Dial -> {"none", "select", "write", "report", "done"}]
  BY DEF OrderInv, IInv, DialInv
<1>2. /\ sendQueue' \in Seq(Nat)
      /\ Head(sendQueue) = sendQueue[1] /\ Head(sendQueue) \in Nat
      /\ 1 \in DOMAIN sendQueue
      /\ \A j \in DOMAIN sendQueue' : /\ j + 1 \in DOMAIN sendQueue
                                      /\ sendQueue'[j] = sendQueue[j + 1]
                                      /\ j \in Nat /\ j > 0
  BY <1>1
<1>3. OrderType'
  BY SMTT(30), <1>1, <1>2 DEF OrderInv
<1>4. SentFacts'
  BY <1>1 DEF OrderInv, SentFacts, SentInOrder
<1>5. QueueFacts'
  BY SMTT(30), <1>1, <1>2 DEF OrderInv, QueueFacts
<1>6. WriterFacts'
  BY SMTT(30), <1>1, <1>2 DEF OrderInv, QueueFacts, WriterFacts
<1> QED
  BY SMTT(30), <1>3, <1>4, <1>5, <1>6 DEF OrderInv

(* The packet the current writer holds follows everything sent and comes   *)
(* before the queue; no other writer has an open connection.               *)
LEMMA SendOrder ==
  ASSUME IInv, OrderInv, NEW s \in Dial, WriterSent(s) \/ WriterLate(s)
  PROVE  OrderInv'
<1>1. /\ writer[s] = "write" /\ conn[s] = "open"
      /\ UNCHANGED <<sendQueue, nup, sender, conn>>
      /\ sent' = Append(sent, wpacket[s])
      /\ wpacket' = [wpacket EXCEPT ![s] = 0]
      /\ writer' \in [Dial -> {"none", "select", "write", "report", "done"}]
      /\ writer'[s] # "write"
      /\ \A r \in Dial \ {s} : writer'[r] = writer[r]
  BY DEF WriterSent, WriterLate, writerRest, IInv, DialInv
<1>2. /\ sent \in Seq(Nat) /\ wpacket \in [Dial -> Nat]
      /\ sendQueue \in Seq(Nat) /\ nup \in Nat
  BY DEF OrderInv, OrderType
<1>3. \A r \in Dial \ {s} : conn[r] # "open"
  BY <1>1 DEF IInv, DialInv
<1>4. /\ sent' \in Seq(Nat)
      /\ \A i \in DOMAIN sent' : \/ i \in DOMAIN sent /\ sent'[i] = sent[i]
                                 \/ i = Len(sent) + 1 /\ sent'[i] = wpacket[s]
      /\ \A i \in DOMAIN sent : i \in Nat /\ i <= Len(sent)
  BY SMTT(30), <1>1, <1>2
<1>5. OrderType'
  BY SMTT(30), <1>1, <1>2, <1>4 DEF OrderInv, OrderType
<1>6. SentFacts'
  BY SMTT(30), <1>1, <1>2, <1>4
     DEF OrderInv, SentFacts, SentInOrder, WriterFacts, Entered
<1>7. QueueFacts'
  BY SMTT(30), <1>1, <1>2, <1>4 DEF OrderInv, QueueFacts, WriterFacts, Entered
<1>8. WriterFacts'
  BY Zenon, <1>1, <1>2, <1>3 DEF OrderInv, WriterFacts, Entered
<1> QED
  BY <1>5, <1>6, <1>7, <1>8 DEF OrderInv

(* The writer goroutines keep the order.                                   *)
LEMMA WriterOrder ==
  ASSUME IInv, OrderInv, NEW s \in Dial, Writer(s) PROVE OrderInv'
<1>1. CASE WriterClosed(s)
  <2>1. Aside
    BY SMTT(30), <1>1 DEF WriterClosed, Aside, IInv, DialInv, writerRest, packetState
  <2> QED
    BY SMTT(30), <2>1, AsideStep
<1>2. CASE WriterPeer(s)
  <2>1. Aside
    BY <1>2 DEF WriterPeer, Aside, IInv, DialInv, writerRest, packetState
  <2> QED
    BY <2>1, AsideStep
<1>3. CASE WriterTake(s)
  BY <1>3, TakeOrder
<1>4. CASE WriterSent(s)
  BY <1>4, SendOrder
<1>5. CASE WriterLate(s)
  BY SMTT(30), <1>5, SendOrder
<1>6. CASE WriterError(s)
  <2>1. /\ UNCHANGED <<sent, sendQueue, nup, sender, conn>>
        /\ wpacket' = [wpacket EXCEPT ![s] = 0]
        /\ writer' = [writer EXCEPT ![s] = "report"]
        /\ writer \in [Dial -> {"none", "select", "write", "report", "done"}]
    BY <1>6 DEF WriterError, writerRest, IInv, DialInv
  <2> QED
    BY <2>1 DEF OrderInv, OrderType, SentFacts, SentInOrder, QueueFacts,
                WriterFacts, Entered
<1> QED
  BY <1>1, <1>2, <1>3, <1>4, <1>5, <1>6 DEF Writer

(* A packet enters the queue behind all others.                            *)
LEMMA CallerOrder == ASSUME IInv, OrderInv, Caller PROVE OrderInv'
<1>1. CASE WriteTo
  <2>1. /\ UNCHANGED <<sent, sendQueue, wpacket, writer, conn>>
        /\ nup' = nup + 1 /\ sender = "idle" /\ sender' = "push"
    BY <1>1 DEF WriteTo, callerRest
  <2> QED
    BY <2>1 DEF OrderInv, OrderType, SentFacts, SentInOrder, QueueFacts,
                WriterFacts, Entered
<1>2. CASE WriteToPush
  <2>1. /\ UNCHANGED <<sent, nup, wpacket, writer, conn>>
        /\ sender = "push" /\ sender' = "idle"
        /\ sendQueue' = push(sendQueue, nup)
    BY <1>2 DEF WriteToPush, callerRest
  <2>2. nup \in Nat /\ nup > 0 /\ sendQueue \in Seq(Nat)
    BY <2>1 DEF OrderInv, OrderType
  <2>3. /\ sendQueue' \in Seq(Nat)
        /\ \A j \in DOMAIN sendQueue' :
             \/ j \in DOMAIN sendQueue /\ sendQueue'[j] = sendQueue[j]
             \/ j = Len(sendQueue) + 1 /\ sendQueue'[j] = nup
        /\ \A j \in DOMAIN sendQueue : j \in Nat /\ j <= Len(sendQueue)
                                       /\ sendQueue[j] \in Nat
    BY <2>1, <2>2 DEF push
  <2>4. Entered = nup - 1 /\ Entered' = nup
    BY <2>1 DEF Entered
  <2>5. sent \in Seq(Nat) /\ \A i \in DOMAIN sent : sent[i] \in Nat
    BY DEF OrderInv, OrderType
  <2>6. OrderType'
    BY SMTT(30), <2>1, <2>2, <2>3 DEF OrderInv, OrderType
  <2>7. SentFacts'
    BY SMTT(30), <2>1, <2>2, <2>4, <2>5 DEF OrderInv, SentFacts, SentInOrder
  <2>a. \A j \in DOMAIN sendQueue : sendQueue[j] < nup
    BY SMTT(30), <2>2, <2>3, <2>4 DEF OrderInv, QueueFacts
  <2>b. \A i \in DOMAIN sent : sent[i] < nup
    BY SMTT(30), <2>2, <2>4, <2>5 DEF OrderInv, SentFacts
  <2>c. \A s \in Dial : writer[s] = "write" =>
          wpacket[s] \in Nat /\ wpacket[s] < nup
    BY SMTT(30), <2>2, <2>4 DEF OrderInv, OrderType, WriterFacts
  <2>8. QueueFacts'
    <3>1. \A i, j \in DOMAIN sendQueue' : i < j => sendQueue'[i] < sendQueue'[j]
      <4> SUFFICES ASSUME NEW i \in DOMAIN sendQueue', NEW j \in DOMAIN sendQueue',
                          i < j
                   PROVE  sendQueue'[i] < sendQueue'[j]
        OBVIOUS
      <4>1. i \in DOMAIN sendQueue /\ sendQueue'[i] = sendQueue[i]
        <5>1. Len(sendQueue) \in Nat /\ i \in Nat /\ j \in Nat
          BY <2>2, <2>3
        <5> QED
          BY SMTT(30), <5>1, <2>3
      <4>2. CASE j \in DOMAIN sendQueue /\ sendQueue'[j] = sendQueue[j]
        BY <4>1, <4>2 DEF OrderInv, QueueFacts
      <4>3. CASE sendQueue'[j] = nup
        BY SMTT(30), <4>1, <4>3, <2>a
      <4> QED
        BY SMTT(30), <4>2, <4>3, <2>3
    <3>2. \A j \in DOMAIN sendQueue' : sendQueue'[j] <= nup
      BY SMTT(30), <2>2, <2>3, <2>a
    <3>3. \A i \in DOMAIN sent, j \in DOMAIN sendQueue' :
            sent[i] < sendQueue'[j]
      BY SMTT(30), <2>3, <2>b DEF OrderInv, QueueFacts
    <3> QED
      BY SMTT(30), <3>1, <3>2, <3>3, <2>1, <2>4 DEF QueueFacts
  <2>9. WriterFacts'
    <3>1. \A s \in Dial : writer[s] = "write" =>
            /\ wpacket[s] <= nup
            /\ \A j \in DOMAIN sendQueue' : wpacket[s] < sendQueue'[j]
      BY SMTT(30), <2>2, <2>3, <2>c DEF OrderInv, WriterFacts
    <3> QED
      BY SMTT(30), <3>1, <2>1, <2>4 DEF OrderInv, WriterFacts
  <2> QED
    BY SMTT(30), <2>6, <2>7, <2>8, <2>9 DEF OrderInv
<1>3. CASE ReadFrom \/ ReadFromPacket \/ ReadFromClosed \/ Close
  <2>1. Aside
    BY <1>3 DEF ReadFrom, ReadFromPacket, ReadFromClosed, Close, Aside,
                callerRest, readerRest, packetState
  <2> QED
    BY <2>1, AsideStep
<1> QED
  BY SMTT(30), <1>1, <1>2, <1>3 DEF Caller

(* Every step keeps the order.                                             *)
LEMMA NextOrder == IInv /\ OrderInv /\ [Next]_vars => OrderInv'
<1> SUFFICES ASSUME IInv, OrderInv, [Next]_vars PROVE OrderInv'
  OBVIOUS
<1>1. CASE DialLoop
  BY SMTT(30), <1>1, LoopAside, AsideStep
<1>2. ASSUME NEW s \in Dial, Reader(s) PROVE OrderInv'
  BY SMTT(30), <1>2, ReaderAside, AsideStep
<1>3. ASSUME NEW s \in Dial, Writer(s) PROVE OrderInv'
  BY <1>3, WriterOrder
<1>4. CASE Caller
  BY <1>4, CallerOrder
<1>5. CASE UNCHANGED vars
  <2>1. Aside
    BY <1>5 DEF vars, Aside
  <2> QED
    BY SMTT(30), <2>1, AsideStep
<1> QED
  BY SMTT(30), <1>1, <1>2, <1>3, <1>4, <1>5 DEF Next

(* Packets go out in the order in which WriteTo accepted them, across all  *)
(* redials.                                                                *)
THEOREM SendsKeepOrder == Spec => []SentInOrder
<1>1. Init => OrderInv
  BY RedialAssumption DEF Init, OrderInv, OrderType, SentFacts, SentInOrder,
                          QueueFacts, WriterFacts, Entered
<1>2. OrderInv => SentInOrder
  BY DEF OrderInv, SentFacts
<1> QED
  BY <1>1, <1>2, InitDial, NextDial, NextOrder, PTL DEF Spec
=============================================================================
