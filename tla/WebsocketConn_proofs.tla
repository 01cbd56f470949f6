------------------------ MODULE WebsocketConn_proofs ------------------------
(***************************************************************************)
(* A proof about WebsocketConn, for any size of the buffer, of the writes  *)
(* and of the reads.                                                       *)
(***************************************************************************)
EXTENDS WebsocketConn, TLAPS

(* What was taken from the pipe is sent, or in the one buffer of           *)
(* writeLoop, which is empty when the loop reads.                          *)
IInv ==
  /\ pending \in Seq(Nat) /\ buf \in Seq(Nat) /\ sent \in Seq(Nat) /\ accepted \in Nat
  /\ written \in Nat
  /\ accepted = Len(sent) + Len(buf)
  /\ Len(buf) <= BufSize
  /\ wloop = "read" => buf = <<>>

(* The first n elements, or all, and the others.                           *)
LEMMA Chunks ==
  ASSUME NEW s \in Seq(Nat)
  PROVE  /\ chunk(s) \in Seq(Nat) /\ Len(chunk(s)) <= BufSize
         /\ rest(s) \in Seq(Nat)
<1> USE WebsocketAssumption
<1>1. chunk(s) \in Seq(Nat) /\ Len(chunk(s)) <= BufSize
  BY DEF chunk, take
<1>2. rest(s) \in Seq(Nat)
  BY DEF rest, drop
<1> QED BY <1>1, <1>2

(* Every step keeps IInv.                                                  *)
LEMMA NextIInv == IInv /\ [Next]_vars => IInv'
<1> SUFFICES ASSUME IInv, [Next]_vars PROVE IInv'
  OBVIOUS
<1>1. ASSUME NEW n \in WriteSizes, Write(n) PROVE IInv'
  <2>1. written + n \in Nat /\ pending' \in Seq(Nat)
    BY <1>1, WebsocketAssumption DEF IInv, Write
  <2> QED BY <1>1, <2>1 DEF IInv, Write
<1>2. CASE WriteFails
  BY <1>2 DEF WriteFails, IInv
<1>3. CASE LoopRead
  <2>1. buf' = chunk(pending) /\ pending' = rest(pending) /\ buf = <<>>
    BY <1>3 DEF LoopRead, IInv
  <2>2. accepted' = accepted + Len(buf') /\ sent' = sent /\ wloop' = "send" /\ written' = written
    BY <1>3, <2>1 DEF LoopRead
  <2>3. buf' \in Seq(Nat) /\ Len(buf') <= BufSize /\ pending' \in Seq(Nat)
    BY <2>1, Chunks DEF IInv
  <2> QED BY <2>1, <2>2, <2>3 DEF IInv
<1>4. CASE LoopSend
  BY <1>4, WebsocketAssumption DEF LoopSend, IInv
<1>5. CASE LoopEnds
  BY <1>5 DEF LoopEnds, IInv
<1>6. CASE Close \/ Closing
  BY Zenon, <1>6 DEF Close, Closing, CloseFrame, CloseFrameFails, CloseConn, IInv
<1>7. CASE UNCHANGED <<sent, writing>>
  BY <1>7 DEF writing, IInv
<1>8. CASE Break \/ ReadLoop \/ ReaderClose \/ \E n \in ReadSizes : Read(n)
  BY <1>7, <1>8 DEF Break, ReadLoop, NextReader, NextReaderFails, CopyFails, ReaderClose, Read
<1>9. CASE UNCHANGED vars
  BY <1>7, <1>9 DEF vars, writing
<1> QED
  BY SMTT(30), <1>1, <1>2, <1>3, <1>4, <1>5, <1>6, <1>8, <1>9 DEF Next, WriteLoop

(* For any buffer: of the bytes a Write was told are written, no more than *)
(* one buffer has not been sent.                                           *)
THEOREM OneBufferUnsent == Spec => []AtMostOneBuffer
<1>1. Init => IInv
  BY WebsocketAssumption DEF Init, IInv
<1>2. IInv => AtMostOneBuffer
  BY WebsocketAssumption DEF IInv, AtMostOneBuffer
<1> QED BY <1>1, <1>2, NextIInv, PTL DEF Spec
=============================================================================
