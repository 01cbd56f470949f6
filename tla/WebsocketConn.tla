--------------------------- MODULE WebsocketConn ----------------------------
(***************************************************************************)
(* One direction of the byte stream that websocketconn.Conn makes of a     *)
(* WebSocket: Write hands its bytes through a synchronous pipe to          *)
(* writeLoop, which makes messages of at most BufSize bytes of them;       *)
(* readLoop of the peer copies messages to a pipe that Read takes from.    *)
(* Either end may Close, and the connection may break.  A byte is its      *)
(* position in the stream.                                                 *)
(***************************************************************************)
EXTENDS Naturals, SequencesExt

CONSTANTS
  BufSize,     \* 2048
  WriteSizes,  \* sizes of the Writes
  ReadSizes,   \* sizes of the Reads
  MaxBytes     \* bound on the bytes written

ASSUME WebsocketAssumption ==
  /\ BufSize \in Nat \ {0} /\ MaxBytes \in Nat
  /\ WriteSizes \subseteq Nat \ {0} /\ ReadSizes \subseteq Nat \ {0}

VARIABLES
  written,    \* bytes given to Write so far
  pending,    \* what is left of the Write under way
  wpipe,      \* the writer's pipe: "open" or "closed"
  wloop,      \* writeLoop: "read", "send" or "done"
  buf,
  wclose,     \* Close at the writing end: "no", "frame", "conn" or "done"
  accepted,   \* history: bytes taken from the pipe
  sent,       \* history: bytes sent in messages
  net,        \* messages under way; a Close frame is <<>>
  link,       \* "up", or "down" for new messages
  rloop,      \* readLoop: "next", "copy" or "done"
  msg,        \* what is left of the message being copied
  rpipe,      \* the reader's pipe: "open", "EOF", "error" or "closed"
  got         \* bytes that Read returned
vars == <<written, pending, wpipe, wloop, buf, wclose, accepted, sent, net, link,
          rloop, msg, rpipe, got>>
writing == <<written, pending, wpipe, wloop, buf, wclose, accepted>>
reading == <<rloop, msg, rpipe, got>>

Bytes == Seq(1 .. MaxBytes)

TypeOK ==
  /\ written \in 0 .. MaxBytes /\ pending \in Bytes
  /\ wpipe \in {"open", "closed"} /\ wloop \in {"read", "send", "done"}
  /\ buf \in Bytes
  /\ wclose \in {"no", "frame", "conn", "done"}
  /\ accepted \in 0 .. MaxBytes /\ sent \in Bytes
  /\ net \in Seq(Bytes) /\ link \in {"up", "down"}
  /\ rloop \in {"next", "copy", "done"} /\ msg \in Bytes
  /\ rpipe \in {"open", "EOF", "error", "closed"} /\ got \in Bytes

Init ==
  /\ written = 0 /\ pending = <<>> /\ wpipe = "open"
  /\ wloop = "read" /\ buf = <<>> /\ wclose = "no" /\ accepted = 0
  /\ sent = <<>> /\ net = <<>> /\ link = "up"
  /\ rloop = "next" /\ msg = <<>> /\ rpipe = "open" /\ got = <<>>

take(s, n) == SubSeq(s, 1, IF n < Len(s) THEN n ELSE Len(s))
drop(s, n) == SubSeq(s, n + 1, Len(s))

-----------------------------------------------------------------------------
(* Write blocks until the pipe has passed on all of it, or is closed.      *)
Write(n) ==
  /\ pending = <<>> /\ wpipe = "open" /\ written + n <= MaxBytes
  /\ written' = written + n
  /\ pending' = [i \in 1 .. n |-> written + i]
  /\ UNCHANGED <<wpipe, wloop, buf, wclose, accepted, sent, net, link>> /\ UNCHANGED reading

WriteFails ==
  /\ pending # <<>> /\ wpipe = "closed" /\ pending' = <<>>
  /\ UNCHANGED <<written, wpipe, wloop, buf, wclose, accepted, sent, net, link>>
  /\ UNCHANGED reading

(* writeLoop.                                                              *)
rest(s) == drop(s, BufSize)
chunk(s) == take(s, BufSize)

LoopRead ==
  /\ wloop = "read" /\ wpipe = "open" /\ pending # <<>>
  /\ buf' = chunk(pending) /\ pending' = rest(pending)
  /\ accepted' = accepted + Len(chunk(pending))
  /\ wloop' = "send"
  /\ UNCHANGED <<written, wpipe, wclose, sent, net, link>> /\ UNCHANGED reading

LoopSend ==
  /\ wloop = "send" /\ link = "up"
  /\ net' = Append(net, buf) /\ sent' = sent \o buf
  /\ buf' = <<>> /\ wloop' = "read"
  /\ UNCHANGED <<written, pending, wpipe, wclose, accepted, link>> /\ UNCHANGED reading

(* The pipe or the connection is closed: writeLoop ends and closes the     *)
(* pipe, which fails the Write under way.                                  *)
pipeAfterLoop == "closed"

LoopEnds ==
  /\ (wloop = "read" /\ wpipe = "closed") \/ (wloop = "send" /\ link = "down")
  /\ wloop' = "done" /\ wpipe' = pipeAfterLoop
  /\ UNCHANGED <<written, pending, buf, wclose, accepted, sent, net, link>>
  /\ UNCHANGED reading

(* Close: the pipes, a Close frame within a second, the connection.        *)
Close ==
  /\ wclose = "no" /\ wclose' = "frame" /\ wpipe' = "closed"
  /\ UNCHANGED <<written, pending, wloop, buf, accepted, sent, net, link>>
  /\ UNCHANGED reading

(* After the Close frame no message is sent.                               *)
CloseFrame ==
  /\ wclose = "frame" /\ wclose' = "conn"
  /\ net' = IF link = "up" THEN Append(net, <<>>) ELSE net
  /\ link' = "down"
  /\ UNCHANGED <<written, pending, wpipe, wloop, buf, accepted, sent>> /\ UNCHANGED reading

(* The frame could not be written in time: its error is ignored.           *)
CloseFrameFails ==
  /\ wclose = "frame" /\ wclose' = "conn"
  /\ UNCHANGED <<written, pending, wpipe, wloop, buf, accepted, sent, net, link>>
  /\ UNCHANGED reading

CloseConn ==
  /\ wclose = "conn" /\ wclose' = "done" /\ link' = "down"
  /\ UNCHANGED <<written, pending, wpipe, wloop, buf, accepted, sent, net>>
  /\ UNCHANGED reading

(* The network loses the connection, with what was under way from some     *)
(* point on, which may be inside a message.                                *)
cut(n, k) == SubSeq(net, 1, n) \o (IF k = 0 THEN <<>> ELSE <<take(net[n + 1], k)>>)

Break ==
  /\ link = "up" \/ net # <<>>
  /\ link' = "down"
  /\ \/ net' = net
     \/ \E n \in 0 .. Len(net) - 1 : \E k \in 0 .. Len(net[n + 1]) : net' = cut(n, k)
  /\ UNCHANGED <<sent>> /\ UNCHANGED writing /\ UNCHANGED reading

-----------------------------------------------------------------------------
(* readLoop.                                                               *)
NextReader ==
  /\ rloop = "next" /\ net # <<>> /\ Head(net) # <<>>
  /\ msg' = Head(net) /\ net' = Tail(net) /\ rloop' = "copy"
  /\ UNCHANGED <<sent, link, rpipe, got>> /\ UNCHANGED writing

(* A Close frame is an end-of-file, a connection that just ends is not.    *)
(* Variant: it is.                                                         *)
closeErrorToEOF_All(frame) == "EOF"
closeErrorToEOF(frame) == IF frame THEN "EOF" ELSE "error"

NextReaderFails ==
  /\ rloop = "next" /\ rloop' = "done"
  /\ IF net = <<>> THEN link = "down" ELSE Head(net) = <<>>
  /\ rpipe' = IF rpipe = "open" THEN closeErrorToEOF(net # <<>>) ELSE rpipe
  /\ UNCHANGED <<sent, net, link, msg, got>> /\ UNCHANGED writing

(* Read takes from the message being copied.                               *)
Read(n) ==
  /\ rloop = "copy" /\ rpipe = "open"
  /\ got' = got \o take(msg, n) /\ msg' = drop(msg, n)
  /\ rloop' = IF drop(msg, n) = <<>> THEN "next" ELSE "copy"
  /\ UNCHANGED <<sent, net, link, rpipe>> /\ UNCHANGED writing

(* Close at the reading end.                                               *)
ReaderClose ==
  /\ rpipe # "closed" /\ rpipe' = "closed" /\ link' = "down"
  /\ UNCHANGED <<sent, net, rloop, msg, got>> /\ UNCHANGED writing

CopyFails ==
  /\ rloop = "copy" /\ rpipe = "closed" /\ rloop' = "done"
  /\ UNCHANGED <<sent, net, link, msg, rpipe, got>> /\ UNCHANGED writing

WriteLoop == LoopRead \/ LoopSend \/ LoopEnds
ReadLoop == NextReader \/ NextReaderFails \/ CopyFails
Closing == CloseFrame \/ CloseFrameFails \/ CloseConn

Next ==
  \/ \E n \in WriteSizes : Write(n)
  \/ \E n \in ReadSizes : Read(n)
  \/ WriteFails \/ WriteLoop \/ Close \/ Closing \/ Break
  \/ ReadLoop \/ ReaderClose

Spec == Init /\ [][Next]_vars

-----------------------------------------------------------------------------
(* Properties.                                                             *)

(* What Read returns is a prefix of what was written, across the splits    *)
(* into buffers, messages and reads; and an end-of-file is one: the reader *)
(* has had every byte that was sent.                                       *)
StreamIntact ==
  /\ got = [i \in 1 .. Len(got) |-> i]
  /\ rpipe = "EOF" => got = sent

(* Of the bytes that writeLoop took from a Write, which are lost without   *)
(* an error when Close overtakes them, there is never more than one buffer *)
(* that was not sent.                                                      *)
AtMostOneBuffer == accepted - Len(sent) <= BufSize
=============================================================================
