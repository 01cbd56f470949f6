--------------------------- MODULE Encapsulation ----------------------------
(***************************************************************************)
(* Packets on a byte stream (package encapsulation and                     *)
(* EncapsulationPacketConn).  The writer puts chunks on the wire, a length *)
(* prefix of one to three bytes and a body; the reader consumes prefixes   *)
(* byte by byte and skips padding.  The stream may end anywhere, also      *)
(* inside a chunk.  The body of a chunk is only its length; a reader that  *)
(* takes anything but exactly the body has gone astray ("garbled").        *)
(***************************************************************************)
EXTENDS Naturals, Sequences, SequencesExt

CONSTANTS
  Size,      \* lengths of the packets written
  Padding,   \* totals passed to WritePadding
  Budget,    \* budgets passed to MaxDataForSize
  Block,     \* len(paddingBuffer); 1024 in the code
  Buffer,    \* length of the slice passed to ReadFrom
  MaxChunks  \* bound on the calls of the writer

ASSUME EncapsulationAssumption ==
  /\ Size \subseteq Nat /\ Padding \subseteq Nat
  /\ Block \in 1 .. 8193 /\ Buffer \in Nat /\ MaxChunks \in Nat

ASSUME BudgetAssumption == Budget \subseteq Nat \ {0}

VARIABLES
  wire,      \* the chunks on the stream that are not fully read
  ended,     \* "no", or how the stream ended: "clean" or "torn"
  pad,       \* what WritePadding has still to write
  calls,     \* calls of the writer so far
  sent,      \* history: lengths of the packets written
  filled,    \* the last budget and the length MaxDataForSize gave for it
  pc,        \* the reader: "first", "more", "body" or a result: "EOF",
             \* "ErrUnexpectedEOF", "ErrTooLong", "garbled"
  isData, n, \* its variables
  more,      \* the bytes of the prefix read after the first
  received   \* history: lengths of the packets ReadFrom returned

vars == <<wire, ended, pad, calls, sent, filled, pc, isData, n, more, received>>
readerVars == <<pc, isData, n, more, received>>

Init ==
  /\ wire = <<>> /\ ended = "no" /\ pad = 0 /\ calls = 0 /\ sent = <<>>
  /\ filled = [budget |-> 1, size |-> 0]
  /\ pc = "first" /\ isData = FALSE /\ n = 0 /\ more = 0 /\ received = <<>>

-----------------------------------------------------------------------------
(* The prefix of a data chunk of length k; none (ErrTooLong) from 2^20 on. *)
dataPrefixForLength(k) ==
  CASE k < 64 -> <<128 + k>>
    [] k >= 64 /\ k < 8192 -> <<192 + (k \div 128), k % 128>>
    [] k >= 8192 /\ k < 1048576 ->
         <<192 + (k \div 16384), 128 + ((k \div 128) % 128), k % 128>>
    [] OTHER -> <<>>

(* The length that fits a budget: the prefix is that of the budget.        *)
MaxDataForSize(b) ==
  IF dataPrefixForLength(b) = <<>> THEN 1048576 - 1 - 3
  ELSE b - Len(dataPrefixForLength(b))

(* A padding chunk of p bytes in all.                                      *)
paddingPrefix(p) ==
  CASE p <= 64 -> <<p - 1>>
    [] p > 64 /\ p <= 8193 -> <<64 + ((p - 2) \div 128), (p - 2) % 128>>
    [] OTHER -> <<64 + ((p - 3) \div 16384), 128 + (((p - 3) \div 128) % 64), (p - 3) % 128>>

paddingChunk(p) ==
  [prefix |-> paddingPrefix(p), body |-> p - Len(paddingPrefix(p))]

-----------------------------------------------------------------------------
(* The writer.                                                             *)

(* WriteTo: WriteData and a flush; a packet that is too long is an error   *)
(* before anything is written.                                             *)
WriteData(k) ==
  IF dataPrefixForLength(k) = <<>> THEN UNCHANGED <<wire, sent>>
  ELSE /\ wire' = Append(wire, [prefix |-> dataPrefixForLength(k), body |-> k])
       /\ sent' = Append(sent, k)

Turn == ended = "no" /\ pad = 0 /\ calls < MaxChunks

WriteTo(k) ==
  /\ Turn
  /\ calls' = calls + 1
  /\ WriteData(k)
  /\ UNCHANGED <<ended, pad, filled>> /\ UNCHANGED readerVars

(* The caller fills a budget with the longest packet that fits.            *)
WriteFit(b) ==
  /\ Turn
  /\ calls' = calls + 1
  /\ filled' = [budget |-> b, size |-> MaxDataForSize(b)]
  /\ WriteData(MaxDataForSize(b))
  /\ UNCHANGED <<ended, pad>> /\ UNCHANGED readerVars

WritePadding(p) ==
  /\ Turn
  /\ calls' = calls + 1
  /\ pad' = p
  /\ UNCHANGED <<wire, ended, sent, filled>> /\ UNCHANGED readerVars

(* One turn of the loop in WritePadding.                                   *)
PaddingChunk ==
  /\ ended = "no"
  /\ pad > 0
  /\ LET p == IF Block > pad THEN pad ELSE Block IN
       /\ pad' = pad - p
       /\ wire' = Append(wire, paddingChunk(p))
  /\ UNCHANGED <<ended, calls, sent, filled>> /\ UNCHANGED readerVars

(* The stream ends: between two chunks, or inside one of those on the wire *)
(* that the reader has not begun.                                          *)
EndClean ==
  /\ ended = "no"
  /\ ended' = "clean"
  /\ UNCHANGED <<wire, pad, calls, sent, filled>> /\ UNCHANGED readerVars

Torn(c) ==
  {[prefix |-> SubSeq(c.prefix, 1, i), body |-> 0] : i \in 1 .. Len(c.prefix) - 1}
    \cup {[prefix |-> c.prefix, body |-> b] : b \in {x \in {0, c.body - 1} : c.body > 0}}

EndTorn ==
  /\ ended = "no"
  /\ \E i \in (IF pc = "first" THEN 1 ELSE 2) .. Len(wire) :
       \E c \in Torn(wire[i]) :
         wire' = Append(SubSeq(wire, 1, i - 1), c)
  /\ ended' = "torn"
  /\ UNCHANGED <<pad, calls, sent, filled>> /\ UNCHANGED readerVars

-----------------------------------------------------------------------------
(* The reader: ReadFrom and the ReadData in it.                            *)
writerVars == <<ended, pad, calls, sent, filled>>

torn == ended = "torn" /\ Len(wire) = 1

(* The next byte of the prefix.                                            *)
byte == Head(wire[1].prefix)
dropByte == wire' = [wire EXCEPT ![1] = [@ EXCEPT !.prefix = Tail(@)]]

ReadFirst ==
  /\ pc = "first"
  /\ wire # <<>>
  /\ isData' = (byte \div 128 = 1)
  /\ pc' = IF (byte \div 64) % 2 = 1 THEN "more" ELSE "body"
  /\ n' = byte % 64
  /\ more' = 0
  /\ dropByte
  /\ UNCHANGED received /\ UNCHANGED writerVars

ReadMore ==
  /\ pc = "more"
  /\ wire[1].prefix # <<>> /\ more < 2
  /\ pc' = IF byte \div 128 = 1 THEN "more" ELSE "body"
  /\ n' = n * 128 + (byte % 128)
  /\ more' = more + 1
  /\ dropByte
  /\ UNCHANGED <<isData, received>> /\ UNCHANGED writerVars

readError == "ErrUnexpectedEOF"

ReadMoreFails ==
  /\ pc = "more"
  /\ more >= 2 \/ wire[1].prefix = <<>>
  /\ pc' = CASE more >= 2 -> "ErrTooLong" [] torn /\ more < 2 -> readError
             [] OTHER -> "garbled"
  /\ UNCHANGED <<wire, isData, n, more, received>> /\ UNCHANGED writerVars

(* Variant: padding is returned.                                           *)
skips_Never == FALSE
skips == ~isData

(* The body has arrived: io.ReadFull and copy, or io.CopyN to nowhere.     *)
ReadBody ==
  /\ pc = "body"
  /\ wire[1].prefix = <<>> /\ n = wire[1].body
  /\ received' = IF skips THEN received
                 ELSE Append(received, IF n < Buffer THEN n ELSE Buffer)
  /\ wire' = Tail(wire)
  /\ pc' = "first"
  /\ UNCHANGED <<isData, n, more>> /\ UNCHANGED writerVars

(* ... or has not, or is not what the reader takes for it.                 *)
ReadBodyFails ==
  /\ pc = "body"
  /\ wire[1].prefix # <<>> \/ n # wire[1].body
  /\ pc' = IF torn /\ n > wire[1].body THEN readError ELSE "garbled"
  /\ UNCHANGED <<wire, isData, n, more, received>> /\ UNCHANGED writerVars

ReadEnd ==
  /\ pc = "first"
  /\ wire = <<>>
  /\ ended # "no"
  /\ pc' = "EOF"
  /\ UNCHANGED <<wire, isData, n, more, received>> /\ UNCHANGED writerVars

Next ==
  \/ \E k \in Size : WriteTo(k)
  \/ \E b \in Budget : WriteFit(b)
  \/ \E p \in Padding : WritePadding(p)
  \/ PaddingChunk \/ EndClean \/ EndTorn
  \/ ReadFirst \/ ReadMore \/ ReadMoreFails \/ ReadBody \/ ReadBodyFails \/ ReadEnd

Spec == Init /\ [][Next]_vars

-----------------------------------------------------------------------------
(* Properties.                                                             *)

(* ReadFrom returns the packets WriteTo accepted, in order, cut to the     *)
(* caller's buffer, and never padding or a part of a torn packet.          *)
(* ReadData reports io.EOF only between chunks and ErrUnexpectedEOF only   *)
(* inside one; it never loses its place in the stream and never finds a    *)
(* prefix too long.                                                        *)
ReadsWhatWasWritten ==
  /\ Len(received) <= Len(sent)
  /\ \A i \in DOMAIN received :
       received[i] = IF sent[i] < Buffer THEN sent[i] ELSE Buffer
  /\ pc = "EOF" => ended = "clean" /\ Len(received) = Len(sent)
  /\ pc = "ErrUnexpectedEOF" => ended = "torn"
  /\ pc \notin {"garbled", "ErrTooLong"}

(* The size of an encoded packet.                                          *)
encoded(k) == Len(dataPrefixForLength(k)) + k

(* The packet MaxDataForSize allows fits the budget, at every boundary.    *)
FitsBudget == encoded(filled.size) <= filled.budget
=============================================================================
