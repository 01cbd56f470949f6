---------------------------- MODULE StreamTarget ----------------------------
(***************************************************************************)
(* How the destination of a connection travels in the snowflake transport: *)
(* from the SOCKS5 request that the client's listener reads                *)
(* (HandshakeServer), through the stream header (WriteTarget, ReadTarget), *)
(* to the address that the server dials (handleInboundStream).  Both byte  *)
(* strings may end early, at any byte.                                     *)
(*                                                                         *)
(* A byte is a number; a host is a Go string, of which the model keeps how *)
(* it is spelt: dotted or colon notation of an address, or another name.   *)
(***************************************************************************)
EXTENDS Integers, SequencesExt

CONSTANTS
  Requests,      \* the byte strings that SOCKS5 clients send
  Spelling(_),   \* the host that the bytes of a name spell
  ForwardSocks   \* ServerForwardSocks, or NoAddr when it is empty

NoAddr == [host |-> [form |-> "none", bytes |-> <<>>], port |-> 0]

StreamClientDial == 1
StreamServerDial == 2
StreamForward == 3

VARIABLES
  request,   \* what the client sends
  pc,        \* "handshake", "open", "stream", "dialled" or "failed"
  target,    \* what HandshakeServer returned
  stream,    \* the bytes written to the stream
  dialled    \* the address the server dials
vars == <<request, pc, target, stream, dialled>>

-----------------------------------------------------------------------------
(* Addresses.  The text of a 16-byte address that maps a 4-byte one is in  *)
(* dotted notation, and parses as a 4-byte address.                        *)
mapped == <<0, 0, 0, 0, 0, 0, 0, 0, 0, 0, 255, 255>>
from(s, i) == SubSeq(s, i, Len(s))

isMapped(ip) == Len(ip) = 16 /\ SubSeq(ip, 1, 12) = mapped
ipString(ip) ==
  IF Len(ip) = 4 THEN [form |-> "dotted", bytes |-> ip]
  ELSE IF isMapped(ip) THEN [form |-> "dotted", bytes |-> from(ip, 13)]
  ELSE [form |-> "colon", bytes |-> ip]

isIP(host) == host.form \in {"dotted", "colon"}
To4(host) == IF host.form = "dotted" THEN host.bytes
             ELSE IF isMapped(host.bytes) THEN from(host.bytes, 13) ELSE <<>>

(* The address part of a request and of a stream header: a type, the bytes *)
(* of the address (after their number, for a name) and the port.           *)
addrStart(s) == IF s[1] = 3 THEN 3 ELSE 2
addrLen(s) == CASE s[1] = 1 -> 4 [] s[1] = 4 -> 16 [] s[1] = 3 -> s[2]
addrEnd(s) == addrStart(s) + addrLen(s)
supported(s) == s # <<>> /\ s[1] \in {1, 3, 4}

(* ReadFull fails when the string ends early.                              *)
complete(s) ==
  supported(s) /\ Len(s) >= addrStart(s) - 1 /\ Len(s) >= addrEnd(s) + 1

byteAt(s, i) == IF i <= Len(s) THEN s[i] ELSE 0
port(s) == 256 * byteAt(s, addrEnd(s)) + byteAt(s, addrEnd(s) + 1)
hostBytes(s) == SubSeq(s, addrStart(s), addrEnd(s) - 1)
host(s) == IF s[1] = 3 THEN Spelling(hostBytes(s)) ELSE ipString(hostBytes(s))
parsed(s) == [host |-> host(s), port |-> port(s)]

(* HandshakeServer: the methods offered, then the CONNECT request.         *)
methodsEnd(s) == 2 + s[2]
connect(s) == from(s, methodsEnd(s) + 4)
HandshakeOk(s) ==
  /\ Len(s) >= 2 /\ s[1] = 5
  /\ Len(s) >= methodsEnd(s) + 3
  /\ s[methodsEnd(s) + 1] = 5
  /\ s[methodsEnd(s) + 2] = 1
  /\ complete(connect(s))

(* WriteTarget.  Variant: every address is cut to 4 bytes.                 *)
header_To4Only(h) ==
  IF isIP(h) THEN <<1>> \o (IF To4(h) # <<>> THEN To4(h) ELSE SubSeq(h.bytes, 1, 4))
  ELSE <<3, Len(h.bytes)>> \o h.bytes
header(h) ==
  IF isIP(h) /\ To4(h) # <<>> THEN <<1>> \o To4(h)
  ELSE IF isIP(h) THEN <<4>> \o h.bytes
  ELSE <<3, Len(h.bytes)>> \o h.bytes

WriteTarget(type, t) ==
  IF type = StreamForward THEN <<type>>
  ELSE <<type>> \o header(t.host) \o <<t.port \div 256, t.port % 256>>

-----------------------------------------------------------------------------
Init ==
  /\ request \in Requests
  /\ pc = "handshake" /\ target = NoAddr
  /\ stream = <<>> /\ dialled = NoAddr

(* The client may end before it has sent all of its request.               *)
prefix(s, n) == SubSeq(s, 1, n)

Handshake(n) ==
  /\ pc = "handshake" /\ HandshakeOk(prefix(request, n))
  /\ target' = parsed(connect(prefix(request, n)))
  /\ pc' = "open"
  /\ UNCHANGED <<request, stream, dialled>>

HandshakeFails(n) ==
  /\ pc = "handshake" /\ ~HandshakeOk(prefix(request, n))
  /\ pc' = "failed"
  /\ UNCHANGED <<request, target, stream, dialled>>

(* OpenClientDial; the replies to the client are steps of Relay.           *)
OpenClientDial ==
  /\ pc = "open"
  /\ stream' = WriteTarget(StreamClientDial, target)
  /\ pc' = "stream"
  /\ UNCHANGED <<request, target, dialled>>

(* OpenStream failed, or a write did: the server may have got any part of  *)
(* the header, even all of it.                                             *)
OpenClientDialFails ==
  /\ pc = "open"
  /\ \E n \in 0 .. Len(WriteTarget(StreamClientDial, target)) :
        stream' = prefix(WriteTarget(StreamClientDial, target), n)
  /\ pc' = "stream"
  /\ UNCHANGED <<request, target, dialled>>

(* A connection to the forwarding listener sends no request that the       *)
(* client reads: its stream is opened at once.                             *)
OpenForward ==
  /\ pc = "handshake"
  /\ stream' = WriteTarget(StreamForward, NoAddr) /\ pc' = "stream"
  /\ UNCHANGED <<request, target, dialled>>

(* handleInboundStream, on what arrives of the header.                     *)
ReadTargetOk(s) ==
  s # <<>> /\ (s[1] = StreamForward \/ complete(from(s, 2)))

destination(s) ==
  CASE s[1] = StreamClientDial -> parsed(from(s, 2))
    [] s[1] = StreamForward -> ForwardSocks
    [] OTHER -> NoAddr

InboundDial(n) ==
  /\ pc = "stream" /\ ReadTargetOk(prefix(stream, n))
  /\ destination(prefix(stream, n)) # NoAddr
  /\ dialled' = destination(prefix(stream, n)) /\ pc' = "dialled"
  /\ UNCHANGED <<request, target, stream>>

InboundFails(n) ==
  /\ pc = "stream"
  /\ ReadTargetOk(prefix(stream, n)) => destination(prefix(stream, n)) = NoAddr
  /\ pc' = "failed"
  /\ UNCHANGED <<request, target, stream, dialled>>

Next ==
  \/ \E n \in 0 .. Len(request) : Handshake(n) \/ HandshakeFails(n)
  \/ OpenClientDial \/ OpenClientDialFails \/ OpenForward
  \/ \E n \in 0 .. Len(stream) : InboundDial(n) \/ InboundFails(n)

Spec == Init /\ [][Next]_vars

-----------------------------------------------------------------------------
(* Properties.                                                             *)

(* The place that a host names: the same for an address however written.   *)
place(h) == IF isIP(h) /\ To4(h) # <<>> THEN mapped \o To4(h) ELSE h.bytes

(* What the request asks for, from its bytes alone.                        *)
asked ==
  LET c == connect(request) IN
  <<IF c[1] = 1 THEN mapped \o SubSeq(c, 2, 5)
    ELSE IF c[1] = 4 THEN SubSeq(c, 2, 17) ELSE place(Spelling(SubSeq(c, 3, 2 + c[2]))),
    c[Len(c) - 1], c[Len(c)]>>

(* The server dials exactly the host and port that the SOCKS5 client asked *)
(* for, or, for a forwarded connection, its own SOCKS listener; it dials   *)
(* nothing when the request or the stream header is cut short, at whatever *)
(* byte, and nothing for a request other than CONNECT.                     *)
DialsWhatWasAsked ==
  dialled # NoAddr =>
    IF stream = <<StreamForward>> THEN dialled = ForwardSocks
    ELSE /\ HandshakeOk(request)
         /\ asked = <<place(dialled.host), dialled.port \div 256, dialled.port % 256>>
=============================================================================
