------------------------------- MODULE Relay --------------------------------
(***************************************************************************)
(* One proxied connection: a handler prepares an accepted connection a and *)
(* an outgoing connection b, then two goroutines copy between them.  The   *)
(* transports do this in seven places that differ in how they prepare, in  *)
(* what a copying goroutine closes, in how many of them the handler waits  *)
(* for and in what it closes itself; kind says which place this is.        *)
(* A goroutine is named after the connection it reads.                     *)
(***************************************************************************)
EXTENDS Naturals, Sequences

CONSTANTS
  Kind,    \* the places to look at, among AllKinds
  MaxData  \* bound on the pieces of data each peer sends

AllKinds == {"localSocks", "forward", "inbound", "exit", "obfsClient",
             "obfsExternal", "obfsServer", "httpProxy"}
Side == {"a", "b"}
other(s) == IF s = "a" THEN "b" ELSE "a"

VARIABLES
  kind,
  pc,         \* the handler: "prepare", "wait", "done" or "panic"
  step,       \* the preparations done
  failed,     \* history: the preparation that failed, or "none"
  conn,       \* "none", "open" or "closed"
  sent,       \* pieces the peer has sent
  ended,      \* the peer: "no", "eof" or "reset"
  copier,     \* "none", "read", "write", "close" or "done"
  got, put,   \* pieces read from the connection and written to the other
  lost,       \* pieces left in the buffer of the reader of the handshake
  why,        \* how its io.Copy ended: "none", "eof" or "error"
  first       \* history: the goroutine that ended first, or "none"

vars == <<kind, pc, step, failed, conn, sent, ended, copier, got, put, lost,
          why, first>>
peers == <<sent, ended>>
copiers == <<copier, got, put, lost, why, first>>

TypeOK ==
  /\ kind \in Kind
  /\ pc \in {"prepare", "wait", "done", "panic"} /\ step \in 0 .. 4
  /\ failed \in {"none", "handshake", "open", "reply", "stream"}
  /\ conn \in [Side -> {"none", "open", "closed"}]
  /\ sent \in [Side -> 0 .. MaxData] /\ ended \in [Side -> {"no", "eof", "reset"}]
  /\ copier \in [Side -> {"none", "read", "write", "close", "done"}]
  /\ got \in [Side -> 0 .. MaxData] /\ put \in [Side -> 0 .. MaxData]
  /\ lost \in [Side -> 0 .. MaxData]
  /\ why \in [Side -> {"none", "eof", "error"}] /\ first \in Side \cup {"none"}

Init ==
  /\ kind \in Kind
  /\ pc = "prepare" /\ step = 0 /\ failed = "none"
  /\ conn = [s \in Side |-> IF s = "a" THEN "open" ELSE "none"]
  /\ sent = [s \in Side |-> 0] /\ ended = [s \in Side |-> "no"]
  /\ copier = [s \in Side |-> "none"]
  /\ got = [s \in Side |-> 0] /\ put = [s \in Side |-> 0]
  /\ lost = [s \in Side |-> 0]
  /\ why = [s \in Side |-> "none"] /\ first = "none"

-----------------------------------------------------------------------------
(* The peers send, end their side or reset the connection, when they like. *)
PeerSend(s) ==
  /\ conn[s] # "none" /\ ended[s] = "no" /\ sent[s] < MaxData
  /\ sent' = [sent EXCEPT ![s] = @ + 1]
  /\ UNCHANGED <<kind, pc, step, failed, conn, ended>> /\ UNCHANGED copiers

PeerEnd(s) ==
  /\ conn[s] # "none" /\ ended[s] = "no"
  /\ \E e \in {"eof", "reset"} : ended' = [ended EXCEPT ![s] = e]
  /\ UNCHANGED <<kind, pc, step, failed, conn, sent>> /\ UNCHANGED copiers

-----------------------------------------------------------------------------
(* What each place does before it copies: a handshake on a (or the target  *)
(* of an inbound stream), a dial, a reply, and for the dpi HTTP proxy the  *)
(* download stream.                                                        *)
plan(k) ==
  CASE k = "forward" -> <<"open">>
    [] k \in {"inbound", "obfsServer"} -> <<"handshake", "open">>
    [] k \in {"localSocks", "exit", "obfsClient", "obfsExternal"} ->
         <<"handshake", "open", "reply">>
    [] k = "httpProxy" -> <<"handshake", "open", "reply", "stream">>

next == plan(kind)[step + 1]

(* The dpi HTTP proxy reads the request through a bufio.Reader and copies  *)
(* from the connection afterwards: what the reader had taken in is lost.   *)
readAhead ==
  IF kind = "httpProxy" /\ next = "handshake" THEN 0 .. sent["a"] ELSE {0}

Prepare ==
  /\ pc = "prepare" /\ step < Len(plan(kind))
  /\ ~(kind = "obfsExternal" /\ next = "open")
  /\ step' = step + 1
  /\ conn' = IF next = "open" THEN [conn EXCEPT !["b"] = "open"] ELSE conn
  /\ \E n \in readAhead :
       /\ got' = [got EXCEPT !["a"] = @ + n]
       /\ lost' = [lost EXCEPT !["a"] = @ + n]
  /\ UNCHANGED <<kind, pc, failed, copier, put, why, first>> /\ UNCHANGED peers

(* Variant: an outgoing connection is forgotten when the reply fails.      *)
failCloses_OnlyA(k) == {"a"}

(* The connections a failed preparation closes: the dpi HTTP proxy has     *)
(* nothing yet that would close the connection at its server.              *)
failCloses(k) == IF k = "httpProxy" THEN {"a"} ELSE Side

close(S) == [s \in Side |-> IF s \in S /\ conn[s] = "open" THEN "closed" ELSE conn[s]]

PrepareFails ==
  /\ pc = "prepare" /\ step < Len(plan(kind))
  /\ ~(kind = "obfsExternal" /\ next = "open")
  /\ failed' = next
  /\ conn' = close(failCloses(kind))
  /\ pc' = "done"
  /\ UNCHANGED <<kind, step>> /\ UNCHANGED peers /\ UNCHANGED copiers

(* In the external mode of the obfs client clientHandler passes a nil URL  *)
(* to proxy.FromURL, which panics and takes the process down.              *)
PrepareNilDialer ==
  /\ pc = "prepare" /\ kind = "obfsExternal" /\ next = "open"
  /\ pc' = "panic"
  /\ conn' = close(Side)
  /\ UNCHANGED <<kind, step, failed>> /\ UNCHANGED peers /\ UNCHANGED copiers

Start ==
  /\ pc = "prepare" /\ step = Len(plan(kind))
  /\ pc' = "wait"
  /\ copier' = [s \in Side |-> "read"]
  /\ UNCHANGED <<kind, step, failed, conn, got, put, lost, why, first>> /\ UNCHANGED peers

-----------------------------------------------------------------------------
(* The goroutine that copies from s to other(s).                           *)

stuck(s) == kind = "httpProxy" /\ s = "b" /\ conn["b"] = "closed"

(* Variant: a read that returns nothing is taken for data.                 *)
available_Any(s) == TRUE
available(s) == got[s] < sent[s]

CopyRead(s) ==
  /\ copier[s] = "read" /\ conn[s] = "open" /\ available(s) /\ ended[s] # "reset"
  /\ got' = [got EXCEPT ![s] = @ + 1]
  /\ copier' = [copier EXCEPT ![s] = "write"]
  /\ UNCHANGED <<kind, pc, step, failed, conn, put, lost, why, first>> /\ UNCHANGED peers

end(s, how) ==
  /\ why' = [why EXCEPT ![s] = how]
  /\ copier' = [copier EXCEPT ![s] = "close"]
  /\ first' = IF first = "none" THEN s ELSE first
  /\ UNCHANGED <<kind, pc, step, failed, conn, got, put, lost>> /\ UNCHANGED peers

(* Variant: the end of the peer is seen before its last data.              *)
drained_Any(s) == TRUE
drained(s) == got[s] = sent[s]

CopyEOF(s) ==
  /\ copier[s] = "read" /\ conn[s] = "open" /\ ended[s] = "eof" /\ drained(s)
  /\ end(s, "eof")

(* A read fails when the peer has reset, or when Close wakes it; the Read  *)
(* of a tunnelConn is not woken (module TunnelConn).                       *)
readFails(s) == (ended[s] = "reset" \/ conn[s] = "closed") /\ ~stuck(s)

CopyReadError(s) ==
  /\ copier[s] = "read" /\ readFails(s)
  /\ end(s, "error")

CopyWrite(s) ==
  /\ copier[s] = "write" /\ conn[other(s)] = "open" /\ ended[other(s)] # "reset"
  /\ put' = [put EXCEPT ![s] = @ + 1]
  /\ copier' = [copier EXCEPT ![s] = "read"]
  /\ UNCHANGED <<kind, pc, step, failed, conn, got, lost, why, first>> /\ UNCHANGED peers

(* A write fails once the other side is closed or its peer is gone.        *)
CopyWriteError(s) ==
  /\ copier[s] = "write"
  /\ conn[other(s)] = "closed" \/ ended[other(s)] # "no"
  /\ end(s, "error")

(* What the goroutine closes when its io.Copy has returned.                *)
copyCloses(k, s) ==
  CASE k \in {"obfsClient", "obfsServer"} -> Side
    [] k = "httpProxy" -> {}
    [] OTHER -> {other(s)}

CopyClose(s) ==
  /\ copier[s] = "close"
  /\ conn' = close(copyCloses(kind, s))
  /\ copier' = [copier EXCEPT ![s] = "done"]
  /\ UNCHANGED <<kind, pc, step, failed, got, put, lost, why, first>> /\ UNCHANGED peers

(* The handler waits for one goroutine, in the obfs transports for both,   *)
(* and closes what it deferred.  Variant: the HTTP proxy waits for both.   *)
waitsFor_Both(k) == 2
waitsFor(k) == IF k \in {"obfsClient", "obfsServer"} THEN 2 ELSE 1

deferred(k) ==
  CASE k = "localSocks" -> {} [] k = "exit" -> {"b"} [] OTHER -> Side

Return ==
  /\ pc = "wait"
  /\ IF waitsFor(kind) = 1 THEN \E s \in Side : copier[s] = "done"
                           ELSE \A s \in Side : copier[s] = "done"
  /\ conn' = close(deferred(kind))
  /\ pc' = "done"
  /\ UNCHANGED <<kind, step, failed>> /\ UNCHANGED peers /\ UNCHANGED copiers

Handler == Prepare \/ PrepareFails \/ PrepareNilDialer \/ Start \/ Return
Copier(s) ==
  \/ CopyRead(s) \/ CopyEOF(s) \/ CopyReadError(s)
  \/ CopyWrite(s) \/ CopyWriteError(s) \/ CopyClose(s)

Next == Handler \/ \E s \in Side : PeerSend(s) \/ PeerEnd(s) \/ Copier(s)

Spec == Init /\ [][Next]_vars

(* The goroutines run; handshakes, dials and writes end in some way.  The  *)
(* peers do what they like.                                                *)
FairSpec == Spec /\ WF_vars(Handler) /\ \A s \in Side : WF_vars(Copier(s))

-----------------------------------------------------------------------------
(* Properties.                                                             *)

(* Data of a peer that ended cleanly is lost only if the other direction   *)
(* ended before, or if it could not be written: the direction that ends    *)
(* first, and cleanly, is complete, and only the other one is cut off.     *)
(* (What a client sends with its CONNECT request is the exception: lost.)  *)
LossHasAReason ==
  \A s \in Side :
    copier[s] = "done" /\ ended[s] = "eof" /\ put[s] + lost[s] < sent[s] =>
      first = other(s) \/ got[s] > put[s] + lost[s]

(* Once the handler and the goroutines are done, nothing is left open: not *)
(* by localSocks and exit, which leave a connection to a goroutine that    *)
(* outlives them, nor on any path through a failed preparation, except     *)
(* that the dpi HTTP proxy abandons the connection at its server when the  *)
(* reply to its client or the download stream fails.                       *)
NothingLeftOpen ==
  /\ pc \in {"done", "panic"}
  /\ \A s \in Side : copier[s] \in {"none", "done"} \/ (copier[s] = "read" /\ stuck(s))
  => conn["a"] # "open" /\
     (conn["b"] = "open" => kind = "httpProxy" /\ failed \in {"reply", "stream"})

(* When a peer ends or resets, both connections are closed, whichever kind *)
(* of handler it is, and all goroutines return, but for the one that waits *)
(* in the Read of a closed tunnelConn.                                     *)
RelayEnds ==
  /\ (\E s \in Side : copier[s] # "none" /\ ended[s] # "no") ~>
       conn["a"] = "closed" /\ conn["b"] = "closed"
  /\ first # "none" ~>
       \A s \in Side : copier[s] = "done" \/ (copier[s] = "read" /\ stuck(s))
=============================================================================
