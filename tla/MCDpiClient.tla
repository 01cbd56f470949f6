---------------------------- MODULE MCDpiClient -----------------------------
(***************************************************************************)
(* The dpi client for TLC, with all it does at a time bounded: its         *)
(* sessions with the servers, the resolver's cache, and the upload side of *)
(* a tunneled connection.  part says which of them a behaviour is about;   *)
(* the state of the others stays what it is initially.                     *)
(***************************************************************************)
EXTENDS DpiSessions, TLC

CONSTANTS
  Resolver, Name, Fallback, Cap, Default,
  WriteCaller, none, MaxWrites, WriteCap, MaxBatch, MaxChunks, ChunkLen, ReadCap

VARIABLES
  part,
  cache, timeout, rpc, name, entry, reply, context, wait, ch, hit,
  writing, accepted, writeCh, size, ack, result, pumpW, batch, timer, delivered,
  server, once, stream, pumpR, nread, readCh, readClosed, readBuf, reading,
  received
dnsVars == <<cache, timeout, rpc, name, entry, reply, context, wait, ch, hit>>
tunnelVars ==
  <<writing, accepted, writeCh, size, ack, result, pumpW, batch, timer, delivered,
    server, once, stream, pumpR, nread, readCh, readClosed, readBuf, reading,
    received>>

(* Replies with TTLs below, at and above the cap, and with a TTL of 0.      *)
SomeReplies ==
  {<<[a |-> FALSE, ttl |-> 1], [a |-> TRUE, ttl |-> 3]>>,
   <<[a |-> FALSE, ttl |-> 2], [a |-> TRUE, ttl |-> 0]>>}

Dns == INSTANCE DnsResolver WITH
  pc <- rpc, Replies <- SomeReplies, Deadline <- {None}
T == INSTANCE TunnelConn

MCInit ==
  /\ part \in {"sessions", "dns", "upload"}
  /\ Init /\ Dns!Init /\ T!Init
  /\ part # "sessions" => kind = [s \in Session |-> "http"]

(* Nobody reads while the uploads are looked at.                           *)
MCNext ==
  \/ part = "sessions" /\ Next /\ UNCHANGED <<part, dnsVars, tunnelVars>>
  \/ part = "dns" /\ Dns!Next /\ UNCHANGED <<part, vars, tunnelVars>>
  \/ part = "upload" /\ T!Next /\ UNCHANGED <<part, vars, dnsVars>> /\ reading' = "idle"

MCSpec == MCInit /\ [][MCNext]_<<part, vars, dnsVars, tunnelVars>>

(* Sessions, resolvers and writers are interchangeable; the instance uses  *)
(* the same values for all three, which never meet.                        *)
Symmetry == Permutations(Session \cup Resolver \cup WriteCaller)

-----------------------------------------------------------------------------
(* The properties of the three components.                                 *)

(* The state of sessions, resolver and connection has its type.            *)
TypesOK == TypeOK /\ Dns!TypeOK /\ T!TypeOK

(* The cache serves no answer beyond its time and drops none before it.    *)
CacheHonoursTTL == Dns!CacheHonoursTTL

(* What reaches the target is a prefix of what entered writeCh.            *)
UploadInOrder == T!UploadInOrder

(* A Write reports success only if its bytes were sent or the server had   *)
(* let go of the connection.                                               *)
SuccessMeansSent == T!SuccessMeansSent
=============================================================================
