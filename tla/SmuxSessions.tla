---------------------------- MODULE SmuxSessions ----------------------------
(***************************************************************************)
(* The smux sessions of the snowflake server: acceptKCP takes the KCP      *)
(* connections of the clients, and for each of them a goroutine runs       *)
(* acceptSmux, which registers its session in the smuxSessions table,      *)
(* closes the session it displaces, accepts streams until the session is   *)
(* over, and cleans up in its deferred calls.                              *)
(***************************************************************************)
EXTENDS Naturals, FiniteSets

CONSTANTS
  Client,      \* client IDs
  Conn,        \* KCP connections (and the goroutine and session of each)
  None,
  MaxStreams   \* bound on the streams accepted per session

ASSUME SmuxAssumption == None \notin Client \cup Conn /\ MaxStreams \in Nat

VARIABLES
  listening,     \* acceptKCP is in its loop
  owner,         \* the client ID that RemoteAddr returns, or None
  pc,            \* the goroutine: see TypeOK
  conn,          \* the KCP connection: "none", "open" or "closed"
  sess,          \* the session: "none", "open", "broken" or "closed"
  smuxSessions,  \* the table under smuxMu, None where it has no entry
  streams,       \* streams accepted
  foreign        \* history: entries of a client that the goroutine of
                 \* another session deleted
vars == <<listening, owner, pc, conn, sess, smuxSessions, streams, foreign>>

TypeOK ==
  /\ listening \in BOOLEAN
  /\ owner \in [Conn -> Client \cup {None}]
  /\ pc \in [Conn -> {"none", "smux", "register", "accept", "delete",
                      "closeSess", "closeConn", "done"}]
  /\ conn \in [Conn -> {"none", "open", "closed"}]
  /\ sess \in [Conn -> {"none", "open", "broken", "closed"}]
  /\ smuxSessions \in [Client -> Conn \cup {None}]
  /\ streams \in [Conn -> 0 .. MaxStreams]
  /\ foreign \in [Client -> 0 .. Cardinality(Conn)]

Init ==
  /\ listening = TRUE
  /\ owner = [c \in Conn |-> None] /\ pc = [c \in Conn |-> "none"]
  /\ conn = [c \in Conn |-> "none"] /\ sess = [c \in Conn |-> "none"]
  /\ smuxSessions = [k \in Client |-> None]
  /\ streams = [c \in Conn |-> 0] /\ foreign = [k \in Client |-> 0]

go(c, from, to) == pc[c] = from /\ pc' = [pc EXCEPT ![c] = to]

-----------------------------------------------------------------------------
(* acceptKCP.  A temporary error makes it try again, any other ends it.    *)
AcceptKCP(c, k) ==
  /\ listening
  /\ go(c, "none", "smux")
  /\ owner' = [owner EXCEPT ![c] = k]
  /\ conn' = [conn EXCEPT ![c] = "open"]
  /\ UNCHANGED <<listening, sess, smuxSessions, streams, foreign>>

AcceptKCPFails ==
  /\ listening /\ listening' = FALSE
  /\ UNCHANGED <<owner, pc, conn, sess, smuxSessions, streams, foreign>>

(* acceptSmux.                                                             *)
SmuxServer(c) ==
  /\ go(c, "smux", "register")
  /\ sess' = [sess EXCEPT ![c] = "open"]
  /\ UNCHANGED <<listening, owner, conn, smuxSessions, streams, foreign>>

SmuxServerFails(c) ==
  /\ go(c, "smux", "closeConn")
  /\ UNCHANGED <<listening, owner, conn, sess, smuxSessions, streams, foreign>>

(* Variant: the displaced session is left alone.                           *)
displaced_None(c) == {}
displaced(c) == {smuxSessions[owner[c]]} \ {None}

(* Under smuxMu.  Session.Close closes the connection under it.            *)
Register(c) ==
  /\ go(c, "register", "accept")
  /\ sess' = [d \in Conn |-> IF d \in displaced(c) THEN "closed" ELSE sess[d]]
  /\ conn' = [d \in Conn |-> IF d \in displaced(c) THEN "closed" ELSE conn[d]]
  /\ smuxSessions' = [smuxSessions EXCEPT ![owner[c]] = c]
  /\ UNCHANGED <<listening, owner, streams, foreign>>

(* The session ends by itself: its peer closed it, or a keepalive timeout. *)
Break(c) ==
  /\ sess[c] = "open" /\ sess' = [sess EXCEPT ![c] = "broken"]
  /\ UNCHANGED <<listening, owner, pc, conn, smuxSessions, streams, foreign>>

(* RunStreamAcceptor.  The stream's goroutine is in module Relay.          *)
AcceptStream(c) ==
  /\ go(c, "accept", "accept") /\ sess[c] = "open" /\ streams[c] < MaxStreams
  /\ streams' = [streams EXCEPT ![c] = @ + 1]
  /\ UNCHANGED <<listening, owner, conn, sess, smuxSessions, foreign>>

(* Variant: only the end of the peer ends the loop.                        *)
isOver_Broken(c) == sess[c] = "broken"
isOver(c) == sess[c] # "open"

AcceptStreamFails(c) ==
  /\ go(c, "accept", "delete") /\ isOver(c)
  /\ UNCHANGED <<listening, owner, conn, sess, smuxSessions, streams, foreign>>

(* The deferred calls.  delete removes the entry of the client, whatever   *)
(* session it holds.                                                       *)
deleted(k) == [smuxSessions EXCEPT ![k] = None]

Delete(c) ==
  /\ go(c, "delete", "closeSess")
  /\ smuxSessions' = deleted(owner[c])
  /\ foreign' = IF smuxSessions[owner[c]] \in {c, None} THEN foreign
                ELSE [foreign EXCEPT ![owner[c]] = @ + 1]
  /\ UNCHANGED <<listening, owner, conn, sess, streams>>

CloseSess(c) ==
  /\ go(c, "closeSess", "closeConn")
  /\ sess' = [sess EXCEPT ![c] = "closed"]
  /\ conn' = [conn EXCEPT ![c] = "closed"]
  /\ UNCHANGED <<listening, owner, smuxSessions, streams, foreign>>

CloseConn(c) ==
  /\ go(c, "closeConn", "done")
  /\ conn' = [conn EXCEPT ![c] = "closed"]
  /\ UNCHANGED <<listening, owner, sess, smuxSessions, streams, foreign>>

acceptSmux(c) ==
  \/ SmuxServer(c) \/ SmuxServerFails(c) \/ Register(c) \/ AcceptStream(c)
  \/ AcceptStreamFails(c) \/ Delete(c) \/ CloseSess(c) \/ CloseConn(c)

Next ==
  \/ AcceptKCPFails
  \/ \E c \in Conn : Break(c) \/ acceptSmux(c) \/ \E k \in Client : AcceptKCP(c, k)

Spec == Init /\ [][Next]_vars

(* The goroutines run.                                                     *)
FairSpec == Spec /\ \A c \in Conn : WF_vars(acceptSmux(c))

-----------------------------------------------------------------------------
(* Properties.                                                             *)

(* The table never holds a session whose goroutine has left its loop and   *)
(* cleaned up, in whatever order the goroutines of a client register,      *)
(* displace each other and delete.                                         *)
NoFinishedSession ==
  \A k \in Client : smuxSessions[k] # None =>
    /\ owner[smuxSessions[k]] = k
    /\ pc[smuxSessions[k]] \in {"accept", "delete"}

(* Registering closes the session a client had, so that it has one open    *)
(* session at a time, except for one more each time the goroutine of a     *)
(* displaced session deletes the entry of its successor: the next session  *)
(* to register then does not find the successor and leaves it open.        *)
live(k) == {c \in Conn : owner[c] = k /\ pc[c] \in {"accept", "delete"} /\ sess[c] = "open"}

OneSessionPerClient ==
  \A k \in Client : Cardinality(live(k)) <= 1 + foreign[k]

(* A session that is displaced or breaks is left by its goroutine, which   *)
(* closes its connection and takes it out of the table.                    *)
OverIsCleanedUp ==
  \A c \in Conn : sess[c] \in {"broken", "closed"} ~>
    pc[c] = "done" /\ conn[c] = "closed" /\ \A k \in Client : smuxSessions[k] # c
=============================================================================
