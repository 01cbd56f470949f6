-------------------------- MODULE SnowflakeServer ---------------------------
(***************************************************************************)
(* The packet side of the snowflake server: WebSocket handlers (serveHTTP) *)
(* move packets between their connection and the QueuePacketConn that the  *)
(* KCP listener reads and writes.  Handlers of one client share its send   *)
(* queue; the table of queues is the one that ClientMap implements, which  *)
(* may forget a client at any time.  Packets are numbered by direction in  *)
(* the order in which they enter.                                          *)
(***************************************************************************)
EXTENDS Naturals, Sequences, SequencesExt

CONSTANTS
  Client, Handler,
  MaxQueues,  \* bound on the send queues made
  MaxDown,    \* bound on the packets KCP writes
  MaxUp,      \* bound on the packets clients send
  QueueSize   \* queueSize; 32 in the code

VARIABLES
  queue, made,  \* the table of send queues
  content,      \* what is in each send queue
  recvQueue,    \* packets up, tagged with their client
  closed,       \* the QueuePacketConn is closed
  conn,         \* each handler's connection: "none", "open" or "closed"
  client,       \* its client
  reader, writer, main,  \* program counters of its goroutines
  drains,       \* the send queue its writer ranges over
  rpacket, wpacket,      \* the packet in hand; 0 if none
  errCh,        \* the number of errors in it
  late,         \* history: packets the writer took after conn was closed
  ndown, nup,   \* packets that entered so far
  dest,         \* history: the client each packet down was written to
  sent,         \* history: packets that went out, in order
  by,           \* history: the handler that sent each of them
  receiver,     \* the caller of ReadFrom: "idle", "wait" or "failed"
  received      \* history: packets ReadFrom returned

queueVars == <<queue, made>>
handlerVars == <<conn, client, main>>
downVars == <<content, writer, drains, wpacket, late, ndown, dest, sent, by>>
upVars == <<recvQueue, reader, rpacket, nup, receiver, received>>
vars == <<queue, made, content, recvQueue, closed, conn, client, reader, writer,
          main, drains, rpacket, wpacket, errCh, late, ndown, nup, dest, sent,
          by, receiver, received>>

Queue == 1 .. MaxQueues
Table == INSTANCE SendQueues WITH Addr <- Client

TypeOK ==
  /\ queue \in [Client -> 0 .. MaxQueues] /\ made \in 0 .. MaxQueues
  /\ \A q \in Queue : content[q] \in Seq(1 .. MaxDown) /\ Len(content[q]) <= QueueSize
  /\ recvQueue \in Seq(1 .. MaxUp) /\ Len(recvQueue) <= QueueSize
  /\ closed \in BOOLEAN
  /\ conn \in [Handler -> {"none", "open", "closed"}]
  /\ client \in [Handler -> Client]
  /\ reader \in [Handler -> {"none", "read", "push", "done"}]
  /\ writer \in [Handler -> {"none", "start", "range", "write", "done"}]
  /\ main \in [Handler -> {"none", "wait", "done"}]
  /\ drains \in [Handler -> 0 .. MaxQueues]
  /\ rpacket \in [Handler -> 0 .. MaxUp] /\ wpacket \in [Handler -> 0 .. MaxDown]
  /\ errCh \in [Handler -> 0 .. 2] /\ late \in [Handler -> Nat]
  /\ ndown \in 0 .. MaxDown /\ nup \in 0 .. MaxUp
  /\ receiver \in {"idle", "wait", "failed"}

Init ==
  /\ Table!Init /\ content = [q \in Queue |-> <<>>]
  /\ recvQueue = <<>> /\ closed = FALSE
  /\ conn = [h \in Handler |-> "none"] /\ client \in [Handler -> Client]
  /\ reader = [h \in Handler |-> "none"] /\ writer = [h \in Handler |-> "none"]
  /\ main = [h \in Handler |-> "none"] /\ drains = [h \in Handler |-> 0]
  /\ rpacket = [h \in Handler |-> 0] /\ wpacket = [h \in Handler |-> 0]
  /\ errCh = [h \in Handler |-> 0] /\ late = [h \in Handler |-> 0]
  /\ ndown = 0 /\ nup = 0 /\ dest = <<>> /\ sent = <<>> /\ by = <<>>
  /\ receiver = "idle" /\ received = <<>>

-----------------------------------------------------------------------------
(* serveHTTP.  An upgrade, token or client ID that fails ends the handler; *)
(* otherwise its goroutines start.                                         *)
ServeReject(h) ==
  /\ conn[h] = "none"
  /\ conn' = [conn EXCEPT ![h] = "closed"]
  /\ main' = [main EXCEPT ![h] = "done"]
  /\ UNCHANGED <<client, closed, errCh>>
  /\ UNCHANGED queueVars /\ UNCHANGED downVars /\ UNCHANGED upVars

Serve(h) ==
  /\ conn[h] = "none"
  /\ conn' = [conn EXCEPT ![h] = "open"]
  /\ main' = [main EXCEPT ![h] = "wait"]
  /\ reader' = [reader EXCEPT ![h] = "read"]
  /\ writer' = [writer EXCEPT ![h] = "start"]
  /\ UNCHANGED <<client, closed, errCh, recvQueue, rpacket, nup, receiver, received, content,
                 drains, wpacket, late, ndown, dest, sent, by>>
  /\ UNCHANGED queueVars

(* Variant: the handler waits for both goroutines.                         *)
ended_Both(h) == errCh[h] = 2
ended(h) == errCh[h] > 0

(* <-errCh and the deferred conn.Close.                                    *)
ServeReturn(h) ==
  /\ main[h] = "wait"
  /\ ended(h)
  /\ errCh' = [errCh EXCEPT ![h] = @ - 1]
  /\ main' = [main EXCEPT ![h] = "done"]
  /\ conn' = [conn EXCEPT ![h] = "closed"]
  /\ UNCHANGED <<client, closed>>
  /\ UNCHANGED queueVars /\ UNCHANGED downVars /\ UNCHANGED upVars

-----------------------------------------------------------------------------
(* The reader goroutine: ReadData, then QueueIncoming, which first looks   *)
(* at closed and then queues without waiting.                              *)
ReaderPacket(h) ==
  /\ reader[h] = "read"
  /\ conn[h] = "open"
  /\ nup < MaxUp
  /\ nup' = nup + 1
  /\ IF closed THEN UNCHANGED <<rpacket, reader>>
     ELSE /\ rpacket' = [rpacket EXCEPT ![h] = nup + 1]
          /\ reader' = [reader EXCEPT ![h] = "push"]
  /\ UNCHANGED <<recvQueue, receiver, received, closed, errCh>>
  /\ UNCHANGED queueVars /\ UNCHANGED handlerVars /\ UNCHANGED downVars

push(q, p) == IF Len(q) < QueueSize THEN Append(q, p) ELSE q

(* Variant: a receive leaves the packet in the queue.                      *)
rest_Peek(q) == q
rest(q) == Tail(q)

QueueIncoming(h) ==
  /\ reader[h] = "push"
  /\ recvQueue' = push(recvQueue, rpacket[h])
  /\ rpacket' = [rpacket EXCEPT ![h] = 0]
  /\ reader' = [reader EXCEPT ![h] = "read"]
  /\ UNCHANGED <<receiver, received, nup, closed, errCh>>
  /\ UNCHANGED queueVars /\ UNCHANGED handlerVars /\ UNCHANGED downVars

ReaderError(h) ==
  /\ reader[h] = "read"
  /\ errCh' = [errCh EXCEPT ![h] = @ + 1]
  /\ reader' = [reader EXCEPT ![h] = "done"]
  /\ UNCHANGED <<recvQueue, rpacket, receiver, received, nup, closed>>
  /\ UNCHANGED queueVars /\ UNCHANGED handlerVars /\ UNCHANGED downVars

-----------------------------------------------------------------------------
(* The writer goroutine: it asks for the client's queue once and ranges    *)
(* over it; the queue is never closed.                                     *)
WriterStart(h) ==
  /\ writer[h] = "start"
  /\ Table!Find(client[h]) \/ Table!Make(client[h])
  /\ drains' = [drains EXCEPT ![h] = queue'[client[h]]]
  /\ writer' = [writer EXCEPT ![h] = "range"]
  /\ UNCHANGED <<content, wpacket, late, ndown, dest, sent, by, closed, errCh>>
  /\ UNCHANGED handlerVars /\ UNCHANGED upVars

WriterTake(h) ==
  /\ writer[h] = "range"
  /\ content[drains[h]] # <<>>
  /\ wpacket' = [wpacket EXCEPT ![h] = Head(content[drains[h]])]
  /\ content' = [content EXCEPT ![drains[h]] = rest(@)]
  /\ late' = [late EXCEPT ![h] = IF conn[h] = "closed" THEN @ + 1 ELSE @]
  /\ writer' = [writer EXCEPT ![h] = "write"]
  /\ UNCHANGED <<drains, ndown, dest, sent, by, closed, errCh>>
  /\ UNCHANGED queueVars /\ UNCHANGED handlerVars /\ UNCHANGED upVars

(* WriteData and Flush.                                                    *)
WriterSent(h) ==
  /\ writer[h] = "write"
  /\ conn[h] = "open"
  /\ sent' = Append(sent, wpacket[h]) /\ by' = Append(by, h)
  /\ wpacket' = [wpacket EXCEPT ![h] = 0]
  /\ writer' = [writer EXCEPT ![h] = "range"]
  /\ UNCHANGED <<content, drains, late, ndown, dest, closed, errCh>>
  /\ UNCHANGED queueVars /\ UNCHANGED handlerVars /\ UNCHANGED upVars

(* Variant: the packet is queued again.                                    *)
drop_Requeue(q, p) == push(q, p)

afterError == "done"
drop(q, p) == q

(* They fail, as they must once the connection is closed.                  *)
WriterError(h) ==
  /\ writer[h] = "write"
  /\ content' = [content EXCEPT ![drains[h]] = drop(@, wpacket[h])]
  /\ wpacket' = [wpacket EXCEPT ![h] = 0]
  /\ errCh' = [errCh EXCEPT ![h] = @ + 1]
  /\ writer' = [writer EXCEPT ![h] = afterError]
  /\ UNCHANGED <<drains, late, ndown, dest, sent, by, closed>>
  /\ UNCHANGED queueVars /\ UNCHANGED handlerVars /\ UNCHANGED upVars

-----------------------------------------------------------------------------
(* The callers of the QueuePacketConn.                                     *)

(* WriteTo(c): SendQueue and a push that does not wait.                    *)
WriteTo(c) ==
  /\ ~closed
  /\ ndown < MaxDown
  /\ ndown' = ndown + 1
  /\ dest' = Append(dest, c)
  /\ Table!Find(c) \/ Table!Make(c)
  /\ content' = [content EXCEPT ![queue'[c]] = push(@, ndown + 1)]
  /\ UNCHANGED <<writer, drains, wpacket, late, sent, by, closed, errCh>>
  /\ UNCHANGED handlerVars /\ UNCHANGED upVars

(* ReadFrom: the first select looks at closed only, the second one waits   *)
(* and chooses freely if both are ready.                                   *)
ReadFrom ==
  /\ receiver = "idle"
  /\ receiver' = IF closed THEN "failed" ELSE "wait"
  /\ UNCHANGED <<recvQueue, reader, rpacket, nup, received, closed, errCh>>
  /\ UNCHANGED queueVars /\ UNCHANGED handlerVars /\ UNCHANGED downVars

ReadFromPacket ==
  /\ receiver = "wait"
  /\ recvQueue # <<>>
  /\ received' = Append(received, Head(recvQueue))
  /\ recvQueue' = rest(recvQueue)
  /\ receiver' = "idle"
  /\ UNCHANGED <<reader, rpacket, nup, closed, errCh>>
  /\ UNCHANGED queueVars /\ UNCHANGED handlerVars /\ UNCHANGED downVars

ReadFromClosed ==
  /\ receiver = "wait"
  /\ closed
  /\ receiver' = "failed"
  /\ UNCHANGED <<recvQueue, reader, rpacket, nup, received, closed, errCh>>
  /\ UNCHANGED queueVars /\ UNCHANGED handlerVars /\ UNCHANGED downVars

Close ==
  /\ ~closed
  /\ closed' = TRUE
  /\ UNCHANGED errCh
  /\ UNCHANGED queueVars /\ UNCHANGED handlerVars
  /\ UNCHANGED downVars /\ UNCHANGED upVars

(* The client map forgets an idle client.                                  *)
Expire(c) ==
  /\ Table!Expire(c)
  /\ UNCHANGED <<closed, errCh>>
  /\ UNCHANGED handlerVars /\ UNCHANGED downVars /\ UNCHANGED upVars

Reader(h) == ReaderPacket(h) \/ QueueIncoming(h) \/ ReaderError(h)
Writer(h) == WriterStart(h) \/ WriterTake(h) \/ WriterSent(h) \/ WriterError(h)

Next ==
  \/ \E h \in Handler :
       ServeReject(h) \/ Serve(h) \/ ServeReturn(h) \/ Reader(h) \/ Writer(h)
  \/ \E c \in Client : WriteTo(c) \/ Expire(c)
  \/ ReadFrom \/ ReadFromPacket \/ ReadFromClosed \/ Close

Spec == Init /\ [][Next]_vars

(* Handlers and their writers run, a read of a closed connection fails and *)
(* a select that can go on does.                                           *)
FairSpec ==
  /\ Spec
  /\ WF_vars(ReadFromPacket \/ ReadFromClosed)
  /\ \A h \in Handler :
       /\ WF_vars(ServeReturn(h)) /\ WF_vars(Writer(h)) /\ WF_vars(QueueIncoming(h))
       /\ WF_vars(conn[h] = "closed" /\ ReaderError(h))

-----------------------------------------------------------------------------
(* Properties.                                                             *)

(* What writers do with the queue that the handlers of a client share: a   *)
(* connection carries packets of its own client only, in the order in      *)
(* which KCP wrote them, whoever else drains the queue and however often   *)
(* the client was forgotten; and a writer that outlives its connection     *)
(* takes at most one more packet.                                          *)
WritersKeepOrder ==
  /\ \A i \in DOMAIN sent : dest[sent[i]] = client[by[i]]
  /\ \A i, j \in DOMAIN sent : i < j /\ by[i] = by[j] => sent[i] < sent[j]
  /\ \A h \in Handler : late[h] <= 1

Held(f) == {f[h] : h \in Handler} \ {0}

Down == INSTANCE PacketChannel WITH
  Packet <- 1 .. MaxDown, given <- 1 .. ndown, out <- sent,
  flight <- UNION {ToSet(content[q]) : q \in Queue} \cup Held(wpacket)

Up == INSTANCE PacketChannel WITH
  Packet <- 1 .. MaxUp, given <- 1 .. nup, out <- received,
  flight <- ToSet(recvQueue) \cup Held(rpacket)

(* Both directions are packet channels: nothing comes out twice or from    *)
(* nowhere, through WriteTo, the send queues and the writers, nor through  *)
(* the readers, recvQueue and ReadFrom.                                    *)
ImplementsPacketChannel == Down!Spec /\ Up!Spec

(* An error of either goroutine closes the connection, which ends the      *)
(* reader (the writer may be left waiting for a packet), and Close         *)
(* releases a waiting ReadFrom.                                            *)
HandlersEnd ==
  /\ \A h \in Handler : errCh[h] > 0 ~> conn[h] = "closed" /\ reader[h] = "done"
  /\ closed ~> receiver # "wait"

(* NewClientMap: if a client is removed from the map "the worst that can   *)
(* happen is a loss of whatever packets were in the send queue at the      *)
(* time": while a client has a connection whose writer waits for packets,  *)
(* one such writer waits on the queue where WriteTo puts them.             *)
Serving(h, c) == conn[h] = "open" /\ writer[h] = "range" /\ client[h] = c
ExpiryLosesOnlyQueued ==
  \A c \in Client :
    queue[c] # 0 /\ (\E h \in Handler : Serving(h, c)) =>
      \E h \in Handler : Serving(h, c) /\ drains[h] = queue[c]
=============================================================================
