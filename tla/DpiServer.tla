----------------------------- MODULE DpiServer -----------------------------
(***************************************************************************)
(* The server end of the dpi HTTP tunnel: the registry of tunnelled        *)
(* connections, the POST handler (connect, data, close), the goroutine     *)
(* that reads each target, and the GET handler that streams its bytes      *)
(* back.  Every step between two acquisitions of clientLock, channel       *)
(* operations or socket calls is one action, so handlers, reader           *)
(* goroutines and downloads interleave as they do in the program.          *)
(*                                                                         *)
(* The client contributes the connection identifiers: each Transport       *)
(* counts its own from 1 and skips 0.  A chunk of target data is its       *)
(* position in the target's stream.  Requests that fail to decrypt or to   *)
(* parse change nothing and are stuttering steps.                          *)
(***************************************************************************)
EXTENDS Naturals, Sequences

CONSTANTS
  Transport,  \* client transports that share the server
  Conn,       \* the clientConn objects handleConnect may allocate
  Post,       \* POST requests being handled
  Download,   \* GET requests being handled
  nil,        \* the nil *clientConn
  IDSpace,    \* number of values of a connection id; 2^32 in the code
  ChanCap,    \* capacity of dataCh; 16 in the code
  MaxChunk    \* bound on the chunks one target sends

ASSUME DpiServerAssumption ==
  /\ nil \notin Conn
  /\ IDSpace \in Nat /\ IDSpace > 1
  /\ ChanCap \in Nat \ {0}
  /\ MaxChunk \in Nat

VARIABLES
  connIDGen,   \* Transport.connIDGen, the next identifier of each transport
  clients,     \* Server.clients: identifier -> registered clientConn
  connID,      \* clientConn.connID; 0 while the object is not allocated
  remote,      \* clientConn.remote: "none", "open" or "closed"
  reader,      \* program counter of the reader goroutine of each clientConn
  nread,       \* chunks the reader has read from the target
  dataCh,      \* contents of clientConn.dataCh
  dataClosed,  \* close(dataCh) has happened
  post,        \* POST handlers in progress
  get,         \* GET handlers in progress
  stopped,     \* stopCh is closed
  taken,       \* history: chunks received from dataCh
  got          \* history: chunks written to each download's response

vars == <<connIDGen, clients, connID, remote, reader, nread, dataCh,
          dataClosed, post, get, stopped, taken, got>>

ID == 1 .. IDSpace - 1
Allocated == {c \in Conn : connID[c] # 0}

(* A handler in progress: where it is, the connection its client means and *)
(* the one the registry returned.                                          *)
Handler(pc, want, conn) == [pc |-> pc, want |-> want, conn |-> conn]
Idle == Handler("idle", nil, nil)

TypeOK ==
  /\ connIDGen \in [Transport -> ID]
  /\ clients \in [ID -> Conn \cup {nil}]
  /\ connID \in [Conn -> ID \cup {0}]
  /\ remote \in [Conn -> {"none", "open", "closed"}]
  /\ reader \in [Conn -> {"none", "read", "send", "closeCh",
                          "closeRemote", "unregister", "done"}]
  /\ nread \in [Conn -> 0 .. MaxChunk]
  /\ dataCh \in [Conn -> Seq(Nat)]
  /\ dataClosed \in [Conn -> BOOLEAN]
  /\ post \in [Post -> [pc : {"idle", "write", "close", "unregister"},
                        want : Conn \cup {nil}, conn : Conn \cup {nil}]]
  /\ get \in [Download -> [pc : {"idle", "stream", "done"},
                           want : Conn \cup {nil}, conn : Conn \cup {nil}]]
  /\ stopped \in BOOLEAN
  /\ taken \in [Conn -> Nat]
  /\ got \in [Download -> Seq(Nat)]

(* NewTransport and NewServer: nothing is registered, every generator is 1. *)
Init ==
  /\ connIDGen = [t \in Transport |-> 1]
  /\ clients = [i \in ID |-> nil]
  /\ connID = [c \in Conn |-> 0]
  /\ remote = [c \in Conn |-> "none"]
  /\ reader = [c \in Conn |-> "none"]
  /\ nread = [c \in Conn |-> 0]
  /\ dataCh = [c \in Conn |-> <<>>]
  /\ dataClosed = [c \in Conn |-> FALSE]
  /\ post = [p \in Post |-> Idle]
  /\ get = [d \in Download |-> Idle]
  /\ stopped = FALSE
  /\ taken = [c \in Conn |-> 0]
  /\ got = [d \in Download |-> <<>>]

-----------------------------------------------------------------------------
(* The registry, each operation under clientLock.                          *)

registerClient(i, c) == clients' = [clients EXCEPT ![i] = c]

unregisterClient(i) == clients' = [clients EXCEPT ![i] = nil]

(* Variant: the identifier is off by one.                                  *)
getClient_Shifted(i) == clients[1 + (i % (IDSpace - 1))]

getClient(i) == clients[i]

-----------------------------------------------------------------------------
(* Connecting.                                                             *)

(* Transport.NextConnID: the identifier after i, in the width of the type, *)
(* with 0 left out.                                                        *)
NextConnID(i) == LET n == (i + 1) % IDSpace IN IF n = 0 THEN 1 ELSE n

(* A connect request that registers nothing: the dial failed, the request  *)
(* was lost or refused, or a redirect sent it elsewhere.  The identifier   *)
(* is used up; a redirected Connect starts again with the next one.        *)
ConnectFail(t) ==
  /\ connIDGen' = [connIDGen EXCEPT ![t] = NextConnID(@)]
  /\ UNCHANGED <<clients, connID, remote, reader, nread, dataCh, dataClosed,
                 post, get, stopped, taken, got>>

(* handleConnect: the target answered, a clientConn is registered under    *)
(* the identifier the transport chose and its reader goroutine starts.     *)
handleConnect(t, c) ==
  /\ connID[c] = 0
  /\ connIDGen' = [connIDGen EXCEPT ![t] = NextConnID(@)]
  /\ connID' = [connID EXCEPT ![c] = connIDGen[t]]
  /\ remote' = [remote EXCEPT ![c] = "open"]
  /\ registerClient(connIDGen[t], c)
  /\ reader' = [reader EXCEPT ![c] = "read"]
  /\ UNCHANGED <<nread, dataCh, dataClosed, post, get, stopped, taken, got>>

-----------------------------------------------------------------------------
(* The reader goroutine of a clientConn.                                   *)

readerVars == <<connIDGen, connID, post, get, stopped, taken, got>>

(* remote.Read returns a chunk.  A TCP read never returns bytes and an     *)
(* error together.                                                         *)
ReaderRead(c) ==
  /\ reader[c] = "read"
  /\ remote[c] = "open"
  /\ nread[c] < MaxChunk
  /\ nread' = [nread EXCEPT ![c] = @ + 1]
  /\ reader' = [reader EXCEPT ![c] = "send"]
  /\ UNCHANGED <<clients, remote, dataCh, dataClosed>> /\ UNCHANGED readerVars

(* Variant: a read does not notice that a handler closed the socket.       *)
ReaderError_TargetOnly(c) ==
  /\ reader[c] = "read"
  /\ remote[c] = "open"
  /\ reader' = [reader EXCEPT ![c] = "closeCh"]
  /\ UNCHANGED <<clients, remote, nread, dataCh, dataClosed>>
  /\ UNCHANGED readerVars

(* remote.Read returns an error: the target ended the stream, or a handler *)
(* closed the socket.                                                      *)
ReaderError(c) ==
  /\ reader[c] = "read"
  /\ reader' = [reader EXCEPT ![c] = "closeCh"]
  /\ UNCHANGED <<clients, remote, nread, dataCh, dataClosed>>
  /\ UNCHANGED readerVars

(* cc.dataCh <- data: waits for room.                                      *)
ReaderSend(c) ==
  /\ reader[c] = "send"
  /\ Len(dataCh[c]) < ChanCap
  /\ dataCh' = [dataCh EXCEPT ![c] = Append(@, nread[c])]
  /\ reader' = [reader EXCEPT ![c] = "read"]
  /\ UNCHANGED <<clients, remote, nread, dataClosed>> /\ UNCHANGED readerVars

(* <-stopCh in the same select: return without closing dataCh.             *)
ReaderStop(c) ==
  /\ reader[c] = "send"
  /\ stopped
  /\ reader' = [reader EXCEPT ![c] = "closeRemote"]
  /\ UNCHANGED <<clients, remote, nread, dataCh, dataClosed>> /\ UNCHANGED readerVars

(* close(cc.dataCh) after the loop.                                        *)
ReaderCloseCh(c) ==
  /\ reader[c] = "closeCh"
  /\ dataClosed' = [dataClosed EXCEPT ![c] = TRUE]
  /\ reader' = [reader EXCEPT ![c] = "closeRemote"]
  /\ UNCHANGED <<clients, remote, nread, dataCh>> /\ UNCHANGED readerVars

(* defer remote.Close(), the deferred call that runs first.                *)
ReaderCloseRemote(c) ==
  /\ reader[c] = "closeRemote"
  /\ remote' = [remote EXCEPT ![c] = "closed"]
  /\ reader' = [reader EXCEPT ![c] = "unregister"]
  /\ UNCHANGED <<clients, nread, dataCh, dataClosed>> /\ UNCHANGED readerVars

(* defer unregisterClient(connID): by identifier, whoever holds it now.    *)
ReaderUnregister(c) ==
  /\ reader[c] = "unregister"
  /\ unregisterClient(connID[c])
  /\ reader' = [reader EXCEPT ![c] = "done"]
  /\ UNCHANGED <<remote, nread, dataCh, dataClosed>> /\ UNCHANGED readerVars

Reader(c) ==
  \/ ReaderRead(c)
  \/ ReaderError(c)
  \/ ReaderSend(c)
  \/ ReaderStop(c)
  \/ ReaderCloseCh(c)
  \/ ReaderCloseRemote(c)
  \/ ReaderUnregister(c)

-----------------------------------------------------------------------------
(* POST handlers.  The server sees the identifier of want only.            *)

postVars == <<connIDGen, connID, reader, nread, dataCh, dataClosed, get,
              stopped, taken, got>>

(* handleTunnel, MsgData and MsgClose: getClient.  An identifier nobody    *)
(* holds is answered "ok" and changes nothing.                             *)
PostLookup(p, type, c) ==
  /\ post[p].pc = "idle"
  /\ c \in Allocated
  /\ getClient(connID[c]) # nil
  /\ post' = [post EXCEPT ![p] =
                Handler(IF type = "data" THEN "write" ELSE "close",
                        c, getClient(connID[c]))]
  /\ UNCHANGED <<clients, remote>> /\ UNCHANGED postVars

(* conn.remote.Write(payload) succeeds.                                    *)
PostWrite(p) ==
  /\ post[p].pc = "write"
  /\ remote[post[p].conn] = "open"
  /\ post' = [post EXCEPT ![p] = Idle]
  /\ UNCHANGED <<clients, remote>> /\ UNCHANGED postVars

(* conn.remote.Write(payload) fails, as it must on a closed socket.        *)
PostWriteError(p) ==
  /\ post[p].pc = "write"
  /\ post' = [post EXCEPT ![p] = Handler("close", @.want, @.conn)]
  /\ UNCHANGED <<clients, remote>> /\ UNCHANGED postVars

(* Variant: the entry is deleted and the socket left open.                 *)
PostClose_LeaveOpen(p) ==
  /\ post[p].pc = "close"
  /\ post' = [post EXCEPT ![p] = Handler("unregister", @.want, @.conn)]
  /\ UNCHANGED <<clients, remote>> /\ UNCHANGED postVars

(* conn.remote.Close(), after a failed write or for MsgClose.              *)
PostClose(p) ==
  /\ post[p].pc = "close"
  /\ remote' = [remote EXCEPT ![post[p].conn] = "closed"]
  /\ post' = [post EXCEPT ![p] = Handler("unregister", @.want, @.conn)]
  /\ UNCHANGED clients /\ UNCHANGED postVars

(* unregisterClient(hdr.ConnID): by identifier, whoever holds it now.      *)
PostUnregister(p) ==
  /\ post[p].pc = "unregister"
  /\ unregisterClient(connID[post[p].want])
  /\ post' = [post EXCEPT ![p] = Idle]
  /\ UNCHANGED remote /\ UNCHANGED postVars

PostStep(p) ==
  PostWrite(p) \/ PostWriteError(p) \/ PostClose(p) \/ PostUnregister(p)

-----------------------------------------------------------------------------
(* GET handlers.                                                           *)

getVars == <<connIDGen, clients, connID, remote, reader, nread, dataClosed,
             post, stopped>>

(* handleDownload: getClient, then 404 or the start of the stream.         *)
DownloadOpen(d, c) ==
  /\ get[d].pc = "idle"
  /\ c \in Allocated
  /\ LET e == getClient(connID[c]) IN
     get' = [get EXCEPT ![d] =
               Handler(IF e = nil THEN "done" ELSE "stream", c, e)]
  /\ UNCHANGED <<dataCh, taken, got>> /\ UNCHANGED getVars

(* Variant: the chunk is left in the channel when it has been written and  *)
(* the handler returns.                                                    *)
DownloadChunk_Peek(d) ==
  /\ get[d].pc = "stream"
  /\ dataCh[get[d].conn] # <<>>
  /\ got' = [got EXCEPT ![d] = Append(@, Head(dataCh[get[d].conn]))]
  /\ get' = [get EXCEPT ![d] = Handler("done", @.want, @.conn)]
  /\ UNCHANGED <<dataCh, taken>> /\ UNCHANGED getVars

(* data := <-conn.dataCh, and the frame made of it is written.             *)
DownloadChunk(d) ==
  /\ get[d].pc = "stream"
  /\ dataCh[get[d].conn] # <<>>
  /\ dataCh' = [dataCh EXCEPT ![get[d].conn] = Tail(@)]
  /\ taken' = [taken EXCEPT ![get[d].conn] = @ + 1]
  /\ got' = [got EXCEPT ![d] = Append(@, Head(dataCh[get[d].conn]))]
  /\ UNCHANGED get /\ UNCHANGED getVars

(* The frame cannot be written: the handler returns, the chunk is gone.    *)
DownloadWriteError(d) ==
  /\ get[d].pc = "stream"
  /\ dataCh[get[d].conn] # <<>>
  /\ dataCh' = [dataCh EXCEPT ![get[d].conn] = Tail(@)]
  /\ taken' = [taken EXCEPT ![get[d].conn] = @ + 1]
  /\ get' = [get EXCEPT ![d] = Handler("done", @.want, @.conn)]
  /\ UNCHANGED got /\ UNCHANGED getVars

DownloadReturn(d) ==
  /\ get[d].pc = "stream"
  /\ get' = [get EXCEPT ![d] = Handler("done", @.want, @.conn)]
  /\ UNCHANGED <<dataCh, taken, got>> /\ UNCHANGED getVars

(* The receive finds dataCh closed and drained.                            *)
DownloadEOF(d) ==
  /\ get[d].pc = "stream"
  /\ dataClosed[get[d].conn]
  /\ dataCh[get[d].conn] = <<>>
  /\ DownloadReturn(d)

(* Variant: the select has no case for stopCh.                             *)
DownloadStop_Missing(d) == FALSE

(* <-stopCh.                                                               *)
DownloadStop(d) == stopped /\ DownloadReturn(d)

(* <-r.Context().Done(): the client went away.                             *)
DownloadGone(d) == DownloadReturn(d)

DownloadStep(d) ==
  \/ DownloadChunk(d)
  \/ DownloadWriteError(d)
  \/ DownloadEOF(d)
  \/ DownloadStop(d)

-----------------------------------------------------------------------------
(* Server.Shutdown closes stopCh; the readers' sockets stay open.          *)
Shutdown ==
  /\ ~stopped
  /\ stopped' = TRUE
  /\ UNCHANGED <<connIDGen, clients, connID, remote, reader, nread, dataCh,
                 dataClosed, post, get, taken, got>>

Next ==
  \/ \E t \in Transport : ConnectFail(t) \/ \E c \in Conn : handleConnect(t, c)
  \/ \E c \in Conn : Reader(c)
  \/ \E p \in Post, type \in {"data", "close"}, c \in Conn :
       PostLookup(p, type, c)
  \/ \E p \in Post : PostStep(p)
  \/ \E d \in Download, c \in Conn : DownloadOpen(d, c)
  \/ \E d \in Download : DownloadStep(d) \/ DownloadGone(d)
  \/ Shutdown

Spec == Init /\ [][Next]_vars

(* Goroutines that can run do run.  A reader waiting for its target is     *)
(* owed nothing until its socket is closed; nobody has to connect, post,   *)
(* download, go away or shut the server down.                              *)
Fairness ==
  /\ \A c \in Conn :
       /\ WF_vars(remote[c] = "closed" /\ ReaderError(c))
       /\ WF_vars(ReaderSend(c) \/ ReaderStop(c))
       /\ WF_vars(ReaderCloseCh(c) \/ ReaderCloseRemote(c)
                                   \/ ReaderUnregister(c))
  /\ \A p \in Post : WF_vars(PostStep(p))
  /\ \A d \in Download : WF_vars(DownloadStep(d))

FairSpec == Spec /\ Fairness

-----------------------------------------------------------------------------
(* Properties.                                                             *)

(* No two connections ever carried the same identifier.  One transport     *)
(* keeps to it until its generator wraps; two transports need not.         *)
IDsDistinct ==
  \A c, e \in Allocated : connID[c] = connID[e] => c = e

(* While identifiers are distinct no live connection is orphaned: every    *)
(* clientConn whose socket is open can be found in the registry, so that   *)
(* the client can still reach and close it, whatever handlers and readers  *)
(* clean up meanwhile.                                                     *)
LiveIsRegistered ==
  IDsDistinct => \A c \in Conn : remote[c] = "open" => clients[connID[c]] = c

(* While identifiers are distinct a data, close or download request acts   *)
(* on the connection its client meant.                                     *)
RequestsReachTheirConn ==
  IDsDistinct =>
    /\ \A p \in Post : post[p].pc # "idle" => post[p].conn = post[p].want
    /\ \A d \in Download : get[d].conn # nil => get[d].conn = get[d].want

(* A reader goroutine that has returned left its socket closed and its     *)
(* connection out of the registry, also when identifiers collide.          *)
CleanupComplete ==
  \A c \in Conn : reader[c] = "done" =>
    /\ remote[c] = "closed"
    /\ \A i \in ID : clients[i] # c

(* dataCh hands the target's chunks over in order, each one once: it holds *)
(* exactly the chunks that were read, not yet taken and not in the         *)
(* reader's hands.  A reader released by Shutdown discards its chunk.      *)
ChannelIsFifo ==
  \A c \in Conn :
    /\ \A i \in 1 .. Len(dataCh[c]) : dataCh[c][i] = taken[c] + i
    /\ Len(dataCh[c]) <= ChanCap
    /\ LET sent == taken[c] + Len(dataCh[c]) IN
       \/ reader[c] = "send" /\ sent + 1 = nread[c]
       \/ reader[c] # "send" /\ sent = nread[c]
       \/ stopped /\ reader[c] \in {"closeRemote", "unregister", "done"}
          /\ sent + 1 = nread[c]

(* What a download delivers: a prefix of the target's stream when it is    *)
(* the only download of its connection, and never a chunk that another     *)
(* download of the connection delivered too.                               *)
DownloadsPartitionStream ==
  \A d \in Download :
    LET rivals == {e \in Download \ {d} : /\ get[e].conn = get[d].conn
                                          /\ get[e].conn # nil} IN
    /\ rivals = {} => \A i \in 1 .. Len(got[d]) : got[d][i] = i
    /\ \A e \in rivals :
         \A i \in 1 .. Len(got[d]), j \in 1 .. Len(got[e]) :
           got[d][i] # got[e][j]

(* Nothing is sent on a closed dataCh and it is closed once; either would  *)
(* panic and take the server down.                                         *)
NoUseOfClosedChannel ==
  [][\A c \in Conn : dataClosed[c] =>
       /\ dataClosed'[c]
       /\ Len(dataCh'[c]) <= Len(dataCh[c])
       /\ ~ ReaderCloseCh(c)]_vars

Streaming(c) == \E d \in Download : get[d].pc = "stream" /\ get[d].conn = c

(* A closed connection is let go of: once its socket is closed its reader  *)
(* goroutine returns, unless it is left holding a chunk for a full dataCh  *)
(* that no download drains.                                                *)
ClosedConnReleased ==
  \A c \in Conn :
    remote[c] = "closed" ~>
      \/ reader[c] = "done"
      \/ reader[c] = "send" /\ Len(dataCh[c]) = ChanCap /\ ~Streaming(c)

(* After Shutdown every download returns and no reader keeps waiting for   *)
(* room in its channel.                                                    *)
ShutdownReleases ==
  /\ \A d \in Download :
       stopped /\ get[d].pc = "stream" ~> get[d].pc = "done"
  /\ \A c \in Conn : stopped /\ reader[c] = "send" ~> reader[c] # "send"

(* The reader goroutine is there to "read from the remote connection and   *)
(* buffer the data": while the server runs and no handler has closed the   *)
(* connection, what it has buffered can be downloaded.                     *)
BufferedDataReachable ==
  \A c \in Conn :
    dataCh[c] # <<>> /\ ~stopped =>
      clients[connID[c]] = c \/ \E d \in Download : get[d].conn = c
=============================================================================
