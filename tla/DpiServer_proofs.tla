-------------------------- MODULE DpiServer_proofs --------------------------
(***************************************************************************)
(* Proofs about DpiServer, for any number of transports, connections,      *)
(* handlers and downloads, any width of identifiers, any channel capacity  *)
(* and any number of chunks.                                               *)
(***************************************************************************)
EXTENDS DpiServer, TLAPS

PostRec == [pc : {"idle", "write", "close", "unregister"},
            want : Conn \cup {nil}, conn : Conn \cup {nil}]
GetRec == [pc : {"idle", "stream", "done"},
           want : Conn \cup {nil}, conn : Conn \cup {nil}]

(* A handler that works on a connection has one.                           *)
HandlersHoldConns ==
  /\ \A p \in Post : post[p].pc # "idle" => post[p].conn \in Conn
                                            /\ post[p].want \in Conn
  /\ \A d \in Download : get[d].pc = "stream" => get[d].conn \in Conn

TypeInv == TypeOK /\ HandlersHoldConns

(* Transport.NextConnID stays within the non-zero identifiers.             *)
LEMMA NextConnIDType == \A i \in ID : NextConnID(i) \in ID
  BY DpiServerAssumption DEF ID, NextConnID

(* NewServer and NewTransport establish the types.                         *)
LEMMA InitType == Init => TypeInv
<1> SUFFICES ASSUME Init PROVE TypeInv
  OBVIOUS
<1>1. 1 \in ID /\ 0 \in 0 .. MaxChunk
  BY DpiServerAssumption DEF ID
<1>2. post \in [Post -> PostRec] /\ get \in [Download -> GetRec]
  BY DEF Init, Idle, Handler, PostRec, GetRec
<1>3. dataCh \in [Conn -> Seq(Nat)] /\ got \in [Download -> Seq(Nat)]
  BY DEF Init
<1>4. /\ connIDGen \in [Transport -> ID]
      /\ clients \in [ID -> Conn \cup {nil}]
      /\ connID \in [Conn -> ID \cup {0}]
      /\ remote \in [Conn -> {"none", "open", "closed"}]
      /\ reader \in [Conn -> {"none", "read", "send", "closeCh",
                              "closeRemote", "unregister", "done"}]
      /\ nread \in [Conn -> 0 .. MaxChunk]
      /\ dataClosed \in [Conn -> BOOLEAN]
      /\ stopped \in BOOLEAN
      /\ taken \in [Conn -> Nat]
  BY Zenon, <1>1 DEF Init
<1>5. HandlersHoldConns
  BY DEF Init, HandlersHoldConns, Idle, Handler
<1> QED
  BY <1>2, <1>3, <1>4, <1>5 DEF TypeInv, TypeOK, PostRec, GetRec

(* A step of a reader goroutine keeps the types.                           *)
LEMMA ReaderType ==
  ASSUME TypeInv, NEW c \in Conn, Reader(c) PROVE TypeInv'
<1>1. TypeOK'
  <2> USE DEF TypeInv, TypeOK, readerVars
  <2>1. CASE ReaderRead(c)
    <3>1. nread \in [Conn -> 0 .. MaxChunk] /\ nread[c] < MaxChunk
      BY <2>1 DEF ReaderRead
    <3>2. nread' \in [Conn -> 0 .. MaxChunk]
      BY <2>1, <3>1, DpiServerAssumption DEF ReaderRead
    <3> QED
      BY <2>1, <3>2 DEF ReaderRead
  <2>2. CASE ReaderError(c)
    BY <2>2 DEF ReaderError
  <2>3. CASE ReaderSend(c)
    BY <2>3 DEF ReaderSend
  <2>4. CASE ReaderStop(c)
    BY <2>4 DEF ReaderStop
  <2>5. CASE ReaderCloseCh(c)
    BY <2>5 DEF ReaderCloseCh
  <2>6. CASE ReaderCloseRemote(c)
    BY <2>6 DEF ReaderCloseRemote
  <2>7. CASE ReaderUnregister(c)
    BY Zenon, <2>7 DEF ReaderUnregister, unregisterClient
  <2> HIDE DEF TypeInv, TypeOK
  <2> QED
    BY <2>1, <2>2, <2>3, <2>4, <2>5, <2>6, <2>7 DEF Reader
<1>2. UNCHANGED <<post, get>>
  BY DEF Reader, ReaderRead, ReaderError, ReaderSend, ReaderStop,
         ReaderCloseCh, ReaderCloseRemote, ReaderUnregister, readerVars
<1> QED
  BY <1>1, <1>2 DEF TypeInv, HandlersHoldConns

(* A step of a POST handler keeps the types.                               *)
LEMMA PostType ==
  ASSUME TypeInv, NEW p \in Post,
         \/ \E type \in {"data", "close"}, c \in Conn : PostLookup(p, type, c)
         \/ PostStep(p)
  PROVE  TypeInv'
<1> USE DEF TypeInv, TypeOK, HandlersHoldConns, Handler, Idle, postVars
<1>1. ASSUME NEW type \in {"data", "close"}, NEW c \in Conn,
             PostLookup(p, type, c)
      PROVE  TypeInv'
  BY <1>1 DEF PostLookup, getClient, Allocated
<1>2. CASE PostWrite(p)
  BY Zenon, <1>2 DEF PostWrite
<1>3. CASE PostWriteError(p)
  BY SMTT(30), <1>3 DEF PostWriteError
<1>4. CASE PostClose(p)
  BY <1>4 DEF PostClose
<1>5. CASE PostUnregister(p)
  BY Zenon, <1>5 DEF PostUnregister, unregisterClient
<1> HIDE DEF TypeInv
<1> QED
  BY <1>1, <1>2, <1>3, <1>4, <1>5 DEF PostStep

(* A step of a GET handler keeps the types.                                *)
LEMMA DownloadType ==
  ASSUME TypeInv, NEW d \in Download,
         \/ \E c \in Conn : DownloadOpen(d, c)
         \/ DownloadStep(d)
         \/ DownloadGone(d)
  PROVE  TypeInv'
<1> USE DEF TypeInv, TypeOK, HandlersHoldConns, Handler, getVars
<1>1. ASSUME NEW c \in Conn, DownloadOpen(d, c) PROVE TypeInv'
  BY <1>1 DEF DownloadOpen, getClient, Allocated
<1>2. CASE DownloadChunk(d)
  <2>1. /\ get[d].conn \in Conn
        /\ dataCh[get[d].conn] \in Seq(Nat) /\ dataCh[get[d].conn] # <<>>
    BY <1>2 DEF DownloadChunk
  <2>2. got' \in [Download -> Seq(Nat)]
    BY <1>2, <2>1 DEF DownloadChunk
  <2>3. dataCh' \in [Conn -> Seq(Nat)] /\ taken' \in [Conn -> Nat]
    BY SMTT(30), <1>2, <2>1 DEF DownloadChunk
  <2>4. UNCHANGED <<connIDGen, clients, connID, remote, reader, nread,
                    dataClosed, post, get, stopped>>
    BY <1>2 DEF DownloadChunk
  <2> QED
    BY SMTT(30), <2>2, <2>3, <2>4
<1>3. CASE DownloadWriteError(d)
  BY SMTT(30), <1>3 DEF DownloadWriteError
<1>4. CASE DownloadReturn(d)
  BY Zenon, <1>4 DEF DownloadReturn
<1> HIDE DEF TypeInv
<1> QED
  BY <1>1, <1>2, <1>3, <1>4
     DEF DownloadStep, DownloadEOF, DownloadStop, DownloadGone

(* Every step keeps the types.                                             *)
LEMMA NextType == TypeInv /\ [Next]_vars => TypeInv'
<1> SUFFICES ASSUME TypeInv, [Next]_vars PROVE TypeInv'
  OBVIOUS
<1>1. ASSUME NEW t \in Transport, ConnectFail(t) PROVE TypeInv'
  BY <1>1, NextConnIDType DEF ConnectFail, TypeInv, TypeOK, HandlersHoldConns
<1>2. ASSUME NEW t \in Transport, NEW c \in Conn, handleConnect(t, c)
      PROVE  TypeInv'
  BY <1>2, NextConnIDType
     DEF handleConnect, registerClient, TypeInv, TypeOK, HandlersHoldConns
<1>3. CASE Shutdown
  BY <1>3 DEF Shutdown, TypeInv, TypeOK, HandlersHoldConns
<1>4. CASE UNCHANGED vars
  BY <1>4 DEF vars, TypeInv, TypeOK, HandlersHoldConns
<1> QED
  BY <1>1, <1>2, <1>3, <1>4, ReaderType, PostType, DownloadType DEF Next

(* Every behaviour of the server keeps its variables within their types.   *)
THEOREM TypeCorrect == Spec => []TypeOK
<1>1. TypeInv => TypeOK
  BY DEF TypeInv
<1> QED
  BY <1>1, InitType, NextType, PTL DEF Spec

-----------------------------------------------------------------------------
(* Facts about the registry that the theorems below rest on.  A connection *)
(* that is not allocated has no socket and no reader.                      *)
AllocationFacts ==
  \A c \in Conn : /\ connID[c] = 0 <=> remote[c] = "none"
                  /\ connID[c] = 0 <=> reader[c] = "none"

(* An entry carries its own identifier.                                    *)
EntryFacts == \A i \in ID : clients[i] # nil => connID[clients[i]] = i

(* Handlers hold connections of the identifier they were asked for, and    *)
(* delete an entry only after they closed the socket.                      *)
PostFacts ==
  \A p \in Post : post[p].pc # "idle" =>
    /\ post[p].want \in Allocated /\ post[p].conn \in Allocated
    /\ connID[post[p].conn] = connID[post[p].want]
    /\ post[p].pc = "unregister" => remote[post[p].conn] = "closed"

GetFacts ==
  \A d \in Download : get[d].conn # nil =>
    /\ get[d].want \in Allocated /\ get[d].conn \in Allocated
    /\ connID[get[d].conn] = connID[get[d].want]

(* So does a reader goroutine.                                             *)
ReaderFacts ==
  \A c \in Conn : reader[c] \in {"unregister", "done"} => remote[c] = "closed"

RegistryFacts ==
  AllocationFacts /\ EntryFacts /\ PostFacts /\ GetFacts /\ ReaderFacts

RegistryInv ==
  TypeInv /\ RegistryFacts /\ CleanupComplete /\ LiveIsRegistered

(* The initial registry is empty.                                          *)
LEMMA InitRegistry == Init => RegistryInv
<1> SUFFICES ASSUME Init PROVE RegistryInv
  OBVIOUS
<1>1. RegistryFacts
  BY DEF Init, Idle, Handler, RegistryFacts, AllocationFacts, EntryFacts,
         PostFacts, GetFacts, ReaderFacts
<1>2. CleanupComplete /\ LiveIsRegistered
  BY DEF Init, CleanupComplete, LiveIsRegistered
<1> QED
  BY <1>1, <1>2, InitType DEF RegistryInv

(* A step that leaves the registry, the sockets and the handlers alone,    *)
(* and by which no reader reaches its deferred calls.                      *)
Quiet ==
  /\ UNCHANGED <<clients, connID, remote, post>>
  /\ \A c \in Conn : \/ reader'[c] = reader[c]
                     \/ /\ reader[c] # "none"
                        /\ reader'[c] \notin {"none", "unregister", "done"}
  /\ \A d \in Download : /\ get'[d].conn = get[d].conn
                         /\ get'[d].want = get[d].want

(* Such a step keeps the invariant.                                        *)
LEMMA QuietStep == RegistryInv /\ TypeInv' /\ Quiet => RegistryInv'
<1> SUFFICES ASSUME RegistryInv, TypeInv', Quiet PROVE RegistryInv'
  OBVIOUS
<1> USE DEF Quiet
<1>1. RegistryFacts'
  BY DEF RegistryInv, Allocated, RegistryFacts, AllocationFacts, EntryFacts,
         PostFacts, GetFacts, ReaderFacts
<1>2. CleanupComplete' /\ LiveIsRegistered'
  BY DEF RegistryInv, CleanupComplete, LiveIsRegistered, IDsDistinct, Allocated
<1> QED
  BY <1>1, <1>2 DEF RegistryInv

(* handleConnect registers the new connection; when all identifiers are    *)
(* distinct afterwards, it replaces no entry of a live one.                *)
LEMMA ConnectRegistry ==
  ASSUME RegistryInv, NEW t \in Transport, NEW c \in Conn,
         handleConnect(t, c), TypeInv'
  PROVE  RegistryInv'
<1> DEFINE i == connIDGen[t]
<1>1. i \in ID /\ 0 \notin ID
  BY DpiServerAssumption DEF RegistryInv, TypeInv, TypeOK, ID
<1>2. /\ connID[c] = 0
      /\ connID' = [connID EXCEPT ![c] = i]
      /\ remote' = [remote EXCEPT ![c] = "open"]
      /\ clients' = [clients EXCEPT ![i] = c]
      /\ reader' = [reader EXCEPT ![c] = "read"]
      /\ UNCHANGED <<post, get>>
  BY DEF handleConnect, registerClient
<1>3. /\ connID \in [Conn -> ID \cup {0}]
      /\ remote \in [Conn -> {"none", "open", "closed"}]
      /\ clients \in [ID -> Conn \cup {nil}]
      /\ DOMAIN reader = Conn
  BY DEF RegistryInv, TypeInv, TypeOK
<1> HIDE DEF i
<1>4. RegistryFacts'
  <2> USE <1>1, <1>2, <1>3, DpiServerAssumption DEF RegistryInv, RegistryFacts
  <2>1. AllocationFacts'
    BY DEF AllocationFacts
  <2>2. EntryFacts'
    BY DEF AllocationFacts, EntryFacts
  <2>3. PostFacts'
    BY DEF AllocationFacts, PostFacts, Allocated
  <2>4. GetFacts'
    BY DEF AllocationFacts, GetFacts, Allocated
  <2>5. ReaderFacts'
    BY DEF ReaderFacts
  <2> QED
    BY <2>1, <2>2, <2>3, <2>4, <2>5
<1>5. CleanupComplete'
  BY <1>1, <1>2, <1>3 DEF RegistryInv, RegistryFacts, ReaderFacts, AllocationFacts,
                         EntryFacts, CleanupComplete
<1>6. LiveIsRegistered'
  BY <1>1, <1>2, <1>3
     DEF RegistryInv, RegistryFacts, AllocationFacts, EntryFacts,
         LiveIsRegistered, IDsDistinct, Allocated
<1> QED
  BY <1>4, <1>5, <1>6 DEF RegistryInv

(* Deleting the entry of an identifier whose connection has its socket     *)
(* closed orphans nobody while identifiers are distinct.                   *)
LEMMA UnregisterKeepsLive ==
  ASSUME RegistryInv, NEW c \in Allocated, remote[c] = "closed",
         unregisterClient(connID[c]), UNCHANGED <<connID, remote>>
  PROVE  LiveIsRegistered' /\ \A i \in ID : clients'[i] # c
<1>1. /\ connID \in [Conn -> ID \cup {0}]
      /\ clients \in [ID -> Conn \cup {nil}]
      /\ clients' = [clients EXCEPT ![connID[c]] = nil]
      /\ connID[c] \in ID
  BY DEF RegistryInv, TypeInv, TypeOK, unregisterClient, Allocated
<1>2. LiveIsRegistered'
  BY <1>1 DEF RegistryInv, RegistryFacts, AllocationFacts, EntryFacts,
         LiveIsRegistered, IDsDistinct, Allocated
<1>3. \A i \in ID : clients'[i] # c
  BY <1>1, DpiServerAssumption
     DEF RegistryInv, RegistryFacts, EntryFacts, Allocated
<1> QED
  BY <1>2, <1>3

(* A step of a reader goroutine keeps the invariant.                       *)
LEMMA ReaderRegistry ==
  ASSUME RegistryInv, NEW c \in Conn, Reader(c), TypeInv' PROVE RegistryInv'
<1> USE DEF readerVars
<1>0. reader \in [Conn -> {"none", "read", "send", "closeCh",
                          "closeRemote", "unregister", "done"}]
  BY DEF RegistryInv, TypeInv, TypeOK
<1>1. CASE ReaderRead(c) \/ ReaderError(c) \/ ReaderSend(c)
           \/ ReaderStop(c) \/ ReaderCloseCh(c)
  <2>1. /\ UNCHANGED <<clients, connID, remote, post, get>>
        /\ reader[c] # "none"
        /\ \E r \in {"read", "send", "closeCh", "closeRemote"} :
             reader' = [reader EXCEPT ![c] = r]
    BY <1>1 DEF ReaderRead, ReaderError, ReaderSend, ReaderStop, ReaderCloseCh
  <2>2. Quiet
    BY <1>0, <2>1 DEF Quiet
  <2> QED
    BY <2>2, QuietStep
<1>2. CASE ReaderCloseRemote(c)
  <2> USE <1>0, <1>2 DEF ReaderCloseRemote, RegistryInv, RegistryFacts
  <2>1. remote \in [Conn -> {"none", "open", "closed"}]
    BY SMTT(30) DEF TypeInv, TypeOK
  <2>2. AllocationFacts' /\ EntryFacts' /\ ReaderFacts'
    BY <2>1 DEF AllocationFacts, EntryFacts, ReaderFacts
  <2>3. PostFacts'
    BY <2>1 DEF PostFacts, Allocated
  <2>4. GetFacts'
    BY <2>1 DEF GetFacts, Allocated
  <2>5. CleanupComplete' /\ LiveIsRegistered'
    BY <2>1 DEF CleanupComplete, LiveIsRegistered, IDsDistinct, Allocated
  <2> QED
    BY <2>2, <2>3, <2>4, <2>5
<1>3. CASE ReaderUnregister(c)
  <2>1. /\ remote[c] = "closed"
        /\ c \in Allocated
        /\ unregisterClient(connID[c])
        /\ reader' = [reader EXCEPT ![c] = "done"]
        /\ reader[c] # "none"
        /\ UNCHANGED <<connID, remote, post, get>>
    BY <1>3 DEF ReaderUnregister, RegistryInv, RegistryFacts, ReaderFacts,
                AllocationFacts, Allocated
  <2>2. LiveIsRegistered' /\ \A i \in ID : clients'[i] # c
    BY <2>1, UnregisterKeepsLive
  <2>3. clients \in [ID -> Conn \cup {nil}]
    BY DEF RegistryInv, TypeInv, TypeOK
  <2>4. EntryFacts'
    BY <2>1, <2>3 DEF RegistryInv, RegistryFacts, EntryFacts, unregisterClient
  <2>5. AllocationFacts' /\ ReaderFacts'
    BY <1>0, <2>1 DEF RegistryInv, RegistryFacts, AllocationFacts, ReaderFacts
  <2>6. PostFacts' /\ GetFacts'
    BY <2>1 DEF RegistryInv, RegistryFacts, PostFacts, GetFacts, Allocated
  <2>7. CleanupComplete'
    BY <1>0, <2>1, <2>2, <2>3, DpiServerAssumption
       DEF RegistryInv, CleanupComplete, unregisterClient
  <2> QED
    BY <2>2, <2>4, <2>5, <2>6, <2>7 DEF RegistryInv, RegistryFacts
<1> QED
  BY <1>1, <1>2, <1>3 DEF Reader

(* A step of a POST handler keeps the invariant.                           *)
LEMMA PostRegistry ==
  ASSUME RegistryInv, NEW p \in Post, TypeInv',
         \/ \E type \in {"data", "close"}, c \in Conn : PostLookup(p, type, c)
         \/ PostStep(p)
  PROVE  RegistryInv'
<1> USE DEF postVars, Handler, Idle
<1>0. /\ post \in [Post -> PostRec]
      /\ remote \in [Conn -> {"none", "open", "closed"}]
      /\ clients \in [ID -> Conn \cup {nil}]
      /\ connID \in [Conn -> ID \cup {0}]
      /\ RegistryFacts /\ CleanupComplete /\ LiveIsRegistered
  BY SMTT(30) DEF RegistryInv, TypeInv, TypeOK, PostRec
<1>1. ASSUME UNCHANGED <<clients, connID, remote, reader, get>>, PostFacts'
      PROVE  RegistryInv'
  <2>1. AllocationFacts' /\ EntryFacts' /\ GetFacts' /\ ReaderFacts'
    BY <1>0, <1>1 DEF RegistryFacts, AllocationFacts, EntryFacts, GetFacts,
                      ReaderFacts, Allocated
  <2>2. CleanupComplete' /\ LiveIsRegistered'
    BY <1>0, <1>1 DEF CleanupComplete, LiveIsRegistered, IDsDistinct, Allocated
  <2> QED
    BY <1>1, <2>1, <2>2 DEF RegistryInv, RegistryFacts
<1>2. ASSUME NEW type \in {"data", "close"}, NEW c \in Conn,
             PostLookup(p, type, c)
      PROVE  RegistryInv'
  <2>1. connID[c] \in ID /\ 0 \notin ID
    BY SMTT(30), <1>0, <1>2 DEF PostLookup, Allocated, ID
  <2>2. PostFacts'
    BY <1>0, <1>2, <2>1 DEF PostLookup, getClient, RegistryFacts, EntryFacts,
                            PostFacts, Allocated, PostRec
  <2> QED
    BY <1>1, <1>2, <2>2 DEF PostLookup
<1>3. CASE PostWrite(p)
  <2>1. PostFacts'
    BY <1>0, <1>3 DEF PostWrite, RegistryFacts, PostFacts, Allocated, PostRec
  <2> QED
    BY <1>1, <1>3, <2>1 DEF PostWrite
<1>4. CASE PostWriteError(p)
  <2>1. PostFacts'
    BY <1>0, <1>4 DEF PostWriteError, RegistryFacts, PostFacts, Allocated, PostRec
  <2> QED
    BY <1>1, <1>4, <2>1 DEF PostWriteError
<1>5. CASE PostClose(p)
  <2> USE <1>0, <1>5 DEF PostClose, RegistryFacts
  <2>1. post[p].conn \in Conn /\ remote[post[p].conn] # "none"
    BY DEF PostFacts, AllocationFacts, Allocated
  <2>2. AllocationFacts' /\ EntryFacts' /\ ReaderFacts'
    BY <2>1 DEF AllocationFacts, EntryFacts, ReaderFacts
  <2>3. PostFacts'
    BY <2>1 DEF PostFacts, Allocated, PostRec
  <2>4. GetFacts'
    BY DEF GetFacts, Allocated
  <2>5. CleanupComplete' /\ LiveIsRegistered'
    BY <2>1 DEF CleanupComplete, LiveIsRegistered, IDsDistinct, Allocated
  <2> QED
    BY <2>2, <2>3, <2>4, <2>5 DEF RegistryInv
<1>6. CASE PostUnregister(p)
  <2>1. /\ post[p].conn \in Allocated
        /\ remote[post[p].conn] = "closed"
        /\ unregisterClient(connID[post[p].conn])
        /\ UNCHANGED <<connID, remote, reader, get>>
    BY <1>0, <1>6 DEF PostUnregister, RegistryFacts, PostFacts
  <2>2. LiveIsRegistered'
    BY <2>1, UnregisterKeepsLive
  <2>3. EntryFacts'
    BY <1>0, <2>1 DEF RegistryFacts, EntryFacts, unregisterClient
  <2>4. PostFacts'
    BY SMTT(30), <1>0, <1>6 DEF PostUnregister, RegistryFacts, PostFacts, Allocated, PostRec
  <2>5. AllocationFacts' /\ GetFacts' /\ ReaderFacts'
    BY <1>0, <2>1 DEF RegistryFacts, AllocationFacts, GetFacts, ReaderFacts,
                      Allocated
  <2>6. CleanupComplete'
    BY <1>0, <2>1, DpiServerAssumption DEF CleanupComplete, unregisterClient
  <2> QED
    BY <2>2, <2>3, <2>4, <2>5, <2>6 DEF RegistryInv, RegistryFacts
<1> QED
  BY <1>2, <1>3, <1>4, <1>5, <1>6 DEF PostStep

(* A step of a GET handler keeps the invariant.                            *)
LEMMA DownloadRegistry ==
  ASSUME RegistryInv, NEW d \in Download, TypeInv',
         \/ \E c \in Conn : DownloadOpen(d, c)
         \/ DownloadStep(d)
         \/ DownloadGone(d)
  PROVE  RegistryInv'
<1> USE DEF getVars, Handler
<1>0. get \in [Download -> GetRec]
  BY DEF RegistryInv, TypeInv, TypeOK, GetRec
<1>1. ASSUME NEW c \in Conn, DownloadOpen(d, c) PROVE RegistryInv'
  <2>1. /\ clients \in [ID -> Conn \cup {nil}]
        /\ connID[c] \in ID /\ 0 \notin ID
        /\ RegistryFacts /\ CleanupComplete /\ LiveIsRegistered
        /\ UNCHANGED <<clients, connID, remote, reader, post>>
    BY SMTT(30), <1>1 DEF RegistryInv, TypeInv, TypeOK, DownloadOpen, Allocated, ID
  <2>2. GetFacts'
    BY SMTT(30), <1>0, <1>1, <2>1 DEF DownloadOpen, getClient, RegistryFacts, EntryFacts,
                            GetFacts, Allocated, GetRec
  <2>3. AllocationFacts' /\ EntryFacts' /\ PostFacts' /\ ReaderFacts'
    BY <2>1 DEF RegistryFacts, AllocationFacts, EntryFacts, PostFacts,
                ReaderFacts, Allocated
  <2>4. CleanupComplete' /\ LiveIsRegistered'
    BY <2>1 DEF CleanupComplete, LiveIsRegistered, IDsDistinct, Allocated
  <2> QED
    BY SMTT(30), <2>2, <2>3, <2>4 DEF RegistryInv, RegistryFacts
<1>2. CASE DownloadChunk(d) \/ DownloadWriteError(d) \/ DownloadReturn(d)
  <2>1. UNCHANGED <<clients, connID, remote, reader, post>>
    BY <1>2 DEF DownloadChunk, DownloadWriteError, DownloadReturn
  <2>2. \A e \in Download : get'[e].conn = get[e].conn
                            /\ get'[e].want = get[e].want
    BY <1>0, <1>2
       DEF DownloadChunk, DownloadWriteError, DownloadReturn, GetRec
  <2>3. Quiet
    BY <2>1, <2>2 DEF Quiet
  <2> QED
    BY <2>3, QuietStep
<1> QED
  BY <1>1, <1>2 DEF DownloadStep, DownloadEOF, DownloadStop, DownloadGone

(* Every step keeps the invariant of the registry.                         *)
LEMMA NextRegistry == RegistryInv /\ [Next]_vars => RegistryInv'
<1> SUFFICES ASSUME RegistryInv, [Next]_vars PROVE RegistryInv'
  OBVIOUS
<1>1. TypeInv'
  BY NextType DEF RegistryInv
<1>2. ASSUME NEW t \in Transport, ConnectFail(t) PROVE RegistryInv'
  <2> Quiet
    BY <1>2 DEF ConnectFail, Quiet
  <2> QED
    BY <1>1, QuietStep
<1>3. CASE Shutdown
  <2> Quiet
    BY <1>3 DEF Shutdown, Quiet
  <2> QED
    BY <1>1, QuietStep
<1>4. CASE UNCHANGED vars
  <2> Quiet
    BY <1>4 DEF vars, Quiet
  <2> QED
    BY <1>1, QuietStep
<1> QED
  BY <1>1, <1>2, <1>3, <1>4, ConnectRegistry, ReaderRegistry, PostRegistry,
     DownloadRegistry DEF Next

(* While identifiers are distinct every connection with an open socket is  *)
(* registered under its identifier.                                        *)
THEOREM LiveConnsStayRegistered == Spec => []LiveIsRegistered
<1>1. RegistryInv => LiveIsRegistered
  BY DEF RegistryInv
<1> QED
  BY <1>1, InitRegistry, NextRegistry, PTL DEF Spec

(* While identifiers are distinct a request acts on the connection its     *)
(* client meant.                                                           *)
THEOREM RequestsAreRouted == Spec => []RequestsReachTheirConn
<1>1. RegistryInv => RequestsReachTheirConn
  BY DEF RegistryInv, RegistryFacts, PostFacts, GetFacts,
         RequestsReachTheirConn, IDsDistinct
<1> QED
  BY <1>1, InitRegistry, NextRegistry, PTL DEF Spec

(* A reader goroutine that returned left nothing open and nothing          *)
(* registered, whether or not identifiers are distinct.                    *)
THEOREM ReadersCleanUp == Spec => []CleanupComplete
<1>1. RegistryInv => CleanupComplete
  BY SMTT(30) DEF RegistryInv
<1> QED
  BY <1>1, InitRegistry, NextRegistry, PTL DEF Spec

-----------------------------------------------------------------------------
(* A step that changes no channel and no counter, and moves readers only   *)
(* to places where they hold no chunk.                                     *)
ChannelsQuiet ==
  /\ UNCHANGED <<dataCh, taken, nread>>
  /\ stopped => stopped'
  /\ \A c \in Conn :
       \/ reader'[c] = reader[c]
       \/ reader[c] # "send" /\ reader'[c] # "send"
          /\ (reader[c] \in {"closeRemote", "unregister", "done"} =>
                reader'[c] \in {"closeRemote", "unregister", "done"})

(* Every step keeps the order of dataCh.                                   *)
LEMMA NextFifo == RegistryInv /\ ChannelIsFifo /\ [Next]_vars => ChannelIsFifo'
<1> SUFFICES ASSUME RegistryInv, ChannelIsFifo, [Next]_vars PROVE ChannelIsFifo'
  OBVIOUS
<1>0. /\ dataCh \in [Conn -> Seq(Nat)]
      /\ taken \in [Conn -> Nat]
      /\ nread \in [Conn -> 0 .. MaxChunk]
      /\ reader \in [Conn -> {"none", "read", "send", "closeCh",
                              "closeRemote", "unregister", "done"}]
      /\ ChanCap \in Nat /\ MaxChunk \in Nat
  BY DpiServerAssumption DEF RegistryInv, TypeInv, TypeOK
<1>1. ASSUME ChannelsQuiet PROVE ChannelIsFifo'
  BY <1>0, <1>1 DEF ChannelsQuiet, ChannelIsFifo
<1>2. ASSUME NEW c \in Conn, Reader(c) PROVE ChannelIsFifo'
  <2> USE DEF readerVars
  <2>1. CASE ReaderRead(c)
    BY <1>0, <2>1 DEF ReaderRead, ChannelIsFifo
  <2>2. CASE ReaderSend(c)
    <3>1. /\ Len(dataCh[c]) < ChanCap
          /\ dataCh' = [dataCh EXCEPT ![c] = Append(@, nread[c])]
          /\ reader' = [reader EXCEPT ![c] = "read"]
          /\ reader[c] = "send"
          /\ UNCHANGED <<taken, nread, stopped>>
      BY <2>2 DEF ReaderSend
    <3>2. taken[c] + Len(dataCh[c]) + 1 = nread[c]
      BY <1>0, <3>1 DEF ChannelIsFifo
    <3>3. /\ Len(dataCh'[c]) = Len(dataCh[c]) + 1
          /\ \A i \in 1 .. Len(dataCh'[c]) : dataCh'[c][i] = taken[c] + i
      BY <1>0, <3>1, <3>2 DEF ChannelIsFifo
    <3> QED
      BY SMTT(30), <1>0, <3>1, <3>2, <3>3 DEF ChannelIsFifo
  <2>3. CASE ReaderStop(c)
    BY SMTT(30), <1>0, <2>3 DEF ReaderStop, ChannelIsFifo
  <2>4. CASE ReaderError(c) \/ ReaderCloseCh(c) \/ ReaderCloseRemote(c)
             \/ ReaderUnregister(c)
    <3> ChannelsQuiet
      BY <1>0, <2>4 DEF ReaderError, ReaderCloseCh, ReaderCloseRemote,
                        ReaderUnregister, ChannelsQuiet
    <3> QED
      BY <1>1
  <2> QED
    BY <1>2, <2>1, <2>2, <2>3, <2>4 DEF Reader
<1>3. ASSUME NEW d \in Download, DownloadChunk(d) \/ DownloadWriteError(d)
      PROVE  ChannelIsFifo'
  <2>1. PICK c \in Conn :
          /\ dataCh[c] # <<>>
          /\ dataCh' = [dataCh EXCEPT ![c] = Tail(@)]
          /\ taken' = [taken EXCEPT ![c] = @ + 1]
          /\ UNCHANGED <<nread, reader, stopped>>
    BY Zenon, <1>3 DEF DownloadChunk, DownloadWriteError, getVars, RegistryInv,
                TypeInv, HandlersHoldConns
  <2>2. /\ dataCh[c] \in Seq(Nat) /\ Len(dataCh[c]) \in Nat \ {0}
        /\ dataCh'[c] = Tail(dataCh[c]) /\ taken'[c] = taken[c] + 1
        /\ taken[c] \in Nat
    BY <1>0, <2>1
  <2>3. /\ Len(dataCh'[c]) = Len(dataCh[c]) - 1
        /\ \A i \in 1 .. Len(dataCh'[c]) : dataCh'[c][i] = dataCh[c][i + 1]
    BY <2>2
  <2>4. \A i \in 1 .. Len(dataCh'[c]) : dataCh'[c][i] = taken'[c] + i
    BY <2>2, <2>3 DEF ChannelIsFifo
  <2>5. /\ Len(dataCh'[c]) <= ChanCap
        /\ taken'[c] + Len(dataCh'[c]) = taken[c] + Len(dataCh[c])
    BY SMTT(30), <1>0, <2>2, <2>3 DEF ChannelIsFifo
  <2>6. \A e \in Conn \ {c} : dataCh'[e] = dataCh[e] /\ taken'[e] = taken[e]
    BY <1>0, <2>1
  <2> QED
    BY SMTT(30), <2>1, <2>4, <2>5, <2>6 DEF ChannelIsFifo
<1>4. ASSUME NEW t \in Transport, NEW c \in Conn, handleConnect(t, c)
      PROVE  ChannelIsFifo'
  <2> ChannelsQuiet
    BY <1>0, <1>4 DEF handleConnect, ChannelsQuiet, RegistryInv,
                      RegistryFacts, AllocationFacts
  <2> QED
    BY <1>1
<1>5. ASSUME UNCHANGED <<dataCh, taken, nread, reader>>, stopped => stopped'
      PROVE  ChannelIsFifo'
  <2> ChannelsQuiet
    BY <1>5 DEF ChannelsQuiet
  <2> QED
    BY <1>1
<1>6. ASSUME NEW t \in Transport, ConnectFail(t) PROVE ChannelIsFifo'
  BY <1>5, <1>6 DEF ConnectFail
<1>7. ASSUME NEW p \in Post, NEW type \in {"data", "close"}, NEW c \in Conn,
             PostLookup(p, type, c)
      PROVE  ChannelIsFifo'
  BY SMTT(30), <1>5, <1>7 DEF PostLookup, postVars
<1>8. ASSUME NEW p \in Post, PostStep(p) PROVE ChannelIsFifo'
  BY <1>5, <1>8 DEF PostStep, PostWrite, PostWriteError, PostClose,
                    PostUnregister, postVars
<1>9. ASSUME NEW d \in Download, NEW c \in Conn, DownloadOpen(d, c)
      PROVE  ChannelIsFifo'
  BY <1>5, <1>9 DEF DownloadOpen, getVars
<1>10. ASSUME NEW d \in Download, DownloadReturn(d) PROVE ChannelIsFifo'
  BY <1>5, <1>10 DEF DownloadReturn, getVars
<1>11. CASE Shutdown
  BY <1>5, <1>11 DEF Shutdown
<1>12. CASE UNCHANGED vars
  BY <1>5, <1>12 DEF vars
<1> QED
  BY Zenon, <1>2, <1>3, <1>4, <1>6, <1>7, <1>8, <1>9, <1>10, <1>11, <1>12
     DEF Next, DownloadStep, DownloadEOF, DownloadStop, DownloadGone

(* dataCh is empty at first and keeps the order of the target's stream;    *)
(* nothing is lost, repeated or reordered between the target's socket and  *)
(* the downloads.                                                          *)
THEOREM ChannelKeepsOrder == Spec => []ChannelIsFifo
<1>1. Init => ChannelIsFifo
  BY SMTT(30), DpiServerAssumption DEF Init, ChannelIsFifo
<1> QED
  BY <1>1, InitRegistry, NextRegistry, NextFifo, PTL DEF Spec

-----------------------------------------------------------------------------
(* dataCh is closed only by a reader goroutine that has left its loop.     *)
ClosedInv ==
  \A c \in Conn : dataClosed[c] =>
    reader[c] \in {"closeRemote", "unregister", "done"}

(* What a step may do to a closed channel.                                 *)
ClosedStep ==
  \A c \in Conn : dataClosed[c] =>
    /\ dataClosed'[c]
    /\ Len(dataCh'[c]) <= Len(dataCh[c])
    /\ ~ ReaderCloseCh(c)

(* No step sends on a closed channel or closes it again.                   *)
LEMMA NextClosed ==
  RegistryInv /\ ClosedInv /\ [Next]_vars => ClosedInv' /\ ClosedStep
<1> SUFFICES ASSUME RegistryInv, ClosedInv, [Next]_vars
             PROVE  ClosedInv' /\ ClosedStep
  OBVIOUS
<1>0. /\ dataCh \in [Conn -> Seq(Nat)]
      /\ dataClosed \in [Conn -> BOOLEAN]
      /\ reader \in [Conn -> {"none", "read", "send", "closeCh",
                              "closeRemote", "unregister", "done"}]
  BY DEF RegistryInv, TypeInv, TypeOK
<1>a. \A c \in Conn : dataClosed[c] => ~ ReaderCloseCh(c)
  BY DEF ClosedInv, ReaderCloseCh
<1>b. \A c \in Conn : Len(dataCh[c]) \in Nat
  BY <1>0
<1>1. ASSUME UNCHANGED <<dataCh, dataClosed>>,
             \A c \in Conn : \/ reader'[c] = reader[c]
                             \/ reader'[c] \in {"closeRemote", "unregister", "done"}
                             \/ ~ dataClosed[c]
      PROVE  ClosedInv' /\ ClosedStep
  BY <1>1, <1>a, <1>b DEF ClosedInv, ClosedStep
<1>2. ASSUME NEW c \in Conn, Reader(c) PROVE ClosedInv' /\ ClosedStep
  <2> USE DEF readerVars
  <2>1. CASE ReaderRead(c) \/ ReaderError(c) \/ ReaderStop(c)
             \/ ReaderCloseRemote(c) \/ ReaderUnregister(c)
    BY <1>0, <1>1, <2>1 DEF ClosedInv, ReaderRead, ReaderError, ReaderStop,
                            ReaderCloseRemote, ReaderUnregister
  <2>2. CASE ReaderSend(c)
    <3>1. ~ dataClosed[c]
      BY <2>2 DEF ReaderSend, ClosedInv
    <3> QED
      BY <1>0, <1>a, <1>b, <2>2, <3>1 DEF ReaderSend, ClosedInv, ClosedStep
  <2>3. CASE ReaderCloseCh(c)
    BY <1>0, <1>a, <1>b, <2>3 DEF ReaderCloseCh, ClosedInv, ClosedStep
  <2> QED
    BY SMTT(30), <1>2, <2>1, <2>2, <2>3 DEF Reader
<1>3. ASSUME NEW d \in Download, DownloadChunk(d) \/ DownloadWriteError(d)
      PROVE  ClosedInv' /\ ClosedStep
  <2>1. PICK c \in Conn : /\ dataCh[c] # <<>>
                          /\ dataCh' = [dataCh EXCEPT ![c] = Tail(@)]
                          /\ UNCHANGED <<dataClosed, reader>>
    BY Zenon, <1>3 DEF DownloadChunk, DownloadWriteError, getVars, RegistryInv,
                TypeInv, HandlersHoldConns
  <2>2. \A e \in Conn : Len(dataCh'[e]) <= Len(dataCh[e])
    BY <1>0, <1>b, <2>1
  <2> QED
    BY SMTT(30), <1>a, <2>1, <2>2 DEF ClosedInv, ClosedStep
<1>4. ASSUME NEW t \in Transport, NEW c \in Conn, handleConnect(t, c)
      PROVE  ClosedInv' /\ ClosedStep
  <2>1. ~ dataClosed[c]
    BY <1>4 DEF handleConnect, ClosedInv, RegistryInv, RegistryFacts,
                AllocationFacts
  <2> QED
    BY <1>0, <1>1, <1>4, <2>1 DEF handleConnect
<1>5. ASSUME UNCHANGED <<dataCh, dataClosed, reader>>
      PROVE  ClosedInv' /\ ClosedStep
  BY <1>1, <1>5
<1>6. ASSUME NEW t \in Transport, ConnectFail(t) PROVE ClosedInv' /\ ClosedStep
  BY <1>5, <1>6 DEF ConnectFail
<1>7. ASSUME NEW p \in Post, NEW type \in {"data", "close"}, NEW c \in Conn,
             PostLookup(p, type, c)
      PROVE  ClosedInv' /\ ClosedStep
  BY SMTT(30), <1>5, <1>7 DEF PostLookup, postVars
<1>8. ASSUME NEW p \in Post, PostStep(p) PROVE ClosedInv' /\ ClosedStep
  BY <1>5, <1>8 DEF PostStep, PostWrite, PostWriteError, PostClose,
                    PostUnregister, postVars
<1>9. ASSUME NEW d \in Download, NEW c \in Conn, DownloadOpen(d, c)
      PROVE  ClosedInv' /\ ClosedStep
  BY <1>5, <1>9 DEF DownloadOpen, getVars
<1>10. ASSUME NEW d \in Download, DownloadReturn(d)
       PROVE  ClosedInv' /\ ClosedStep
  BY <1>5, <1>10 DEF DownloadReturn, getVars
<1>11. CASE Shutdown
  BY <1>5, <1>11 DEF Shutdown
<1>12. CASE UNCHANGED vars
  BY <1>5, <1>12 DEF vars
<1> QED
  BY Zenon, <1>2, <1>3, <1>4, <1>6, <1>7, <1>8, <1>9, <1>10, <1>11, <1>12
     DEF Next, DownloadStep, DownloadEOF, DownloadStop, DownloadGone

(* No behaviour of the server sends on a closed dataCh or closes it twice, *)
(* so neither of these panics can happen.                                  *)
THEOREM ClosedChannelsStayQuiet == Spec => NoUseOfClosedChannel
<1>1. Init => ClosedInv
  BY DEF Init, ClosedInv
<1>2. NoUseOfClosedChannel <=> [][ClosedStep]_vars
  BY DEF NoUseOfClosedChannel, ClosedStep
<1>3. RegistryInv /\ ClosedInv /\ [Next]_vars => [ClosedStep]_vars
  BY NextClosed
<1> QED
  BY <1>1, <1>2, <1>3, NextClosed, InitRegistry, NextRegistry, PTL DEF Spec
=============================================================================
