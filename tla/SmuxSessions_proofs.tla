------------------------ MODULE SmuxSessions_proofs -------------------------
(***************************************************************************)
(* Proofs about SmuxSessions, for any set of clients and of connections.   *)
(***************************************************************************)
EXTENDS SmuxSessions, TLAPS

(* A connection that has a goroutine has a client; the table names only    *)
(* sessions of that client whose goroutine has not cleaned up.             *)
IInv ==
  /\ owner \in [Conn -> Client \cup {None}]
  /\ pc \in [Conn -> {"none", "smux", "register", "accept", "delete",
                      "closeSess", "closeConn", "done"}]
  /\ smuxSessions \in [Client -> Conn \cup {None}]
  /\ \A c \in Conn : pc[c] # "none" => owner[c] \in Client
  /\ NoFinishedSession

(* A step of one goroutine that leaves the table, and stays where the      *)
(* table may name it or was not named by it.                               *)
LEMMA GoKeepsIInv ==
  ASSUME IInv, NEW c \in Conn, NEW to \in {"register", "accept", "delete", "closeConn", "done"},
         pc[c] # "none", pc' = [pc EXCEPT ![c] = to],
         to \in {"accept", "delete"} \/ pc[c] \notin {"accept", "delete"},
         UNCHANGED <<owner, smuxSessions>>
  PROVE  IInv'
  BY SmuxAssumption DEF IInv, NoFinishedSession

(* Every step keeps IInv.                                                  *)
LEMMA NextIInv == IInv /\ [Next]_vars => IInv'
<1> SUFFICES ASSUME IInv, [Next]_vars PROVE IInv'
  OBVIOUS
<1> USE SmuxAssumption
<1>1. CASE AcceptKCPFails
  BY <1>1 DEF AcceptKCPFails, IInv, NoFinishedSession
<1>2. ASSUME NEW c \in Conn, Break(c) PROVE IInv'
  BY <1>2 DEF Break, IInv, NoFinishedSession
<1>3. ASSUME NEW c \in Conn, NEW k \in Client, AcceptKCP(c, k) PROVE IInv'
  BY <1>3 DEF AcceptKCP, go, IInv, NoFinishedSession
<1>4. ASSUME NEW c \in Conn, acceptSmux(c) PROVE IInv'
  <2>1. CASE SmuxServer(c)
    BY Zenon, <2>1, GoKeepsIInv DEF SmuxServer, go
  <2>2. CASE SmuxServerFails(c)
    BY Zenon, <2>2, GoKeepsIInv DEF SmuxServerFails, go
  <2>3. CASE Register(c)
    BY <2>3 DEF Register, go, IInv, NoFinishedSession
  <2>4. CASE AcceptStream(c)
    BY Zenon, <2>4, GoKeepsIInv DEF AcceptStream, go
  <2>5. CASE AcceptStreamFails(c)
    BY Zenon, <2>5, GoKeepsIInv DEF AcceptStreamFails, go
  <2>6. CASE Delete(c)
    BY <2>6 DEF Delete, deleted, go, IInv, NoFinishedSession
  <2>7. CASE CloseSess(c)
    BY Zenon, <2>7, GoKeepsIInv DEF CloseSess, go
  <2>8. CASE CloseConn(c)
    BY Zenon, <2>8, GoKeepsIInv DEF CloseConn, go
  <2> QED
    BY <1>4, <2>1, <2>2, <2>3, <2>4, <2>5, <2>6, <2>7, <2>8 DEF acceptSmux
<1>5. CASE UNCHANGED vars
  BY <1>5 DEF vars, IInv, NoFinishedSession
<1> QED
  BY <1>1, <1>2, <1>3, <1>4, <1>5 DEF Next

(* Whatever the order in which the goroutines of any number of clients     *)
(* register, displace one another and delete, the table of sessions never  *)
(* holds one whose goroutine has cleaned up, nor one of another client.    *)
THEOREM TableHasNoFinishedSession == Spec => []NoFinishedSession
<1>1. Init => IInv
  BY SmuxAssumption DEF Init, IInv, NoFinishedSession
<1>2. IInv => NoFinishedSession
  BY DEF IInv
<1> QED
  BY <1>1, <1>2, NextIInv, PTL DEF Spec
=============================================================================
