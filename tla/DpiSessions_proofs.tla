------------------------- MODULE DpiSessions_proofs -------------------------
(***************************************************************************)
(* Proofs about DpiSessions, for any set of sessions and of servers.       *)
(***************************************************************************)
EXTENDS DpiSessions, TLAPS

Pc == {"connect", "post", "answer", "redirect", "assign", "reply",
       "download", "get", "open", "send", "close", "postClose", "done"}
Connected == {"reply", "download", "get", "open", "send", "close", "postClose"}

Types ==
  /\ pc \in [Session -> Pc]
  /\ baseURL \in Base \cup {Torn} /\ dest \in [Session -> Base \cup {None, Torn}]
  /\ attempt \in [Session -> Nat]
  /\ held \in [Base -> SUBSET (Session \X Nat)]
  /\ home \in [Session -> Base \cup {None}]
  /\ reason \in [Session -> {"none", "answerLost", "abandoned", "closeLost", "moved"}]
  /\ silent \in [Session -> BOOLEAN] /\ moved \in [Session -> BOOLEAN]
  /\ gone \in [Session -> BOOLEAN]

Excused(s) ==
  reason[s] \in {"answerLost", "closeLost", "moved"} \cup
                (IF kind[s] = "dns" THEN {} ELSE {"abandoned"})

(* Where server b may hold a connection of session s.                      *)
Where(s, b) ==
  \/ pc[s] = "answer" /\ dest[s] = b
  \/ pc[s] \in Connected /\ home[s] = b
  \/ pc[s] = "done" /\ Excused(s)

HeldInv ==
  \A b \in Base : \A s \in Session : \A n \in Nat :
    <<s, n>> \in held[b] => n = attempt[s] /\ Where(s, b)

(* A session has a home once its Connect was answered.                     *)
HomeInv ==
  \A s \in Session :
    /\ pc[s] \in Connected => home[s] \in Base
    /\ pc[s] \in {"connect", "post", "answer", "redirect", "assign"} =>
         home[s] = None /\ ~silent[s]
    /\ pc[s] \in {"answer", "redirect", "assign"} => dest[s] \in Base
    /\ pc[s] = "reply" => kind[s] = "http"

(* As long as no redirect moved it, baseURL is the home of the session,    *)
(* and so is every URL built from it.                                      *)
StillInv ==
  \A s \in Session : home[s] # None /\ ~moved[s] =>
    /\ baseURL = home[s]
    /\ \A t \in Session : pc[t] # "assign"
    /\ pc[s] \in {"get", "send", "postClose"} => dest[s] = home[s]

(* The home holds the connection until the server itself ends it.          *)
AliveInv ==
  \A s \in Session : ~gone[s] =>
    /\ pc[s] = "answer" => <<s, attempt[s]>> \in held[dest[s]]
    /\ pc[s] \in Connected => <<s, attempt[s]>> \in held[home[s]]

IInv == Types /\ HeldInv /\ HomeInv /\ StillInv /\ AliveInv /\ SilentLossExplained

USE DEF Pc, Connected

(* A Connect that is answered.                                             *)
LEMMA ConnectOkIInv == ASSUME IInv, NEW s \in Session, ConnectOk(s) PROVE IInv'
<1> USE DEF ConnectOk, go, servers
<1>1. Types'
  <2>1. (baseURL # dest[s] \/ writers # {}) \in BOOLEAN
    OBVIOUS
  <2>2. moved' \in [Session -> BOOLEAN]
    BY <2>1 DEF IInv, Types
  <2>3. home' \in [Session -> Base \cup {None}]
    BY DEF IInv, Types, HomeInv
  <2>4. pc' \in [Session -> Pc]
    BY DEF IInv, Types
  <2> QED BY <2>2, <2>3, <2>4 DEF IInv, Types
<1>2. HeldInv'
  BY DEF IInv, Types, HeldInv, HomeInv, Where, Excused
<1>3. HomeInv'
  BY DEF IInv, Types, HomeInv
<1>4. StillInv'
  BY Zenon DEF IInv, Types, StillInv, writers
<1>5. AliveInv'
  BY DEF IInv, Types, HomeInv, AliveInv
<1>6. SilentLossExplained'
  <2>1. SUFFICES ASSUME NEW t \in Session, silent[t] PROVE (moved[t] \/ gone[t])'
    BY DEF SilentLossExplained
  <2>2. ~silent[s]
    BY DEF IInv, HomeInv
  <2>3. t # s /\ (moved[t] \/ gone[t])
    BY <2>1, <2>2 DEF IInv, SilentLossExplained
  <2> QED BY <2>3 DEF IInv, Types
<1> QED BY <1>1, <1>2, <1>3, <1>4, <1>5, <1>6 DEF IInv

(* A redirect begins to assign baseURL: all sessions with a home are moved. *)
LEMMA AssignStartIInv == ASSUME IInv, NEW s \in Session, AssignStart(s) PROVE IInv'
<1> USE DEF AssignStart, go, servers
<1>1. Types'
  BY DEF IInv, Types
<1>2. HeldInv'
  BY DEF IInv, Types, HeldInv, HomeInv, Where, Excused
<1>3. HomeInv'
  BY DEF IInv, Types, HomeInv
<1>4. StillInv' /\ AliveInv' /\ SilentLossExplained'
  BY Zenon DEF IInv, Types, HomeInv, StillInv, AliveInv, SilentLossExplained
<1> QED BY <1>1, <1>2, <1>3, <1>4 DEF IInv

(* It has assigned it: every session with a home has been moved before.    *)
LEMMA AssignEndIInv == ASSUME IInv, NEW s \in Session, AssignEnd(s) PROVE IInv'
<1> USE DEF AssignEnd, go, servers, history
<1>0. dest[s] \in Base
  BY DEF IInv, HomeInv
<1>1. Types'
  <2>1. baseURL' \in Base \cup {Torn}
    BY <1>0 DEF IInv, Types
  <2>2. attempt' \in [Session -> Nat]
    BY DEF IInv, Types, nextAttempt
  <2> QED BY <2>1, <2>2 DEF IInv, Types
<1>2. HeldInv'
  BY DEF IInv, Types, HeldInv, HomeInv, Where, Excused
<1>3. HomeInv'
  BY DEF IInv, Types, HomeInv
<1>4. StillInv' /\ AliveInv' /\ SilentLossExplained'
  BY DEF IInv, Types, HomeInv, StillInv, AliveInv, SilentLossExplained
<1> QED BY <1>1, <1>2, <1>3, <1>4 DEF IInv

(* The server ends a connection.                                           *)
LEMMA ServerEndsIInv == ASSUME IInv, NEW s \in Session, ServerEnds(s) PROVE IInv'
<1> USE DEF ServerEnds, conn, history
<1>1. Types'
  BY DEF IInv, Types
<1>2. HeldInv'
  BY DEF IInv, Types, HeldInv, Where, Excused
<1>3. HomeInv' /\ StillInv'
  BY DEF IInv, Types, HomeInv, StillInv
<1>4. AliveInv' /\ SilentLossExplained'
  BY SMTT(30) DEF IInv, Types, HomeInv, AliveInv, SilentLossExplained
<1> QED BY <1>1, <1>2, <1>3, <1>4 DEF IInv

(* Every step keeps IInv.                                                  *)
LEMMA NextIInv == IInv /\ [Next]_vars => IInv'
<1> SUFFICES ASSUME IInv, [Next]_vars PROVE IInv'
  OBVIOUS
<1> USE DpiSessionsAssumption
    DEF IInv, Types, HeldInv, Where, Excused, HomeInv, StillInv, AliveInv, SilentLossExplained
<1>1. ASSUME NEW s \in Session, Caller(s) PROVE IInv'
  <2>1. CASE ConnectStart(s)
    BY <2>1 DEF ConnectStart, ReadBase, writers, go, conn, servers, history
  <2>2. CASE ConnectRegistered(s)
    BY <2>2 DEF ConnectRegistered, go, conn, servers, history
  <2>3. CASE ConnectFails(s)
    BY <2>3 DEF ConnectFails, go, conn, servers, history
  <2>4. CASE ConnectAnswerLost(s)
    BY <2>4 DEF ConnectAnswerLost, go, conn, servers, history
  <2>5. CASE ConnectRedirected(s)
    BY <2>5 DEF ConnectRedirected, go, conn, servers, history
  <2>6. CASE Reply(s)
    BY <2>6 DEF Reply, go, conn, servers, history
  <2>7. CASE ReplyFails(s)
    BY <2>7 DEF ReplyFails, go, conn, servers, history
  <2>8. CASE DownloadStart(s)
    BY <2>8 DEF DownloadStart, ReadBase, writers, go, conn, servers, history
  <2>9. CASE DownloadOk(s)
    BY <2>9 DEF DownloadOk, go, conn, servers, history
  <2>10. CASE DownloadFails(s)
    BY <2>10 DEF DownloadFails, closesAfterFailure, go, conn, servers, history
  <2>11. CASE SendStart(s)
    BY <2>11 DEF SendStart, ReadBase, writers, go, conn, servers, history
  <2>12. CASE SendAnswered(s)
    BY <2>12 DEF SendAnswered, go, conn, servers, history
  <2>13. CASE SendFails(s)
    BY <2>13 DEF SendFails, go, conn, servers, history
  <2>14. CASE Done(s)
    BY <2>14 DEF Done, go, conn, servers, history
  <2>15. CASE CloseStart(s)
    BY <2>15 DEF CloseStart, ReadBase, writers, go, conn, servers, history
  <2>16. CASE CloseArrives(s)
    BY <2>16 DEF CloseArrives, closed, go, conn, servers, history
  <2>17. CASE CloseLost(s)
    BY SMTT(30), <2>17 DEF CloseLost, go, conn, servers, history
  <2>18. CASE ConnectOk(s)
    BY ONLY <2>18, IInv, ConnectOkIInv
  <2>19. CASE AssignStart(s)
    BY ONLY <2>19, IInv, AssignStartIInv
  <2>20. CASE AssignEnd(s)
    BY ONLY <2>20, IInv, AssignEndIInv
  <2> QED
    BY Zenon, <1>1, <2>1, <2>2, <2>3, <2>4, <2>5, <2>6, <2>7, <2>8, <2>9,
       <2>10, <2>11, <2>12, <2>13, <2>14, <2>15, <2>16, <2>17, <2>18, <2>19, <2>20 DEF Caller
<1>2. ASSUME NEW s \in Session, ServerEnds(s) PROVE IInv'
  BY ONLY <1>2, IInv, ServerEndsIInv
<1>3. CASE UNCHANGED vars
  BY <1>3 DEF vars
<1> QED BY SMTT(30), <1>1, <1>2, <1>3 DEF Next

(* The inductive invariant holds in every reachable state.                 *)
THEOREM Inductive == Spec => []IInv
<1>1. Init => IInv
  BY DpiSessionsAssumption DEF Init, IInv, Types, HeldInv, HomeInv, StillInv, AliveInv,
     SilentLossExplained
<1> QED BY <1>1, NextIInv, PTL DEF Spec

(* For any number of sessions and redirects: SendData reports success for  *)
(* data that reached no connection only after a redirect moved baseURL, or *)
(* after the server ended the connection.                                  *)
THEOREM SilentLoss == Spec => []SilentLossExplained
<1>1. IInv => SilentLossExplained
  BY DEF IInv
<1> QED BY <1>1, Inductive, PTL

(* For any number of sessions and redirects: a connection is left at a     *)
(* server only for one of the known reasons.                               *)
THEOREM Released == Spec => []ReleasedOrKnown
<1>1. ASSUME IInv, NEW s \in Session, NEW c \in leftBehind(s) PROVE c = conn(s)
  <2>1. PICK b \in Base : c \in held[b] /\ c[1] = s
    BY <1>1 DEF leftBehind
  <2>2. c = <<s, c[2]>> /\ c[2] \in Nat
    BY <1>1, <2>1 DEF IInv, Types
  <2> QED BY <1>1, <2>1, <2>2 DEF IInv, HeldInv, conn
<1>2. ASSUME IInv, NEW s \in Session, pc[s] = "done", NEW c \in leftBehind(s) PROVE Excused(s)
  <2>1. PICK b \in Base : c \in held[b] /\ c[1] = s
    BY <1>2 DEF leftBehind
  <2>2. c = <<s, c[2]>> /\ c[2] \in Nat
    BY <1>2, <2>1 DEF IInv, Types
  <2> QED BY <1>2, <2>1, <2>2 DEF IInv, HeldInv, Where
<1>3. IInv => ReleasedOrKnown
  BY <1>1, <1>2 DEF ReleasedOrKnown, Excused
<1> QED BY <1>3, Inductive, PTL
=============================================================================
