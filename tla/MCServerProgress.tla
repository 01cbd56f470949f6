-------------------------- MODULE MCServerProgress --------------------------
(***************************************************************************)
(* The snowflake server for TLC: the encapsulation of packets, and what    *)
(* must happen in the end to its handlers, its smux sessions and the       *)
(* records of its ClientMap.  part says which of them a behaviour is       *)
(* about; the state of the others stays what it is initially.              *)
(***************************************************************************)
EXTENDS Encapsulation, TLC

CONSTANTS
  Client, Handler, MaxQueues, MaxDown, MaxUp, QueueSize,
  Conn, None, MaxStreams,
  Addr, Timeout, MaxTime

VARIABLES
  part,
  queue, made, content, recvQueue, closed, conn, client, reader, writer, main,
  drains, rpacket, wpacket, errCh, late, ndown, nup, dest, hsent, by, receiver,
  hreceived,
  listening, owner, spc, kcp, sess, smuxSessions, streams, foreign,
  byAge, byAddr, clock, mmade, mpc, at, reaper, now
handlerVars ==
  <<queue, made, content, recvQueue, closed, conn, client, reader, writer, main,
    drains, rpacket, wpacket, errCh, late, ndown, nup, dest, hsent, by, receiver,
    hreceived>>
smuxVars == <<listening, owner, spc, kcp, sess, smuxSessions, streams, foreign>>
mapVars == <<byAge, byAddr, clock, mmade, mpc, at, reaper, now>>

H == INSTANCE SnowflakeServer WITH sent <- hsent, received <- hreceived
Smux == INSTANCE SmuxSessions WITH pc <- spc, conn <- kcp
Map == INSTANCE ClientMap WITH pc <- mpc, made <- mmade

(* Lengths on both sides of every boundary of the encapsulation.           *)
BoundarySizes == {0, 63, 64, 8191, 8192, 1048575, 1048576}
BoundaryPadding == {1, 64, 65, 1025}
BoundaryBudgets == {1, 63, 64, 65, 8191, 8192, 8193, 1048575, 1048576, 1048580}

-----------------------------------------------------------------------------
MCInit ==
  /\ part \in {"encapsulation", "handlers", "smux", "map"}
  /\ Init /\ H!Init /\ Smux!Init /\ Map!Init

MCNext ==
  \/ part = "encapsulation" /\ Next /\ UNCHANGED <<part, handlerVars, smuxVars, mapVars>>
  \/ part = "handlers" /\ H!Next /\ UNCHANGED <<part, vars, smuxVars, mapVars>>
  \/ part = "smux" /\ Smux!Next /\ UNCHANGED <<part, vars, handlerVars, mapVars>>
  \/ part = "map" /\ Map!Next /\ UNCHANGED <<part, vars, handlerVars, smuxVars>>

(* The fairness of the three modules.                                      *)
HandlerFairness ==
  /\ WF_handlerVars(part = "handlers" /\ (H!ReadFromPacket \/ H!ReadFromClosed))
  /\ \A h \in Handler :
       /\ WF_handlerVars(part = "handlers" /\ H!ServeReturn(h))
       /\ WF_handlerVars(part = "handlers" /\ H!Writer(h))
       /\ WF_handlerVars(part = "handlers" /\ H!QueueIncoming(h))
       /\ WF_handlerVars(part = "handlers" /\ conn[h] = "closed" /\ H!ReaderError(h))
SmuxFairness == \A c \in Conn : WF_smuxVars(part = "smux" /\ Smux!acceptSmux(c))
MapFairness ==
  /\ WF_mapVars(/\ part = "map"
                /\ \/ Map!down \/ Map!downEnd \/ Map!up
                   \/ Map!removeExpired \/ Map!Pop \/ Map!Unlock)
  /\ WF_mapVars(part = "map" /\ Map!Wake) /\ SF_mapVars(part = "map" /\ Map!Lock)

MCSpec ==
  /\ MCInit /\ [][MCNext]_<<part, vars, handlerVars, smuxVars, mapVars>>
  /\ HandlerFairness /\ SmuxFairness /\ MapFairness

-----------------------------------------------------------------------------
(* The properties of SnowflakeServer, SmuxSessions and ClientMap.          *)

(* An error of either goroutine closes the connection and ends the reader; *)
(* Close releases a waiting ReadFrom.                                      *)
HandlersEnd == H!HandlersEnd

(* A session that is displaced or breaks is cleaned up.                    *)
OverIsCleanedUp == Smux!OverIsCleanedUp

(* A client that stays idle is forgotten.                                  *)
IdleIsForgotten == Map!IdleIsForgotten
=============================================================================
