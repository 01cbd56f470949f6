-------------------------- MODULE MCClientProgress --------------------------
(***************************************************************************)
(* What must happen at the client in the end, for TLC: the two directions  *)
(* of a tunneled connection of the dpi client (with the safety of its      *)
(* downloads), and the snowflake client's RedialPacketConn.  part says     *)
(* which of them a behaviour is about; the state of the other stays what   *)
(* it is initially.                                                        *)
(***************************************************************************)
EXTENDS TunnelConn, TLC

CONSTANTS MaxDials, MaxUp, MaxDown, QueueSize

VARIABLES
  part,
  loop, cur, conn, reader, writer, rpacket, wpacket, sendQueue, recvQueue, err,
  sender, receiver, nup, ndown, sent, packets
redialVars ==
  <<loop, cur, conn, reader, writer, rpacket, wpacket, sendQueue, recvQueue, err,
    sender, receiver, nup, ndown, sent, packets>>

Redial == INSTANCE RedialPacketConn WITH received <- packets

MCInit ==
  /\ part \in {"download", "writes", "redial"}
  /\ Init /\ Redial!Init

(* Nobody writes while the downloads are looked at; nothing arrives and    *)
(* nobody reads while the Writes are.                                      *)
MCNext ==
  \/ /\ part = "download" /\ Next /\ UNCHANGED <<part, redialVars>>
     /\ \A w \in WriteCaller : writing'[w] = none
  \/ /\ part = "writes" /\ Next /\ UNCHANGED <<part, redialVars>>
     /\ nread' = 0 /\ reading' = "idle"
  \/ part = "redial" /\ Redial!Next /\ UNCHANGED <<part, vars>>

(* The fairness of the two modules.                                        *)
tunnel == part \in {"download", "writes"}
TunnelFairness ==
  /\ \A w \in WriteCaller :
       WF_vars(tunnel /\ (WriteEnqueue(w) \/ WriteAcked(w) \/ WriteEOF(w)))
  /\ WF_vars(tunnel /\ PumpWriteStep)
  /\ WF_vars(tunnel /\ pumpW = "close" /\ CloseStart)
  /\ WF_vars(tunnel /\ (CloseConn \/ CloseStream))
  /\ WF_vars(tunnel /\ (PumpCheck \/ PumpPush \/ PumpReadError))
  /\ WF_vars(tunnel /\ (ReadEOF \/ \E len \in 1 .. ChunkLen : ReadData(len)))
RedialFairness ==
  /\ WF_redialVars(part = "redial" /\ Redial!DialLoop)
  /\ \A s \in Redial!Dial :
       /\ WF_redialVars(/\ part = "redial"
                        /\ \/ Redial!ReaderClosed(s) \/ Redial!ReaderPeer(s)
                           \/ Redial!ReaderDefault(s) \/ Redial!ReaderPush(s))
       /\ WF_redialVars(part = "redial" /\ conn[s] = "closed" /\ Redial!ReaderError(s))
       /\ WF_redialVars(part = "redial" /\ Redial!Writer(s))
  /\ WF_redialVars(part = "redial" /\ Redial!WriteToPush)
  /\ WF_redialVars(part = "redial" /\ (Redial!ReadFromPacket \/ Redial!ReadFromClosed))

MCSpec ==
  /\ MCInit /\ [][MCNext]_<<part, vars, redialVars>>
  /\ TunnelFairness /\ RedialFairness

-----------------------------------------------------------------------------
(* The properties of RedialPacketConn.                                     *)

(* An error ends the exchange; Close and a failed dial end dialLoop and a  *)
(* waiting ReadFrom.                                                       *)
ExchangesEnd == Redial!ExchangesEnd
=============================================================================
