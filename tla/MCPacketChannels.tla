-------------------------- MODULE MCPacketChannels --------------------------
(***************************************************************************)
(* The two implementations of PacketChannel for TLC: the client's          *)
(* RedialPacketConn and the packet side of the snowflake server, each once *)
(* with its packets on the way up and once on the way down.  part says     *)
(* which of the four a behaviour is about; the state of the other          *)
(* component stays what it is initially.                                   *)
(***************************************************************************)
EXTENDS RedialPacketConn, TLC

CONSTANTS Client, Handler, MaxQueues

VARIABLES
  part,
  queue, made, content, incoming, shut, ws, client, hreader, hwriter, main,
  drains, hrpacket, hwpacket, errCh, late, hdown, hup, dest, hsent, by,
  hreceiver, hreceived
serverVars ==
  <<queue, made, content, incoming, shut, ws, client, hreader, hwriter, main,
    drains, hrpacket, hwpacket, errCh, late, hdown, hup, dest, hsent, by,
    hreceiver, hreceived>>

S == INSTANCE SnowflakeServer WITH
  recvQueue <- incoming, closed <- shut, conn <- ws, reader <- hreader,
  writer <- hwriter, rpacket <- hrpacket, wpacket <- hwpacket, ndown <- hdown,
  nup <- hup, sent <- hsent, receiver <- hreceiver, received <- hreceived

MCInit ==
  /\ part \in {"redialUp", "redialDown", "serverUp", "serverDown"}
  /\ Init
  /\ S!Init
  /\ part # "serverDown" => \A g, h \in Handler : client[g] = client[h]

(* The last conjunct of each disjunct bounds the packets of the other way.  *)
MCNext ==
  \/ part = "redialUp" /\ Next /\ UNCHANGED <<part, serverVars>> /\ ndown' = 0
  \/ part = "redialDown" /\ Next /\ UNCHANGED <<part, serverVars>> /\ nup' <= 1
  \/ part = "serverUp" /\ S!Next /\ UNCHANGED <<part, vars>> /\ hdown' = 0
  \/ part = "serverDown" /\ S!Next /\ UNCHANGED <<part, vars>> /\ hup' = 0

MCSpec == MCInit /\ [][MCNext]_<<part, vars, serverVars>>

(* Clients and handlers are interchangeable.                               *)
Symmetry == Permutations(Client) \cup Permutations(Handler)

-----------------------------------------------------------------------------
(* The properties of RedialPacketConn and SnowflakeServer.                 *)

(* The state of both has its type.                                         *)
TypesOK == TypeOK /\ S!TypeOK

(* The writers of a client's handlers, which share a queue, keep the order *)
(* per connection and take at most one packet too many.                    *)
WritersKeepOrder == S!WritersKeepOrder

(* Nothing that goes through the server comes out twice or from nowhere.   *)
ServerImplementsPacketChannel == S!ImplementsPacketChannel
=============================================================================
