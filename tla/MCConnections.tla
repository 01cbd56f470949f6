--------------------------- MODULE MCConnections ----------------------------
(***************************************************************************)
(* What happens to one proxied connection of the transports, for TLC: the  *)
(* byte stream over a WebSocket, the relaying handler, the way its target  *)
(* travels, and the resolver that looks it up.  part says which of them a  *)
(* behaviour is about; the state of the others stays what it is initially. *)
(***************************************************************************)
EXTENDS WebsocketConn, TLC

CONSTANTS
  Kind, MaxData,
  Resolver, Name, None, Fallback, Cap, Default

VARIABLES
  part,
  kind, pc, step, failed, conn, rsent, ended, copier, rgot, put, lost, why, first,
  request, tpc, target, stream, dialled,
  cache, timeout, rpc, name, entry, reply, context, wait, ch, hit
relayVars == <<kind, pc, step, failed, conn, rsent, ended, copier, rgot, put, lost,
               why, first>>
targetVars == <<request, tpc, target, stream, dialled>>

dnsVars == <<cache, timeout, rpc, name, entry, reply, context, wait, ch, hit>>

R == INSTANCE Relay WITH sent <- rsent, got <- rgot

-----------------------------------------------------------------------------
(* SOCKS5 requests: addresses of both kinds, a mapped one, an unknown      *)
(* type, names of several lengths and names that spell an address ("1",    *)
(* "2" and "3"), with one or two methods offered; and a SOCKS4 request.    *)
V4 == <<10, 0, 0, 1>>
V6 == <<32, 1, 13, 184, 0, 0, 0, 0, 0, 0, 0, 0, 10, 0, 0, 1>>
Mapped4 == <<0, 0, 0, 0, 0, 0, 0, 0, 0, 0, 255, 255>> \o V4
NameOf(n) == [i \in 1 .. n |-> 97]

SomeSpelling(b) ==
  CASE b = <<49>> -> [form |-> "dotted", bytes |-> V4]
    [] b = <<50>> -> [form |-> "colon", bytes |-> V6]
    [] b = <<51>> -> [form |-> "colon", bytes |-> Mapped4]
    [] OTHER -> [form |-> "name", bytes |-> b]

Addrs ==
  {<<1>> \o V4, <<4>> \o V6, <<4>> \o Mapped4, <<2>> \o V4}
    \cup {<<3, Len(b)>> \o b :
            b \in {NameOf(0), NameOf(5), NameOf(255), <<49>>, <<50>>, <<51>>}}
Ports == {<<0, 80>>, <<1, 187>>, <<255, 255>>}

Socks4 == <<4, 1, 0, 80>>
SomeRequests ==
  {<<5, m>> \o [i \in 1 .. m |-> 0] \o <<5, c, 0>> \o a \o p :
     m \in {1, 2}, c \in {1, 2}, a \in Addrs, p \in Ports} \cup {Socks4}

OwnSocks == [host |-> [form |-> "dotted", bytes |-> <<127, 0, 0, 1>>], port |-> 1080]

Target == INSTANCE StreamTarget WITH
  pc <- tpc, Requests <- SomeRequests, Spelling <- SomeSpelling,
  ForwardSocks <- OwnSocks

-----------------------------------------------------------------------------
(* A reply with an A record and one without; contexts without a deadline,  *)
(* with one that is over and with one ahead.                               *)
TwoReplies == {<<[a |-> TRUE, ttl |-> 1]>>, <<[a |-> FALSE, ttl |-> 1]>>}
Dns == INSTANCE DnsResolver WITH
  pc <- rpc, Replies <- TwoReplies, Deadline <- {None, 0, 1}

MCInit ==
  /\ part \in {"websocket", "relay", "target", "dns"}
  /\ Init /\ R!Init /\ Target!Init /\ Dns!Init
  /\ part # "relay" => kind = "forward"
  /\ part # "target" => request = Socks4

MCNext ==
  \/ part = "websocket" /\ Next /\ UNCHANGED <<part, relayVars, targetVars, dnsVars>>
  \/ part = "relay" /\ R!Next /\ UNCHANGED <<part, vars, targetVars, dnsVars>>
  \/ part = "target" /\ Target!Next /\ UNCHANGED <<part, vars, relayVars, dnsVars>>
  \/ part = "dns" /\ Dns!Next /\ UNCHANGED <<part, vars, relayVars, targetVars>>

(* The fairness of Relay and DnsResolver.                                  *)
MCFairness ==
  /\ WF_relayVars(part = "relay" /\ R!Handler)
  /\ \A s \in R!Side : WF_relayVars(part = "relay" /\ R!Copier(s))
  /\ WF_dnsVars(part = "dns" /\ Dns!Tick)
  /\ \A r \in Resolver : WF_dnsVars(part = "dns" /\ Dns!Step(r))

MCSpec ==
  MCInit /\ [][MCNext]_<<part, vars, relayVars, targetVars, dnsVars>> /\ MCFairness

-----------------------------------------------------------------------------
(* The properties of the components.                                       *)

(* The state of WebSocket, relay and resolver has its type.                *)
TypesOK == TypeOK /\ R!TypeOK /\ Dns!TypeOK

(* The direction that ends first, and cleanly, is complete.                *)
LossHasAReason == R!LossHasAReason

(* Once all is over no connection is left open, but for the one the dpi    *)
(* HTTP proxy abandons.                                                    *)
NothingLeftOpen == R!NothingLeftOpen

(* When a peer ends or resets, both connections are closed and all         *)
(* goroutines return, but for the Read of a closed tunnelConn.             *)
RelayEnds == R!RelayEnds

(* The server dials exactly what the SOCKS5 client asked for.              *)
DialsWhatWasAsked == Target!DialsWhatWasAsked

(* Resolve returns, with or without a reply.                               *)
ResolveReturns == Dns!ResolveReturns
=============================================================================
