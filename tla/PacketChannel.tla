--------------------------- MODULE PacketChannel ---------------------------
(***************************************************************************)
(* What the packet connections of the turbotunnel promise: a packet that   *)
(* goes in comes out at most once, and may be lost or overtaken at any     *)
(* point.  Recovery is left to the KCP session above.                      *)
(***************************************************************************)
EXTENDS Sequences

CONSTANT Packet

VARIABLES
  given,   \* packets that went in
  flight,  \* packets inside
  out      \* packets that came out, in order

vars == <<given, flight, out>>

Init == given = {} /\ flight = {} /\ out = <<>>

Send(p) ==
  /\ p \notin given
  /\ given' = given \cup {p}
  /\ flight' \in {flight, flight \cup {p}}
  /\ UNCHANGED out

Deliver(p) ==
  /\ p \in flight
  /\ flight' = flight \ {p}
  /\ out' = Append(out, p)
  /\ UNCHANGED given

Lose(p) ==
  /\ p \in flight
  /\ flight' = flight \ {p}
  /\ UNCHANGED <<given, out>>

Next == \E p \in Packet : Send(p) \/ Deliver(p) \/ Lose(p)

Spec == Init /\ [][Next]_vars
=============================================================================
