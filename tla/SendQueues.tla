----------------------------- MODULE SendQueues -----------------------------
(***************************************************************************)
(* What a ClientMap promises its callers: each client has at most one send *)
(* queue, SendQueue returns it, making it if necessary, and at any time a  *)
(* client may be forgotten together with its queue.  Queues are numbered   *)
(* in the order in which they are made; 0 is no queue.                     *)
(***************************************************************************)
EXTENDS Naturals

CONSTANTS Addr, MaxQueues

VARIABLES
  queue,  \* the send queue of each client
  made    \* the number of queues made so far

Init == queue = [a \in Addr |-> 0] /\ made = 0

(* SendQueue finds the client, or makes a record and a queue for it.       *)
Find(a) == queue[a] # 0 /\ UNCHANGED <<queue, made>>

Make(a) ==
  /\ queue[a] = 0
  /\ made < MaxQueues
  /\ made' = made + 1
  /\ queue' = [queue EXCEPT ![a] = made + 1]

Expire(a) ==
  /\ queue[a] # 0
  /\ queue' = [queue EXCEPT ![a] = 0]
  /\ UNCHANGED made

Spec ==
  Init /\ [][\E a \in Addr : Find(a) \/ Make(a) \/ Expire(a)]_<<queue, made>>
=============================================================================
