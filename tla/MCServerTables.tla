--------------------------- MODULE MCServerTables ---------------------------
(***************************************************************************)
(* The two tables of the snowflake server for TLC: the smux sessions and   *)
(* ClientMap.  part says which of them a behaviour is about; the state of  *)
(* the other stays what it is initially.                                   *)
(***************************************************************************)
EXTENDS SmuxSessions, TLC

CONSTANTS Addr, Timeout, MaxTime, MaxQueues

VARIABLES part, byAge, byAddr, clock, made, holder, at, reaper, now
mapVars == <<byAge, byAddr, clock, made, holder, at, reaper, now>>

Map == INSTANCE ClientMap WITH pc <- holder

MCInit == part \in {"smux", "map"} /\ Init /\ Map!Init

MCNext ==
  \/ part = "smux" /\ Next /\ UNCHANGED <<part, mapVars>>
  \/ part = "map" /\ Map!Next /\ UNCHANGED <<part, vars>>

MCSpec == MCInit /\ [][MCNext]_<<part, vars, mapVars>>

(* Clients, connections and addresses are interchangeable; the instance    *)
(* uses the same values for connections and addresses, which never meet.   *)
Symmetry == Permutations(Client) \cup Permutations(Conn \cup Addr)

-----------------------------------------------------------------------------
(* The properties of the two tables.                                       *)

(* The state of both has its type.                                         *)
TypesOK == TypeOK /\ Map!TypeOK

(* byAddr is the inverse of byAge also while the heap is in disorder, and  *)
(* whoever gets the lock finds a heap.                                     *)
IndexedHeap == Map!IndexedHeap

(* removeExpired forgets the clients that were idle for the timeout, all   *)
(* of them and no others.                                                  *)
ForgetsTheIdle == Map!ForgetsTheIdle

(* Callers see one queue per client until it expires.                      *)
ImplementsSendQueues == Map!ImplementsSendQueues
=============================================================================
