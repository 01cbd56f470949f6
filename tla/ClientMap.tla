----------------------------- MODULE ClientMap ------------------------------
(***************************************************************************)
(* ClientMap, the snowflake server's table of recently seen clients: a     *)
(* binary heap ordered by the time a client was last seen (byAge), an      *)
(* index into it (byAddr), and a goroutine that expires old records.  The  *)
(* lock is held from a step that leaves pc = "free" to the one that        *)
(* returns to it; in between every exchange of two records is a step, so   *)
(* that clocks and waiting callers move while the heap is in disorder.     *)
(* Heap positions start at 1, so the parent of i is i \div 2.              *)
(***************************************************************************)
EXTENDS Naturals, Sequences

CONSTANTS
  Addr,       \* client addresses
  Timeout,    \* the idle time after which a client is forgotten
  MaxTime,    \* bound on the clock
  MaxQueues   \* bound on the queues made

VARIABLES
  byAge,   \* the heap, a sequence of records
  byAddr,  \* the position of each client in it; 0 if it has no record
  clock,   \* time.Now()
  made,    \* queues made so far
  pc,      \* what the holder of the lock does; "free" if nobody holds it
  at,      \* the position up or down works on
  reaper,  \* the expiry goroutine: "sleep", "lock" or "run"
  now      \* the time it read before it locked

vars == <<byAge, byAddr, clock, made, pc, at, reaper, now>>

clientRecord == [Addr : Addr, LastSeen : 0 .. MaxTime, SendQueue : 1 .. MaxQueues]

TypeOK ==
  /\ byAge \in Seq(clientRecord)
  /\ byAddr \in [Addr -> Nat]
  /\ clock \in 0 .. MaxTime /\ made \in 0 .. MaxQueues
  /\ pc \in {"free", "fix", "down", "up", "reap", "pop", "remove"}
  /\ at \in Nat
  /\ reaper \in {"sleep", "lock", "run"} /\ now \in 0 .. MaxTime

(* NewClientMap.                                                           *)
Init ==
  /\ byAge = <<>> /\ byAddr = [a \in Addr |-> 0]
  /\ clock = 0 /\ made = 0 /\ pc = "free" /\ at = 0
  /\ reaper = "sleep" /\ now = 0

Tick ==
  /\ clock < MaxTime
  /\ clock' = clock + 1
  /\ UNCHANGED <<byAge, byAddr, made, pc, at, reaper, now>>

Less(i, j) == byAge[i].LastSeen < byAge[j].LastSeen

(* Variant: only one of the two index entries is updated.                  *)
Swap_OneIndex(i, j) ==
  /\ byAge' = [byAge EXCEPT ![i] = byAge[j], ![j] = byAge[i]]
  /\ byAddr' = [byAddr EXCEPT ![byAge[j].Addr] = i]

Swap(i, j) ==
  /\ byAge' = [byAge EXCEPT ![i] = byAge[j], ![j] = byAge[i]]
  /\ byAddr' = [byAddr EXCEPT ![byAge[j].Addr] = i, ![byAge[i].Addr] = j]

-----------------------------------------------------------------------------
(* container/heap.                                                         *)

(* The records that down may move: during a Pop not the last one.          *)
size == IF pc \in {"pop", "remove"} THEN Len(byAge) - 1 ELSE Len(byAge)

(* The child of position at that was seen earlier.                         *)
child ==
  IF 2 * at + 1 <= size /\ Less(2 * at + 1, 2 * at) THEN 2 * at + 1 ELSE 2 * at

sinks == 2 * at <= size /\ Less(child, at)

(* One turn of the loop in down, of a Fix (until it has moved the record,  *)
(* then as "down") or of a Pop.                                            *)
down ==
  /\ pc \in {"fix", "down", "pop"}
  /\ sinks
  /\ Swap(at, child)
  /\ at' = child
  /\ pc' = IF pc = "fix" THEN "down" ELSE pc
  /\ UNCHANGED <<clock, made, reaper, now>>

(* down is over: Fix calls up if the record has not moved, Pop calls       *)
(* inner.Pop.                                                              *)
downEnd ==
  /\ pc \in {"fix", "down", "pop"}
  /\ ~sinks
  /\ pc' = CASE pc = "fix" -> "up" [] pc = "down" -> "free" [] pc = "pop" -> "remove"
  /\ UNCHANGED <<byAge, byAddr, clock, made, at, reaper, now>>

rises == at > 1 /\ Less(at, at \div 2)

(* One turn of the loop in up.                                             *)
up ==
  /\ pc = "up"
  /\ IF rises
       THEN Swap(at \div 2, at) /\ at' = at \div 2 /\ UNCHANGED pc
       ELSE pc' = "free" /\ UNCHANGED <<byAge, byAddr, at>>
  /\ UNCHANGED <<clock, made, reaper, now>>

-----------------------------------------------------------------------------
(* Variant: the client gets a new queue.                                   *)
SendQueueFound_Replace(a) ==
  /\ pc = "free"
  /\ byAddr[a] # 0 /\ made < MaxQueues
  /\ byAge' = [byAge EXCEPT ![byAddr[a]] =
                 [@ EXCEPT !.LastSeen = clock, !.SendQueue = made + 1]]
  /\ made' = made + 1
  /\ at' = byAddr[a]
  /\ pc' = "fix"
  /\ UNCHANGED <<byAddr, clock, reaper, now>>

(* SendQueue(a) locks and finds the client: LastSeen is set and heap.Fix   *)
(* starts.                                                                 *)
SendQueueFound(a) ==
  /\ pc = "free"
  /\ byAddr[a] # 0
  /\ byAge' = [byAge EXCEPT ![byAddr[a]] = [@ EXCEPT !.LastSeen = clock]]
  /\ at' = byAddr[a]
  /\ pc' = "fix"
  /\ UNCHANGED <<byAddr, clock, made, reaper, now>>

(* Variant: the record is pushed without a queue.                          *)
newRecord_NoQueue(a) == [Addr |-> a, LastSeen |-> clock, SendQueue |-> 0]

newRecord(a) == [Addr |-> a, LastSeen |-> clock, SendQueue |-> made + 1]

(* ... or not: a new record with a new queue is pushed at the end.         *)
SendQueueNew(a) ==
  /\ pc = "free"
  /\ byAddr[a] = 0
  /\ made < MaxQueues
  /\ made' = made + 1
  /\ byAddr' = [byAddr EXCEPT ![a] = Len(byAge) + 1]
  /\ byAge' = Append(byAge, newRecord(a))
  /\ at' = Len(byAge) + 1
  /\ pc' = "up"
  /\ UNCHANGED <<clock, reaper, now>>

(* The expiry goroutine wakes up and reads the time, then locks.           *)
Wake ==
  /\ reaper = "sleep"
  /\ now' = clock
  /\ reaper' = "lock"
  /\ UNCHANGED <<byAge, byAddr, clock, made, pc, at>>

Lock ==
  /\ reaper = "lock"
  /\ pc = "free"
  /\ pc' = "reap"
  /\ reaper' = "run"
  /\ UNCHANGED <<byAge, byAddr, clock, made, at, now>>

(* Variant: the comparison is the wrong way round.                         *)
expired_Less == byAge # <<>> /\ byAge[1].LastSeen + Timeout > now

expired == byAge # <<>> /\ byAge[1].LastSeen + Timeout <= now

(* removeExpired: heap.Pop moves the oldest record to the end ...          *)
removeExpired ==
  /\ pc = "reap"
  /\ expired
  /\ Swap(1, Len(byAge))
  /\ at' = 1
  /\ pc' = "pop"
  /\ UNCHANGED <<clock, made, reaper, now>>

(* ... and, when down is over, inner.Pop drops it and its index entry.     *)
Pop ==
  /\ pc = "remove"
  /\ byAddr' = [byAddr EXCEPT ![byAge[Len(byAge)].Addr] = 0]
  /\ byAge' = SubSeq(byAge, 1, Len(byAge) - 1)
  /\ pc' = "reap"
  /\ UNCHANGED <<clock, made, at, reaper, now>>

(* Variant: the goroutine does its work once.                              *)
Unlock_Once ==
  /\ pc = "reap"
  /\ ~expired
  /\ pc' = "free"
  /\ reaper' = "done"
  /\ UNCHANGED <<byAge, byAddr, clock, made, at, now>>

Unlock ==
  /\ pc = "reap"
  /\ ~expired
  /\ pc' = "free"
  /\ reaper' = "sleep"
  /\ UNCHANGED <<byAge, byAddr, clock, made, at, now>>

Next ==
  \/ Tick \/ down \/ downEnd \/ up
  \/ \E a \in Addr : SendQueueFound(a) \/ SendQueueNew(a)
  \/ Wake \/ Lock \/ removeExpired \/ Pop \/ Unlock

Spec == Init /\ [][Next]_vars

(* The holder of the lock runs, and the expiry goroutine wakes up and gets *)
(* the lock in the end: a Go mutex is handed to a waiter that starves.     *)
(* Nobody has to call SendQueue.                                           *)
Fairness ==
  /\ WF_vars(down \/ downEnd \/ up \/ removeExpired \/ Pop \/ Unlock)
  /\ WF_vars(Wake) /\ SF_vars(Lock)

FairSpec == Spec /\ Fairness

-----------------------------------------------------------------------------
(* Properties.                                                             *)

(* byAddr is the inverse of byAge in every state, also while records are   *)
(* moved, so that Len and Push never panic; and whoever gets the lock      *)
(* finds a heap.                                                           *)
IndexedHeap ==
  /\ \A i \in 1 .. Len(byAge) : byAddr[byAge[i].Addr] = i
  /\ \A a \in Addr : byAddr[a] # 0 =>
       byAddr[a] \in 1 .. Len(byAge) /\ byAge[byAddr[a]].Addr = a
  /\ pc = "free" => \A i \in 2 .. Len(byAge) : ~Less(i, i \div 2)

(* A client is forgotten only after it has been idle for the timeout,      *)
(* however old the expiry goroutine's idea of the time is; and when        *)
(* removeExpired returns no client is left that was idle for the timeout   *)
(* when the goroutine woke up, although it looks at the root only.         *)
ForgetsTheIdle ==
  [][/\ \A a \in Addr : byAddr[a] # 0 /\ byAddr'[a] = 0 =>
          byAge[byAddr[a]].LastSeen + Timeout <= clock
     /\ Unlock => \A i \in DOMAIN byAge : byAge[i].LastSeen + Timeout > now]_vars

(* Callers see one queue per client until it expires: the map implements   *)
(* the abstract table.                                                     *)
Table == INSTANCE SendQueues WITH
  queue <- [a \in Addr |-> IF byAddr[a] = 0 THEN 0 ELSE byAge[byAddr[a]].SendQueue]
ImplementsSendQueues == Table!Spec

(* A client that stays idle is forgotten.                                  *)
IdleIsForgotten ==
  \A a \in Addr, t \in 0 .. MaxTime :
    /\ byAddr[a] # 0 /\ byAge[byAddr[a]].LastSeen = t /\ t + Timeout <= clock
    ~> byAddr[a] = 0 \/ byAge[byAddr[a]].LastSeen # t
=============================================================================
