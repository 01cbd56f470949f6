---------------------------- MODULE DnsResolver -----------------------------
(***************************************************************************)
(* The tunneled DNS resolver of the dpi client: goroutines that call       *)
(* Resolve, share the cache and its lock, and exchange a query with the    *)
(* upstream through a tunneled connection, with a reader goroutine, a      *)
(* timeout and a context.  Time is relative: each cache entry and each     *)
(* wait carries what is left of it.  The tunneled connection itself is in  *)
(* DpiSessions and TunnelConn.                                             *)
(***************************************************************************)
EXTENDS Integers, FiniteSets, SequencesExt

CONSTANTS
  Resolver,   \* goroutines that call Resolve
  Name,       \* cache keys
  None,
  Replies,    \* the answer sections: sequences of records [a, ttl]
  Deadline,   \* what contexts may have left, None for no deadline
  Fallback,   \* 60 seconds
  Cap,        \* 5 minutes
  Default     \* the 10 seconds of newTunneledResolver

VARIABLES
  cache,     \* per name None or [for, left, age, min]: the name the answer
             \* is for, the time to expires, the time since it was stored,
             \* and the least TTL of the reply it comes from
  timeout,   \* r.timeout
  pc,        \* "idle", "lookup", "check", "delete", "exchange", "wait", "store"
  name, entry, reply,  \* locals
  context,   \* what is left of the context, or None
  wait,      \* what is left of time.After
  ch,        \* the reader's channel: "empty", "reply", "error"
  hit        \* history: the entry the last Resolve returned from the cache
vars == <<cache, timeout, pc, name, entry, reply, context, wait, ch, hit>>

minTTL(m) == CHOOSE t \in {m[i].ttl : i \in 1 .. Len(m)} : \A i \in 1 .. Len(m) : t <= m[i].ttl

EntryType ==
  [for : Name, left : -1 .. Cap, age : 0 .. Cap + 1,
   min : {m[i].ttl : <<m, i>> \in {<<n, j>> \in Replies \X (1 .. 3) : j <= Len(n)}}]

TypeOK ==
  /\ cache \in [Name -> EntryType \cup {None}]
  /\ timeout \in 1 .. Default
  /\ pc \in [Resolver -> {"idle", "lookup", "check", "delete", "exchange", "wait", "store"}]
  /\ name \in [Resolver -> Name]
  /\ entry \in [Resolver -> EntryType \cup {None}]
  /\ reply \in [Resolver -> Replies \cup {<<>>}]
  /\ context \in [Resolver -> {None} \cup 0 .. Default]
  /\ wait \in [Resolver -> 0 .. Default]
  /\ ch \in [Resolver -> {"empty", "reply", "error"}]
  /\ hit \in [Resolver -> EntryType \cup {None}]

Init ==
  /\ cache = [n \in Name |-> None] /\ timeout = Default
  /\ pc = [r \in Resolver |-> "idle"]
  /\ name \in [Resolver -> {CHOOSE n \in Name : TRUE}]
  /\ entry = [r \in Resolver |-> None] /\ reply = [r \in Resolver |-> <<>>]
  /\ context = [r \in Resolver |-> None] /\ wait = [r \in Resolver |-> 0]
  /\ ch = [r \in Resolver |-> "empty"] /\ hit = [r \in Resolver |-> None]

go(r, from, to) == pc[r] = from /\ pc' = [pc EXCEPT ![r] = to]

-----------------------------------------------------------------------------
(* Resolve and cacheLookup.                                                *)
Resolve(r) ==
  /\ go(r, "idle", "lookup")
  /\ \E n \in Name : name' = [name EXCEPT ![r] = n]
  /\ \E d \in Deadline : context' = [context EXCEPT ![r] = d]
  /\ hit' = [hit EXCEPT ![r] = None]
  /\ UNCHANGED <<cache, timeout, entry, reply, wait, ch>>

Lookup(r) ==
  /\ go(r, "lookup", "check")
  /\ entry' = [entry EXCEPT ![r] = cache[name[r]]]
  /\ UNCHANGED <<cache, timeout, name, reply, context, wait, ch, hit>>

Miss(r) ==
  /\ entry[r] = None /\ go(r, "check", "exchange")
  /\ UNCHANGED <<cache, timeout, name, entry, reply, context, wait, ch, hit>>

expired(e) == e.left < 0

Hit(r) ==
  /\ entry[r] # None /\ ~expired(entry[r]) /\ go(r, "check", "idle")
  /\ hit' = [hit EXCEPT ![r] = entry[r]]
  /\ entry' = [entry EXCEPT ![r] = None]
  /\ UNCHANGED <<cache, timeout, name, reply, context, wait, ch>>

Expired(r) ==
  /\ entry[r] # None /\ expired(entry[r]) /\ go(r, "check", "delete")
  /\ UNCHANGED <<cache, timeout, name, entry, reply, context, wait, ch, hit>>

(* Under the lock, but what was read without it may have been renewed.     *)
deleted(n) == [cache EXCEPT ![n] = None]

Delete(r) ==
  /\ go(r, "delete", "exchange")
  /\ cache' = deleted(name[r])
  /\ entry' = [entry EXCEPT ![r] = None]
  /\ UNCHANGED <<timeout, name, reply, context, wait, ch, hit>>

-----------------------------------------------------------------------------
(* exchange: a context that ends sooner shortens the shared timeout, for   *)
(* this query and for all later ones.  Then Connect, newTunnelConn and the *)
(* write of the query, any of which may fail.                              *)
shorter(d) == d # None /\ d > 0 /\ d < timeout

shortened(r) == IF shorter(context[r]) THEN context[r] ELSE timeout

Query(r) ==
  /\ go(r, "exchange", "wait")
  /\ timeout' = shortened(r)
  /\ wait' = [wait EXCEPT ![r] = timeout']
  /\ ch' = [ch EXCEPT ![r] = "empty"]
  /\ UNCHANGED <<cache, name, entry, reply, context, hit>>

QueryFails(r) ==
  /\ go(r, "exchange", "idle")
  /\ timeout' = shortened(r)
  /\ UNCHANGED <<cache, name, entry, reply, context, wait, ch, hit>>

(* The reader goroutine of exchangeTCP and exchangeUDP.                    *)
Answer(r) ==
  /\ pc[r] = "wait" /\ ch[r] = "empty"
  /\ \E m \in Replies : reply' = [reply EXCEPT ![r] = m]
  /\ ch' = [ch EXCEPT ![r] = "reply"]
  /\ UNCHANGED <<cache, timeout, pc, name, entry, context, wait, hit>>

AnswerFails(r) ==
  /\ pc[r] = "wait" /\ ch[r] = "empty"
  /\ ch' = [ch EXCEPT ![r] = "error"]
  /\ UNCHANGED <<cache, timeout, pc, name, entry, reply, context, wait, hit>>

hasA(m) == \E i \in 1 .. Len(m) : m[i].a

(* The select: the reply, the context or the timeout.                      *)
Receive(r) ==
  /\ ch[r] # "empty"
  /\ go(r, "wait", IF ch[r] = "reply" /\ hasA(reply[r]) THEN "store" ELSE "idle")
  /\ ch' = [ch EXCEPT ![r] = "empty"]
  /\ UNCHANGED <<cache, timeout, name, entry, reply, context, wait, hit>>

giveUp(r) ==
  /\ go(r, "wait", "idle")
  /\ ch' = [ch EXCEPT ![r] = "empty"]
  /\ UNCHANGED <<cache, timeout, name, entry, reply, context, wait, hit>>

ContextDone(r) == context[r] = 0 /\ giveUp(r)

(* Variant: a context without deadline waits for the reply.                *)
timesOut_Context(r) == wait[r] = 0 /\ context[r] # None
timesOut(r) == wait[r] = 0

Timeout(r) == timesOut(r) /\ giveUp(r)

-----------------------------------------------------------------------------
(* minTTLSeconds: a TTL of 0 starts the minimum anew; 60 s if it is 0.     *)
(* Variant: the TTL of the last record.                                    *)
minTTLSeconds_Last(m) ==
  LET t == FoldLeft(LAMBDA ttl, rec : rec.ttl, 0, m)
  IN  IF t = 0 THEN Fallback ELSE t

minTTLSeconds(m) ==
  LET t == FoldLeft(LAMBDA ttl, rec : IF ttl = 0 \/ rec.ttl < ttl THEN rec.ttl ELSE ttl, 0, m)
  IN  IF t = 0 THEN Fallback ELSE t

(* cacheStore, for the first A record.                                     *)
Store(r) ==
  /\ go(r, "store", "idle")
  /\ LET ttl == minTTLSeconds(reply[r])
     IN  cache' = [cache EXCEPT ![name[r]] =
                     [for |-> name[r], left |-> IF ttl > Cap THEN Cap ELSE ttl,
                      age |-> 0, min |-> minTTL(reply[r])]]
  /\ reply' = [reply EXCEPT ![r] = <<>>]
  /\ UNCHANGED <<timeout, name, entry, context, wait, ch, hit>>

(* Time passes.                                                            *)
older(e) ==
  IF e = None THEN None
  ELSE [e EXCEPT !.left = IF @ < 0 THEN @ ELSE @ - 1, !.age = IF @ > Cap THEN @ ELSE @ + 1]
less(d) == IF d \in {None, 0} THEN d ELSE d - 1

Tick ==
  /\ cache' = [n \in Name |-> older(cache[n])]
  /\ entry' = [r \in Resolver |-> older(entry[r])]
  /\ context' = [r \in Resolver |-> less(context[r])]
  /\ wait' = [r \in Resolver |-> IF wait[r] = 0 THEN 0 ELSE wait[r] - 1]
  /\ hit' = [r \in Resolver |-> None]
  /\ UNCHANGED <<timeout, pc, name, reply, ch>>

Step(r) ==
  \/ Lookup(r) \/ Miss(r) \/ Hit(r) \/ Expired(r) \/ Delete(r)
  \/ Query(r) \/ QueryFails(r) \/ Receive(r) \/ ContextDone(r) \/ Timeout(r) \/ Store(r)

Next == Tick \/ \E r \in Resolver : Resolve(r) \/ Step(r) \/ Answer(r) \/ AnswerFails(r)

Spec == Init /\ [][Next]_vars

(* Time passes and goroutines run; the upstream may never answer.          *)
FairSpec == Spec /\ WF_vars(Tick) /\ \A r \in Resolver : WF_vars(Step(r))

-----------------------------------------------------------------------------
(* Properties.                                                             *)

(* What Resolve returned from the cache is an answer for the name it was   *)
(* asked for, no older than 5 minutes, and no older than the least TTL of  *)
(* the reply, if none of its TTLs is 0.  (With a TTL of 0 cacheStore keeps *)
(* it for 60 seconds, or for the least of the TTLs after the last 0.)      *)
HitIsFresh ==
  \A r \in Resolver : hit[r] # None =>
    /\ hit[r].for = name[r]
    /\ hit[r].age <= Cap
    /\ hit[r].min # 0 => hit[r].age <= hit[r].min

(* The cache serves no answer beyond its time and drops none before it: an *)
(* entry disappears only once expired, or if it was renewed between the    *)
(* check of cacheLookup and its delete.                                    *)
CacheHonoursTTL ==
  [][/\ HitIsFresh'
     /\ \A n \in Name : cache[n] # None /\ cache'[n] = None =>
          \/ expired(cache[n])
          \/ \E r \in Resolver : pc[r] = "delete" /\ name[r] = n /\ entry[r] # cache[n]]_vars

(* Resolve returns, with or without a reply.                               *)
ResolveReturns == \A r \in Resolver : pc[r] # "idle" ~> pc[r] = "idle"
=============================================================================
