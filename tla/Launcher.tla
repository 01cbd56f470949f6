------------------------------ MODULE Launcher ------------------------------
(***************************************************************************)
(* The start of the program: main launches the entries of the config one   *)
(* after the other.  Each kind of entry probes ports, listens, and leaves  *)
(* some of its listening to a goroutine; what a failure does differs: it   *)
(* ends the process, fails the entry, is only logged, or is not looked at. *)
(* Other processes take ports meanwhile.                                   *)
(***************************************************************************)
EXTENDS Naturals, Sequences, FiniteSets

CONSTANTS
  Port,       \* TCP addresses
  NoPort,     \* an address that is not configured
  Configs,    \* the configs to launch: sequences of entries
  MaxOthers   \* bound on the ports other processes take

ServerKind == {"obfsServer", "dpiServer", "snowServer"}
ClientKind == {"obfsClient", "dpiClient", "snowClient"}

(* An entry: its addresses (dpi server: http and https; snowflake server:  *)
(* WebSocket and SOCKS; dpi client: SOCKS and HTTP; snowflake client:      *)
(* SOCKS and forward), the external flag, and the TLS options of the dpi   *)
(* server ("part": an ACME e-mail without domain, or a cert without key).  *)
EntryType ==
  [kind : ServerKind \cup ClientKind, a : Port \cup {NoPort}, b : Port \cup {NoPort},
   external : BOOLEAN, tls : {"none", "part", "full"}]

VARIABLES
  config,
  pc,        \* main: "launch", "run" or "exited"
  at,        \* the entry being launched
  step,      \* the steps of its plan that are done
  drawn,     \* the random port just probed
  internal,  \* internalSocksAddress, or NoPort
  holder,    \* who listens on each port
  spawned,   \* goroutines about to listen: [port, who, fail]
  result,    \* of each entry: "none", "started" or "failed"
  silent     \* history: entries with a failure nobody was told of
vars == <<config, pc, at, step, drawn, internal, holder, spawned, result, silent>>

N == Len(config)
Free == 0
Other == N + 1
Internal == N + 2

TypeOK ==
  /\ config \in Configs /\ pc \in {"launch", "run", "exited"}
  /\ at \in 1 .. N + 1 /\ step \in 0 .. 5
  /\ drawn \in Port \cup {NoPort} /\ internal \in Port \cup {NoPort}
  /\ holder \in [Port -> 0 .. N + 2]
  /\ spawned \subseteq [port : Port, who : 1 .. N + 2, fail : {"fatal", "log"}]
  /\ result \in [1 .. N -> {"none", "started", "failed"}]
  /\ silent \subseteq 1 .. N

Init ==
  /\ config \in Configs /\ pc = "launch" /\ at = 1 /\ step = 0
  /\ drawn = NoPort /\ internal = NoPort
  /\ holder = [p \in Port |-> Free] /\ spawned = {}
  /\ result = [e \in 1 .. N |-> "none"] /\ silent = {}

-----------------------------------------------------------------------------
(* The plan of an entry.  "check" may fail, "fail" does; fail says what a  *)
(* failure does.                                                           *)
op(o, p, f) == [op |-> o, port |-> p, fail |-> f]
check(f) == <<op("check", NoPort, f)>>
listen(p, f) == IF p = NoPort THEN <<>> ELSE <<op("listen", p, f)>>
spawn(p, f) == IF p = NoPort THEN <<>> ELSE <<op("spawn", p, f)>>
probe(p) == <<op("probe", p, "fatal")>>

obfsServer(c) ==
  (IF c.external THEN <<>> ELSE <<op("internal", NoPort, "fatal")>>)
    \o probe(c.a) \o check("fatal") \o listen(c.a, "ignore")

obfsClient(c) ==
  check("fatal") \o probe(c.a)
    \o (IF c.external THEN <<>> ELSE <<op("draw", NoPort, "fatal"), op("listenDrawn", NoPort, "fatal")>>)
    \o listen(c.a, "fatal")

(* launchDpiServer looks for a part of a TLS configuration, and only       *)
(* buildTLSConfig, once the HTTP listener is up, for all of it.            *)
buildTLSConfig(c) == IF c.tls = "full" THEN check("return") ELSE <<op("fail", NoPort, "return")>>

dpiServer(c) ==
  IF (c.a = NoPort /\ c.b = NoPort) \/ (c.b # NoPort /\ c.tls = "none")
  THEN <<op("fail", NoPort, "return")>>
  ELSE check("return") \o listen(c.a, "return")
         \o (IF c.b = NoPort THEN <<>> ELSE buildTLSConfig(c) \o listen(c.b, "return"))

(* The SOCKS address has a default if there is no HTTP proxy either.       *)
dpiDefaultSocksAddr == CHOOSE p \in Port : TRUE

dpiClient(c) ==
  check("return")
    \o spawn(IF c.a = NoPort /\ c.b = NoPort THEN dpiDefaultSocksAddr ELSE c.a, "fatal")
    \o listen(c.b, "return")

snowServer(c) == check("return") \o listen(c.b, "return") \o spawn(c.a, "log")
snowClient(c) == check("return") \o listen(c.a, "return") \o listen(c.b, "return")

plan(c) ==
  CASE c.kind = "obfsServer" -> obfsServer(c) [] c.kind = "obfsClient" -> obfsClient(c)
    [] c.kind = "dpiServer" -> dpiServer(c)   [] c.kind = "dpiClient" -> dpiClient(c)
    [] c.kind = "snowServer" -> snowServer(c) [] c.kind = "snowClient" -> snowClient(c)

launching == pc = "launch" /\ at <= N
cur == plan(config[at])[step + 1]
doing(o) == launching /\ step < Len(plan(config[at])) /\ cur.op = o

-----------------------------------------------------------------------------
done == step' = step + 1 /\ UNCHANGED <<config, pc, at, result>>

(* Fatal: the process ends, and with it all it holds.                      *)
fatal ==
  /\ pc' = "exited"
  /\ holder' = [p \in Port |-> IF holder[p] = Other THEN Other ELSE Free]
  /\ spawned' = {}
  /\ UNCHANGED <<config, at, step, drawn, internal, result, silent>>

(* Variant: the entry after a failed one is skipped.                       *)
nextEntry_Skip == at + 2
nextEntry == at + 1

(* The launch function returns false, and main goes on: what it listens on *)
(* and has spawned stays.                                                  *)
return ==
  /\ result' = [result EXCEPT ![at] = "failed"]
  /\ at' = nextEntry /\ step' = 0
  /\ UNCHANGED <<config, pc, drawn, internal, holder, spawned, silent>>

(* ListenTCP's error is not looked at: the entry counts as launched.       *)
ignore ==
  /\ step' = step + 1 /\ silent' = silent \cup {at}
  /\ UNCHANGED <<config, pc, at, drawn, internal, holder, spawned, result>>

(* Variant: a listener that fails is not looked at anywhere.               *)
fails_Ignored(f) ==
  CASE f = "fatal" -> fatal [] f \in {"return", "ignore"} -> ignore

fails(f) == CASE f = "fatal" -> fatal [] f = "return" -> return [] f = "ignore" -> ignore

Check == doing("check") /\ done /\ UNCHANGED <<drawn, internal, holder, spawned, silent>>
Fail == (doing("check") \/ doing("fail")) /\ fails(cur.fail)

(* IsTcpOpen.                                                              *)
isOpen(p) == holder[p] # Free

Probe ==
  /\ doing("probe") /\ ~isOpen(cur.port) /\ done
  /\ UNCHANGED <<drawn, internal, holder, spawned, silent>>

ProbeOpen == doing("probe") /\ isOpen(cur.port) /\ fatal

target == IF cur.op = "listen" THEN cur.port ELSE drawn

Listen ==
  /\ doing("listen") \/ doing("listenDrawn")
  /\ holder[target] = Free
  /\ holder' = [holder EXCEPT ![target] = at]
  /\ done /\ UNCHANGED <<drawn, internal, spawned, silent>>

ListenFails ==
  /\ doing("listen") \/ doing("listenDrawn")
  /\ holder[target] # Free
  /\ fails(cur.fail)

Draw(p) ==
  /\ doing("draw") /\ ~isOpen(p) /\ drawn' = p /\ done
  /\ UNCHANGED <<internal, holder, spawned, silent>>

(* runInternalSocks, once for all entries.                                 *)
RunInternalSocks(p) ==
  /\ doing("internal") /\ internal = NoPort /\ ~isOpen(p)
  /\ internal' = p
  /\ spawned' = spawned \cup {[port |-> p, who |-> Internal, fail |-> "fatal"]}
  /\ done /\ UNCHANGED <<drawn, holder, silent>>

UseInternalSocks ==
  /\ doing("internal") /\ internal # NoPort
  /\ done /\ UNCHANGED <<drawn, internal, holder, spawned, silent>>

Spawn ==
  /\ doing("spawn")
  /\ spawned' = spawned \cup {[port |-> cur.port, who |-> at, fail |-> cur.fail]}
  /\ done /\ UNCHANGED <<drawn, internal, holder, silent>>

Started ==
  /\ launching /\ step = Len(plan(config[at]))
  /\ result' = [result EXCEPT ![at] = "started"]
  /\ at' = at + 1 /\ step' = 0
  /\ UNCHANGED <<config, pc, drawn, internal, holder, spawned, silent>>

(* LaunchTermMonitorForListeners follows: module TermMonitor.              *)
Monitor ==
  /\ pc = "launch" /\ at > N /\ pc' = "run"
  /\ UNCHANGED <<config, at, step, drawn, internal, holder, spawned, result, silent>>

(* The goroutines.                                                         *)
SpawnedListens(s) ==
  /\ pc # "exited" /\ s \in spawned /\ holder[s.port] = Free
  /\ holder' = [holder EXCEPT ![s.port] = s.who]
  /\ spawned' = spawned \ {s}
  /\ UNCHANGED <<config, pc, at, step, drawn, internal, result, silent>>

logged(s) ==
  /\ spawned' = spawned \ {s} /\ silent' = silent \cup {s.who}
  /\ UNCHANGED <<config, pc, at, step, drawn, internal, holder, result>>

spawnedFails(s) == IF s.fail = "fatal" THEN fatal ELSE logged(s)

SpawnedFails(s) ==
  /\ pc # "exited" /\ s \in spawned /\ holder[s.port] # Free /\ spawnedFails(s)

OtherListens(p) ==
  /\ pc # "exited" /\ holder[p] = Free
  /\ Cardinality({q \in Port : holder[q] = Other}) < MaxOthers
  /\ holder' = [holder EXCEPT ![p] = Other]
  /\ UNCHANGED <<config, pc, at, step, drawn, internal, spawned, result, silent>>

Main ==
  \/ Check \/ Fail \/ Probe \/ ProbeOpen \/ Listen \/ ListenFails \/ UseInternalSocks
  \/ Spawn \/ Started \/ Monitor
  \/ \E p \in Port : Draw(p) \/ RunInternalSocks(p)
Spawned == \E s \in spawned : SpawnedListens(s) \/ SpawnedFails(s)

Next == Main \/ Spawned \/ \E p \in Port : OtherListens(p)

Spec == Init /\ [][Next]_vars

-----------------------------------------------------------------------------
(* Properties.                                                             *)

ports(e) == {plan(config[e])[k].port : k \in
              {j \in 1 .. Len(plan(config[e])) : plan(config[e])[j].op \in {"listen", "spawn"}}}

(* An entry that was reported as started listens on all its addresses, or  *)
(* a goroutine is about to, unless it is one of the two kinds whose failed *)
(* listener nobody hears of: the obfs server (ListenTCP's error) and the   *)
(* WebSocket listener of the snowflake server.  In particular              *)
(* launchDpiServer "returns true once the listeners are up".  An entry     *)
(* that failed keeps a listener only where a later step of the same entry  *)
(* failed: the HTTP listener of the dpi server, the SOCKS listener of the  *)
(* dpi and of the snowflake client.                                        *)
ReportsMatchListeners ==
  \A e \in 1 .. N :
    /\ pc # "exited" /\ result[e] = "started" =>
         \A p \in ports(e) :
           \/ holder[p] = e
           \/ config[e].kind \in {"dpiClient", "snowServer"} /\ \E s \in spawned : s.who = e /\ s.port = p
           \/ config[e].kind \in {"obfsServer", "snowServer"} /\ e \in silent
    /\ result[e] = "failed" =>
         \A p \in Port : holder[p] = e =>
           /\ config[e].kind \in {"dpiServer", "dpiClient", "snowClient"}
           /\ config[e].b # NoPort
=============================================================================
