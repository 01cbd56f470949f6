----------------------------- MODULE MCProgram ------------------------------
(***************************************************************************)
(* The life of the process, for TLC: the identities of its config file,    *)
(* the launch of its entries, and its end.  part says which of them a      *)
(* behaviour is about; the state of the others stays what it is initially. *)
(***************************************************************************)
EXTENDS Certificates, Sequences, TLC

CONSTANTS
  NoPort, p1, p2, p3, p4, p5, MaxOthers,
  Handler, NumListeners, MaxSignals

VARIABLES
  part,
  config, lpc, lat, step, drawn, internal, holder, spawned, result, silent,
  tpc, why, blocked, numHandlers, next, open, parent, watch, handler, signals
launchVars ==
  <<config, lpc, lat, step, drawn, internal, holder, spawned, result, silent>>
termVars ==
  <<tpc, why, blocked, numHandlers, next, open, parent, watch, handler, signals>>

-----------------------------------------------------------------------------
(* Configs: every pair of kinds of entries, servers first, on addresses    *)
(* that clash or not, with ports left for the random draws.  obfs entries  *)
(* have one listen address, snowflake entries at least the first one       *)
(* (servers both, by default).                                             *)
ServerKind == {"obfsServer", "dpiServer", "snowServer"}
ClientKind == {"obfsClient", "dpiClient", "snowClient"}
PortPairs == {<<p1, p2>>, <<p2, NoPort>>, <<NoPort, p2>>, <<NoPort, NoPort>>}

Sensible(c) ==
  /\ c.kind \in {"obfsServer", "obfsClient", "snowServer", "snowClient"} => c.a # NoPort
  /\ c.kind = "snowServer" => c.b # NoPort
  /\ c.kind \in {"obfsServer", "obfsClient"} => c.b = NoPort
  /\ c.kind \notin {"obfsServer", "obfsClient"} => ~c.external
  /\ c.kind # "dpiServer" => c.tls = "none"

Entries ==
  {c \in {[kind |-> k, a |-> pp[1], b |-> pp[2], external |-> x, tls |-> t] :
           k \in ServerKind \cup ClientKind, pp \in PortPairs, x \in BOOLEAN,
           t \in {"none", "part", "full"}} : Sensible(c)}

AllConfigs ==
  {<<c, d>> : c, d \in Entries} \ {<<c, d>> : c \in {e \in Entries : e.kind \in ClientKind},
                                              d \in {e \in Entries : e.kind \in ServerKind}}

L == INSTANCE Launcher WITH
  Port <- {p1, p2, p3, p4, p5}, Configs <- AllConfigs, pc <- lpc, at <- lat
Term == INSTANCE TermMonitor WITH pc <- tpc

-----------------------------------------------------------------------------
MCInit ==
  /\ part \in {"certificates", "launch", "term"}
  /\ Init /\ L!Init /\ Term!Init
  /\ part # "certificates" => cert[1] = None /\ key[1] = None
  /\ part # "launch" => config = CHOOSE c \in AllConfigs : TRUE

MCNext ==
  \/ part = "certificates" /\ Next /\ UNCHANGED <<part, launchVars, termVars>>
  \/ part = "launch" /\ L!Next /\ UNCHANGED <<part, vars, termVars>>
  \/ part = "term" /\ Term!Next /\ UNCHANGED <<part, vars, launchVars>>

(* The fairness of TermMonitor.                                            *)
MCFairness ==
  /\ WF_termVars(part = "term" /\ Term!Main) /\ SF_termVars(part = "term" /\ Term!Watcher)
  /\ \A h \in Handler :
       /\ SF_termVars(part = "term" /\ Term!OnHandlerStart(h))
       /\ SF_termVars(part = "term" /\ Term!OnHandlerFinish(h))

MCSpec == MCInit /\ [][MCNext]_<<part, vars, launchVars, termVars>> /\ MCFairness

-----------------------------------------------------------------------------
(* The properties of the three components.                                 *)

(* The state of all three has its type.                                    *)
TypesOK == TypeOK /\ L!TypeOK /\ Term!TypeOK

(* An entry that was reported as started listens, or is about to, unless   *)
(* its failure is one nobody hears of; an entry that failed keeps a        *)
(* listener only where a later step failed.                                *)
ReportsMatchListeners == L!ReportsMatchListeners

(* By the count of handlers the process ends only when it is idle, and it  *)
(* ends with its parent where termOnPPIDChange looks after it.             *)
ExitsRightly == Term!ExitsRightly
=============================================================================
