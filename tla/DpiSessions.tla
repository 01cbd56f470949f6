---------------------------- MODULE DpiSessions -----------------------------
(***************************************************************************)
(* The connections of one dpi client from Connect to CloseConn, as its     *)
(* three callers run them (the HTTP proxy, the SOCKS dialer and the DNS    *)
(* resolver), sharing one Transport whose baseURL a redirected Connect     *)
(* overwrites without a lock.  Behind each base URL is a server, reduced   *)
(* to the set of connections it holds; the bytes are in TunnelConn and the *)
(* server's steps in DpiServer.                                            *)
(***************************************************************************)
EXTENDS Naturals, FiniteSets

CONSTANTS
  Session,       \* sessions of the callers
  Base,          \* base URLs that reach a server
  None,
  MaxRedirects,  \* bound on the redirects servers answer
  MaxSends       \* bound on the writes of a session

Kind == {"http", "socks", "dns"}
Torn == "torn"   \* a base URL read while it is being written

ASSUME DpiSessionsAssumption ==
  /\ None \notin Base /\ Base # {} /\ Torn \notin Base
  /\ MaxRedirects \in Nat /\ MaxSends \in Nat

VARIABLES
  kind,
  pc,         \* see TypeOK
  baseURL,    \* the shared field
  raced,      \* two of them are, or were, assigning it at the same time
  dest,       \* the base URL a session's request was built with
  attempt,    \* of Connect: each takes a connection ID of its own
  held,       \* what each server holds: pairs of session and attempt
  home,       \* the server that answered a session's Connect, or None
  reason,     \* history: why a connection may have been left behind
  silent,     \* history: SendData succeeded and the data went nowhere
  moved,      \* history: baseURL has been redirected since a session's Connect
  gone,       \* history: the server ended the session's connection itself
  redirects, sends
vars == <<kind, pc, baseURL, raced, dest, attempt, held, home, reason, silent,
          moved, gone, redirects, sends>>

TypeOK ==
  /\ kind \in [Session -> Kind]
  /\ pc \in [Session -> {"connect", "post", "answer", "redirect", "assign", "reply",
                         "download", "get", "open", "send", "close", "postClose", "done"}]
  /\ baseURL \in Base \cup {Torn} /\ raced \in BOOLEAN
  /\ dest \in [Session -> Base \cup {None, Torn}]
  /\ attempt \in [Session -> 0 .. MaxRedirects]
  /\ held \in [Base -> SUBSET (Session \X (0 .. MaxRedirects))]
  /\ home \in [Session -> Base \cup {None}]
  /\ reason \in [Session -> {"none", "answerLost", "abandoned", "closeLost", "moved"}]
  /\ silent \in [Session -> BOOLEAN] /\ moved \in [Session -> BOOLEAN]
  /\ gone \in [Session -> BOOLEAN]
  /\ redirects \in 0 .. MaxRedirects /\ sends \in [Session -> 0 .. MaxSends]

Init ==
  /\ kind \in [Session -> Kind]
  /\ pc = [s \in Session |-> "connect"]
  /\ baseURL = (CHOOSE b \in Base : TRUE) /\ raced = FALSE
  /\ dest = [s \in Session |-> None] /\ attempt = [s \in Session |-> 0]
  /\ held = [b \in Base |-> {}] /\ home = [s \in Session |-> None]
  /\ reason = [s \in Session |-> "none"]
  /\ silent = [s \in Session |-> FALSE] /\ moved = [s \in Session |-> FALSE]
  /\ gone = [s \in Session |-> FALSE]
  /\ redirects = 0 /\ sends = [s \in Session |-> 0]

conn(s) == <<s, attempt[s]>>
go(s, from, to) == pc[s] = from /\ pc' = [pc EXCEPT ![s] = to]
servers == <<held, gone>>
history == <<home, reason, silent, moved>>

writers == {t \in Session : pc[t] = "assign"}

(* A request is built from baseURL, read without a lock: during a write    *)
(* the string may be the old one, the new one, or a mixture.               *)
ReadBase(s, from, to) ==
  /\ go(s, from, to)
  /\ \E b \in {baseURL} \cup {dest[t] : t \in writers} \cup {Torn : t \in writers} :
       dest' = [dest EXCEPT ![s] = b]
  /\ UNCHANGED <<kind, baseURL, raced, attempt, redirects, sends>>
  /\ UNCHANGED servers /\ UNCHANGED history

-----------------------------------------------------------------------------
(* Connect.                                                                *)
ConnectStart(s) == ReadBase(s, "connect", "post")

ConnectRegistered(s) ==
  /\ dest[s] \in Base /\ go(s, "post", "answer")
  /\ held' = [held EXCEPT ![dest[s]] = @ \cup {conn(s)}]
  /\ UNCHANGED <<kind, baseURL, raced, dest, attempt, gone, redirects, sends>>
  /\ UNCHANGED history

(* Refused, unreachable, or no URL at all: Connect returns an error.       *)
ConnectFails(s) ==
  /\ go(s, "post", "done")
  /\ UNCHANGED <<kind, baseURL, raced, dest, attempt, redirects, sends>>
  /\ UNCHANGED servers /\ UNCHANGED history

ConnectOk(s) ==
  /\ go(s, "answer", IF kind[s] = "http" THEN "reply" ELSE "download")
  /\ home' = [home EXCEPT ![s] = dest[s]]
  /\ moved' = [moved EXCEPT ![s] = baseURL # dest[s] \/ writers # {}]
  /\ UNCHANGED <<kind, baseURL, raced, dest, attempt, reason, silent, redirects, sends>>
  /\ UNCHANGED servers

ConnectAnswerLost(s) ==
  /\ go(s, "answer", "done")
  /\ reason' = [reason EXCEPT ![s] = "answerLost"]
  /\ UNCHANGED <<kind, baseURL, raced, dest, attempt, home, silent, moved, redirects, sends>>
  /\ UNCHANGED servers

(* A redirect: baseURL is assigned, in more than one memory access, and    *)
(* Connect starts again with a new connection ID.                          *)
ConnectRedirected(s) ==
  /\ dest[s] \in Base /\ go(s, "post", "redirect") /\ redirects < MaxRedirects
  /\ redirects' = redirects + 1
  /\ \E b \in Base \ {dest[s]} : dest' = [dest EXCEPT ![s] = b]
  /\ UNCHANGED <<kind, baseURL, raced, attempt, sends>>
  /\ UNCHANGED servers /\ UNCHANGED history

AssignStart(s) ==
  /\ go(s, "redirect", "assign")
  /\ raced' = (writers # {})
  /\ moved' = [t \in Session |-> moved[t] \/ home[t] # None]
  /\ UNCHANGED <<kind, baseURL, dest, attempt, home, reason, silent, redirects, sends>>
  /\ UNCHANGED servers

nextAttempt(n) == n + 1

AssignEnd(s) ==
  /\ go(s, "assign", "connect")
  /\ baseURL' \in {dest[s]} \cup (IF raced THEN {baseURL, Torn} ELSE {})
  /\ raced' = (raced /\ writers # {s})
  /\ attempt' = [attempt EXCEPT ![s] = nextAttempt(@)]
  /\ UNCHANGED <<kind, dest, redirects, sends>> /\ UNCHANGED servers /\ UNCHANGED history

(* The HTTP proxy answers its client, which may have gone.                 *)
Reply(s) ==
  /\ go(s, "reply", "download")
  /\ UNCHANGED <<kind, baseURL, raced, dest, attempt, redirects, sends>>
  /\ UNCHANGED servers /\ UNCHANGED history

ReplyFails(s) ==
  /\ go(s, "reply", "done")
  /\ reason' = [reason EXCEPT ![s] = "abandoned"]
  /\ UNCHANGED <<kind, baseURL, raced, dest, attempt, home, silent, moved, redirects, sends>>
  /\ UNCHANGED servers

-----------------------------------------------------------------------------
(* newTunnelConn: DownloadStream gets a stream where the connection is.    *)
DownloadStart(s) == ReadBase(s, "download", "get")

DownloadOk(s) ==
  /\ dest[s] \in Base /\ conn(s) \in held[dest[s]] /\ go(s, "get", "open")
  /\ UNCHANGED <<kind, baseURL, raced, dest, attempt, redirects, sends>>
  /\ UNCHANGED servers /\ UNCHANGED history

(* Variant: the resolver too leaves it at that.                            *)
closesAfterFailure_Never(k) == FALSE

(* Only the DNS resolver closes the connection then.                       *)
closesAfterFailure(k) == k = "dns"

DownloadFails(s) ==
  /\ go(s, "get", IF closesAfterFailure(kind[s]) THEN "close" ELSE "done")
  /\ reason' = IF kind[s] = "dns" THEN reason ELSE [reason EXCEPT ![s] = "abandoned"]
  /\ UNCHANGED <<kind, baseURL, raced, dest, attempt, home, silent, moved, redirects, sends>>
  /\ UNCHANGED servers

(* SendData: any answer is a success, a 404 of a server that does not know *)
(* the connection too.                                                     *)
SendStart(s) == sends[s] < MaxSends /\ ReadBase(s, "open", "send")

SendAnswered(s) ==
  /\ dest[s] \in Base /\ go(s, "send", "open")
  /\ sends' = [sends EXCEPT ![s] = @ + 1]
  /\ silent' = [silent EXCEPT ![s] = @ \/ conn(s) \notin held[dest[s]]]
  /\ UNCHANGED <<kind, baseURL, raced, dest, attempt, home, reason, moved, redirects>>
  /\ UNCHANGED servers

SendFails(s) ==
  /\ go(s, "send", "close")
  /\ UNCHANGED <<kind, baseURL, raced, dest, attempt, redirects, sends>>
  /\ UNCHANGED servers /\ UNCHANGED history

(* The server ends a connection when its target does.                      *)
ServerEnds(s) ==
  /\ \E b \in Base : conn(s) \in held[b]
  /\ held' = [b \in Base |-> held[b] \ {conn(s)}]
  /\ gone' = [gone EXCEPT ![s] = TRUE]
  /\ UNCHANGED <<kind, pc, baseURL, raced, dest, attempt, redirects, sends>>
  /\ UNCHANGED history

(* The caller is done, or a DNS query timed out: CloseConn.                *)
Done(s) ==
  /\ go(s, "open", "close")
  /\ UNCHANGED <<kind, baseURL, raced, dest, attempt, redirects, sends>>
  /\ UNCHANGED servers /\ UNCHANGED history

CloseStart(s) == ReadBase(s, "close", "postClose")

(* Variant: two sessions got the same connection ID.                       *)
closed_SameID(s) == {c \in held[dest[s]] : c[2] = attempt[s]}
closed(s) == {conn(s)}

CloseArrives(s) ==
  /\ dest[s] \in Base /\ go(s, "postClose", "done")
  /\ held' = [held EXCEPT ![dest[s]] = @ \ closed(s)]
  /\ reason' = IF home[s] # dest[s] THEN [reason EXCEPT ![s] = "moved"] ELSE reason
  /\ UNCHANGED <<kind, baseURL, raced, dest, attempt, home, silent, moved, gone, redirects, sends>>

CloseLost(s) ==
  /\ go(s, "postClose", "done")
  /\ reason' = [reason EXCEPT ![s] = "closeLost"]
  /\ UNCHANGED <<kind, baseURL, raced, dest, attempt, home, silent, moved, redirects, sends>>
  /\ UNCHANGED servers

Caller(s) ==
  \/ ConnectStart(s) \/ ConnectRegistered(s) \/ ConnectFails(s) \/ ConnectOk(s)
  \/ ConnectAnswerLost(s) \/ ConnectRedirected(s) \/ AssignStart(s) \/ AssignEnd(s)
  \/ Reply(s) \/ ReplyFails(s) \/ DownloadStart(s) \/ DownloadOk(s) \/ DownloadFails(s)
  \/ SendStart(s) \/ SendAnswered(s) \/ SendFails(s) \/ Done(s)
  \/ CloseStart(s) \/ CloseArrives(s) \/ CloseLost(s)

Next == \E s \in Session : Caller(s) \/ ServerEnds(s)

Spec == Init /\ [][Next]_vars

-----------------------------------------------------------------------------
(* Properties.                                                             *)

(* A connection of a session that is over is left at a server only if the  *)
(* answer of its Connect or its CloseConn was lost, if baseURL moved, or   *)
(* if the HTTP proxy or the SOCKS dialer failed between Connect and the    *)
(* download stream; never by the DNS resolver on that path.  And only the  *)
(* last attempt of a Connect can have registered one.                      *)
leftBehind(s) == UNION {{c \in held[b] : c[1] = s} : b \in Base}

ReleasedOrKnown ==
  \A s \in Session :
    /\ leftBehind(s) \subseteq {conn(s)}
    /\ pc[s] = "done" /\ leftBehind(s) # {} =>
         reason[s] \in {"answerLost", "closeLost", "moved"} \cup
                       (IF kind[s] = "dns" THEN {} ELSE {"abandoned"})

(* SendData reports success for data that reached no connection only if a  *)
(* redirect moved baseURL during the session, or the server had ended the  *)
(* connection: otherwise requests go to the server that holds it.          *)
SilentLossExplained ==
  \A s \in Session : silent[s] => moved[s] \/ gone[s]
=============================================================================
