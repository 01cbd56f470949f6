----------------------------- MODULE TermMonitor ----------------------------
(***************************************************************************)
(* The end of the process: LaunchTermMonitorForListeners with              *)
(* NewTermMonitor and Wait (common/termon), the signals that the Go        *)
(* runtime passes to an unbuffered channel, the watch over the parent      *)
(* process, the listeners with the accept loops of the obfs transports,    *)
(* and the handlers that report to the monitor.  (In the obfs handlers the *)
(* two reporting calls are commented out: the shipped program has          *)
(* Handler = {}.)                                                          *)
(***************************************************************************)
EXTENDS Naturals, FiniteSets

CONSTANTS
  Handler,       \* connection handlers that report
  NumListeners,  \* listeners handed to the monitor
  MaxSignals     \* bound on the signals users send

Listener == 1 .. NumListeners

VARIABLES
  pc,           \* main: "launch", "notify", "arm", "wait", "closing",
                \* "waitAll" or "exited"
  why,          \* why it exited
  blocked,      \* main is blocked in the select of Wait
  numHandlers,
  next,         \* the next listener to close
  open,         \* the listeners that are open
  parent,       \* the parent process: "alive" or "dead"
  watch,        \* the watch over it: "none", "prctl", or the goroutine
                \* termOnPPIDChange: "poll", "late" (ppid is init's), "send", "done"
  handler,      \* "idle", "starting", "running" or "finishing"
  signals       \* signals sent by users
vars == <<pc, why, blocked, numHandlers, next, open, parent, watch, handler, signals>>

TypeOK ==
  /\ pc \in {"launch", "notify", "arm", "wait", "closing", "waitAll", "exited"}
  /\ why \in {"none", "killed", "signal", "closeError", "idle"}
  /\ blocked \in BOOLEAN
  /\ numHandlers \in 0 .. Cardinality(Handler)
  /\ next \in 1 .. NumListeners + 1 /\ open \subseteq Listener
  /\ parent \in {"alive", "dead"}
  /\ watch \in {"none", "prctl", "poll", "late", "send", "done"}
  /\ handler \in [Handler -> {"idle", "starting", "running", "finishing"}]
  /\ signals \in 0 .. MaxSignals

Init ==
  /\ pc = "launch" /\ why = "none" /\ blocked = FALSE
  /\ numHandlers = 0 /\ next = 1 /\ open = Listener
  /\ parent = "alive" /\ watch = "none"
  /\ handler = [h \in Handler |-> "idle"] /\ signals = 0

Up == pc # "exited"
Waiting == pc \in {"wait", "waitAll"}

-----------------------------------------------------------------------------
(* NewTermMonitor: Getppid, signal.Notify, then prctl, or the goroutine    *)
(* termOnPPIDChange when prctl fails.                                      *)
Getppid ==
  /\ pc = "launch" /\ pc' = "notify"
  /\ watch' = IF parent = "dead" THEN "late" ELSE "none"
  /\ UNCHANGED <<why, blocked, numHandlers, next, open, parent, handler, signals>>

Notify ==
  /\ pc = "notify" /\ pc' = "arm"
  /\ UNCHANGED <<why, blocked, numHandlers, next, open, parent, watch, handler, signals>>

Prctl ==
  /\ pc = "arm" /\ pc' = "wait"
  /\ watch' = "prctl"
  /\ UNCHANGED <<why, blocked, numHandlers, next, open, parent, handler, signals>>

PrctlFails ==
  /\ pc = "arm" /\ pc' = "wait"
  /\ watch' = IF watch = "late" THEN "late" ELSE "poll"
  /\ UNCHANGED <<why, blocked, numHandlers, next, open, parent, handler, signals>>

-----------------------------------------------------------------------------
(* Wait(termOnNoHandlers), TRUE in "waitAll".                              *)
Block ==
  /\ Waiting /\ ~blocked /\ blocked' = TRUE
  /\ UNCHANGED <<pc, why, numHandlers, next, open, parent, watch, handler, signals>>

exit(reason) == pc' = "exited" /\ why' = reason

(* Wait returns the signal; only another one than SIGTERM, and only the    *)
(* first time, goes on to close the listeners.                             *)
Receive(sig) ==
  /\ IF pc = "wait" /\ sig # "TERM" THEN pc' = "closing" /\ UNCHANGED why
                                    ELSE exit("signal")
  /\ blocked' = FALSE

(* The kernel delivers a signal.  Before Notify it kills; afterwards the   *)
(* runtime passes it on if the channel has a receiver, and drops it if     *)
(* not.                                                                    *)
deliver(sig) ==
  CASE pc \in {"launch", "notify"} -> exit("killed") /\ UNCHANGED blocked
    [] blocked -> Receive(sig)
    [] OTHER -> UNCHANGED <<pc, why, blocked>>

Signal(sig) ==
  /\ Up /\ signals < MaxSignals /\ signals' = signals + 1
  /\ deliver(sig)
  /\ UNCHANGED <<numHandlers, next, open, parent, watch, handler>>

(* The parent dies: the kernel sends the SIGTERM that prctl asked for.     *)
ParentDies ==
  /\ Up /\ parent = "alive" /\ parent' = "dead"
  /\ IF watch = "prctl" THEN deliver("TERM") ELSE UNCHANGED <<pc, why, blocked>>
  /\ UNCHANGED <<numHandlers, next, open, watch, handler, signals>>

(* termOnPPIDChange polls, and its send waits for a receiver.  Variant:    *)
(* it sends like the runtime, without waiting.                             *)
PPIDChange ==
  /\ Up /\ watch = "poll" /\ parent = "dead" /\ watch' = "send"
  /\ UNCHANGED <<pc, why, blocked, numHandlers, next, open, parent, handler, signals>>

PPIDSend_NonBlocking ==
  /\ Up /\ watch = "send" /\ watch' = "done"
  /\ deliver("TERM")
  /\ UNCHANGED <<numHandlers, next, open, parent, handler, signals>>

PPIDSend ==
  /\ Waiting /\ watch = "send" /\ watch' = "done"
  /\ Receive("TERM")
  /\ UNCHANGED <<numHandlers, next, open, parent, handler, signals>>

-----------------------------------------------------------------------------
(* The listeners.  An accept loop that fails for good closes its own; then *)
(* the Close of LaunchTermMonitorForListeners fails and main returns.      *)
AcceptLoopFails(l) ==
  /\ Up /\ l \in open /\ open' = open \ {l}
  /\ UNCHANGED <<pc, why, blocked, numHandlers, next, parent, watch, handler, signals>>

CloseListener ==
  /\ pc = "closing" /\ next <= NumListeners
  /\ IF next \in open THEN next' = next + 1 /\ UNCHANGED <<pc, why>>
                      ELSE exit("closeError") /\ UNCHANGED next
  /\ open' = open \ {next}
  /\ UNCHANGED <<blocked, numHandlers, parent, watch, handler, signals>>

CloseDone ==
  /\ pc = "closing" /\ next > NumListeners /\ pc' = "waitAll"
  /\ UNCHANGED <<why, blocked, numHandlers, next, open, parent, watch, handler, signals>>

-----------------------------------------------------------------------------
(* The handlers: OnHandlerStart and OnHandlerFinish send to the unbuffered *)
(* handlerChan and wait until Wait receives.                               *)
Accept(h) ==
  /\ Up /\ open # {} /\ handler[h] = "idle"
  /\ handler' = [handler EXCEPT ![h] = "starting"]
  /\ UNCHANGED <<pc, why, blocked, numHandlers, next, open, parent, watch, signals>>

Finish(h) ==
  /\ Up /\ handler[h] = "running"
  /\ handler' = [handler EXCEPT ![h] = "finishing"]
  /\ UNCHANGED <<pc, why, blocked, numHandlers, next, open, parent, watch, signals>>

(* Wait counts, and returns when there are none and it was told to.        *)
noHandlers(n) == n = 0

count(n) ==
  /\ numHandlers' = n
  /\ IF pc = "waitAll" /\ noHandlers(n) THEN exit("idle") ELSE UNCHANGED <<pc, why>>
  /\ blocked' = FALSE

counting == Waiting

OnHandlerStart(h) ==
  /\ counting /\ handler[h] = "starting"
  /\ handler' = [handler EXCEPT ![h] = "running"]
  /\ count(numHandlers + 1)
  /\ UNCHANGED <<next, open, parent, watch, signals>>

OnHandlerFinish(h) ==
  /\ counting /\ handler[h] = "finishing"
  /\ handler' = [handler EXCEPT ![h] = "idle"]
  /\ count(numHandlers - 1)
  /\ UNCHANGED <<next, open, parent, watch, signals>>

Main == Getppid \/ Notify \/ Prctl \/ PrctlFails \/ Block \/ CloseListener \/ CloseDone
Watcher == PPIDChange \/ PPIDSend

Next ==
  \/ Main \/ Watcher \/ ParentDies
  \/ \E sig \in {"INT", "TERM"} : Signal(sig)
  \/ \E l \in Listener : AcceptLoopFails(l)
  \/ \E h \in Handler : Accept(h) \/ Finish(h) \/ OnHandlerStart(h) \/ OnHandlerFinish(h)

Spec == Init /\ [][Next]_vars

(* Main and the watcher run; select serves each waiting sender in the end. *)
(* Nothing makes a signal arrive, a parent die or a handler finish.        *)
FairSpec ==
  /\ Spec /\ WF_vars(Main) /\ SF_vars(Watcher)
  /\ \A h \in Handler : SF_vars(OnHandlerStart(h)) /\ SF_vars(OnHandlerFinish(h))

-----------------------------------------------------------------------------
(* Properties.                                                             *)

(* Wait(true) takes the process down only once the listeners are closed    *)
(* and every handler that was counted in has been counted out.             *)
IdleExitIsIdle ==
  why = "idle" => open = {} /\ \A h \in Handler : handler[h] \in {"idle", "starting"}

(* Without prctl, the death of the parent after start-up always ends the   *)
(* process: the send of termOnPPIDChange waits, unlike a signal's.         *)
FallbackAlwaysWorks == watch = "poll" /\ parent = "dead" ~> pc = "exited"

(* When the process ends: by the count of handlers only when it is idle,   *)
(* and with its parent, where termOnPPIDChange looks after it.             *)
ExitsRightly == []IdleExitIsIdle /\ FallbackAlwaysWorks
=============================================================================
