--------------------------- MODULE GracefulManager ---------------------------
(***************************************************************************)
(* modules/graceful/manager.go and manager_unix.go: how the process stops. *)
(*                                                                         *)
(* Goroutines: whoever asks for the shutdown (the signal handler, the      *)
(* internal API, the startup timeout, a server that panicked); the hammer  *)
(* timer; the mop-up goroutine of doShutdown; the registered functions.    *)
(* A server is anything counted by runningServerWaitGroup: a RunCanceler   *)
(* stops when it is cancelled, the others watch the shutdown context.      *)
(*                                                                         *)
(* The lock makes each visit to state and contexts one step.  A restart    *)
(* (SIGHUP) is a fork, which is not modelled, and then a shutdown.  The    *)
(* mop-up goroutine waits for two sync.WaitGroups, whose counters are      *)
(* those who are Running and Pending: Wait returns at once if there are    *)
(* none, else it sleeps until the last Done, and panics if somebody has    *)
(* been added when it wakes up; nobody recovers that, the process dies.    *)
(***************************************************************************)
EXTENDS FiniteSets

CONSTANTS
  Runner,       \* functions given to RunWithCancel
  Watcher,      \* servers that watch the shutdown context
  Terminator,   \* functions given to RunAtTerminate
  HammerTimer   \* setting.GracefulHammerTime >= 0

ASSUME ConstantsAssumption ==
  /\ Runner \cap Watcher = {}
  /\ HammerTimer \in BOOLEAN

Server == Runner \cup Watcher

VARIABLES
  state,      \* g.state
  closed,     \* the contexts that are done
  shutting,   \* a doShutdown has changed the state and not yet taken the lock
  srv,        \* each server
  hook,       \* the Cancel of each runner in toRunAtShutdown
  term,       \* each function in toRunAtTerminate
  mopUp,      \* the mop-up goroutine
  timer,      \* the hammer timer
  late,       \* history: what was registered after the wait for it was over
  early       \* history: an immediate hammer was asked for before the shutdown

vars == << state, closed, shutting, srv, hook, term, mopUp, timer, late, early >>

Running(s) == srv[s] \in {"running", "panicked"}
Pending(t) == term[t] \in {"added", "listed", "missed", "launched"}

(* What the mop-up goroutine has behind it. *)
Terminated  == mopUp \in {"await", "awaitAsleep", "awaitWoken", "end"}
ServersOver == mopUp \in {"hammer", "sleep"} \/ Terminated

Init ==
  /\ state = "running"
  /\ closed = {}
  /\ shutting = FALSE
  /\ srv = [s \in Server |-> "new"]
  /\ hook = [r \in Runner |-> "none"]
  /\ term = [t \in Terminator |-> "new"]
  /\ mopUp = "off"
  /\ timer = "off"
  /\ late = {}
  /\ early = FALSE

-----------------------------------------------------------------------------
(* Registration.                                                           *)

(* RunAtShutdown, by RunWithCancel: first the hook, which nobody will read *)
(* any more if the shutdown is under way ...                               *)
RunAtShutdown(r) ==
  /\ hook[r] = "none"
  /\ hook' = [hook EXCEPT ![r] = IF "shutdown" \in closed THEN "missed" ELSE "listed"]
  /\ UNCHANGED << state, closed, shutting, srv, term, mopUp, timer, late, early >>

(* ... then runningServerWaitGroup.Add, as in RunWithShutdownContext and   *)
(* RegisterServer.                                                         *)
RegisterServer(s) ==
  /\ srv[s] = "new"
  /\ s \in Runner => hook[s] # "none"
  /\ srv' = [srv EXCEPT ![s] = "running"]
  /\ late' = IF ServersOver THEN late \cup {s} ELSE late
  /\ UNCHANGED << state, closed, shutting, hook, term, mopUp, timer, early >>

(* The last Done wakes who sleeps in Wait. *)
WakeWaiter(s) ==
  mopUp' = IF mopUp = "serversAsleep" /\ \A o \in Server \ {s} : ~Running(o) THEN "serversWoken" ELSE mopUp

(* The function returns: runningServerWaitGroup.Done, for one that has     *)
(* panicked when its doShutdown has returned.                              *)
ServerDone(s) ==
  /\ srv[s] = "running" \/ (srv[s] = "panicked" /\ ~shutting)
  /\ srv' = [srv EXCEPT ![s] = "done"]
  /\ WakeWaiter(s)
  /\ UNCHANGED << state, closed, shutting, hook, term, timer, late, early >>

(* RunAtTerminate: terminateWaitGroup.Add, before the lock is taken ...    *)
AddTerminator(t) ==
  /\ term[t] = "new"
  /\ term' = [term EXCEPT ![t] = "added"]
  /\ late' = IF mopUp = "end" THEN late \cup {t} ELSE late
  /\ UNCHANGED << state, closed, shutting, srv, hook, mopUp, timer, early >>

(* ... and the list, which doTerminate reads once.                         *)
ListTerminator(t) ==
  /\ term[t] = "added"
  /\ term' = [term EXCEPT ![t] = IF "terminate" \in closed THEN "missed" ELSE "listed"]
  /\ UNCHANGED << state, closed, shutting, srv, hook, mopUp, timer, late, early >>

-----------------------------------------------------------------------------
(* doHammerTime, once its time has come. *)
Hammer == closed' = closed \cup {"hammer"}

ImmediateHammer == Hammer /\ early' = (early \/ "shutdown" \notin closed)

(* doShutdown: the first call changes the state and goes on in             *)
(* CloseShutdown; every other call is an immediate hammer.                 *)
BeginShutdown ==
  \/ /\ state = "running"
     /\ state' = "shuttingDown"
     /\ shutting' = TRUE
     /\ UNCHANGED << closed, early >>
  \/ /\ state # "running"
     /\ ImmediateHammer
     /\ UNCHANGED << state, shutting >>

(* SIGINT, SIGTERM, SIGHUP, the internal API, the startup timeout.         *)
RequestShutdown ==
  /\ BeginShutdown
  /\ UNCHANGED << srv, hook, term, mopUp, timer, late >>

(* A server panics: it calls doShutdown, then it is done.                  *)
Panic(s) ==
  /\ srv[s] = "running"
  /\ BeginShutdown
  /\ srv' = [srv EXCEPT ![s] = IF state = "running" THEN "panicked" ELSE "done"]
  /\ WakeWaiter(s)
  /\ UNCHANGED << hook, term, timer, late >>

(* SIGUSR2 *)
DoImmediateHammer ==
  /\ ImmediateHammer
  /\ UNCHANGED << state, shutting, srv, hook, term, mopUp, timer, late >>

(* Mutant of LaunchHooks: the functions are not started.                   *)
LaunchHooks_Never == UNCHANGED hook

LaunchHooks == hook' = [r \in Runner |-> IF hook[r] = "listed" THEN "launched" ELSE hook[r]]

(* Under the lock the first doShutdown cancels the context and starts the  *)
(* functions of toRunAtShutdown; then the timer and the mop-up goroutine.  *)
CloseShutdown ==
  /\ shutting
  /\ shutting' = FALSE
  /\ closed' = closed \cup {"shutdown"}
  /\ LaunchHooks
  /\ timer' = IF HammerTimer THEN "set" ELSE "off"
  /\ mopUp' = "servers"
  /\ UNCHANGED << state, srv, term, late, early >>

(* The function of RunAtShutdown: rc.Cancel.                               *)
CancelRunner(r) ==
  /\ hook[r] = "launched"
  /\ hook' = [hook EXCEPT ![r] = "ran"]
  /\ UNCHANGED << state, closed, shutting, srv, term, mopUp, timer, late, early >>

HammerTime ==
  /\ timer = "set"
  /\ timer' = "off"
  /\ Hammer
  /\ UNCHANGED << state, shutting, srv, hook, term, mopUp, late, early >>

-----------------------------------------------------------------------------
(* The mop-up goroutine.                                                   *)

(* Mutants: WaitForServers is left out; WaitForTerminate is; the last      *)
(* hammer is.                                                              *)
ServersEnded_NotAwaited     == TRUE
TerminatorsEnded_NotAwaited == TRUE
MopUpHammer_LeftOut         == UNCHANGED closed

ServersEnded     == \A s \in Server : ~Running(s)
TerminatorsEnded == \A t \in Terminator : ~Pending(t)
MopUpHammer      == Hammer

WaitForServers ==
  /\ \/ mopUp = "servers" /\ mopUp' = IF ServersEnded THEN "hammer" ELSE "serversAsleep"
     \/ mopUp = "serversWoken" /\ mopUp' = IF ServersEnded THEN "hammer" ELSE "panicked"
  /\ UNCHANGED << state, closed, shutting, srv, hook, term, timer, late, early >>

HammerAtLast ==
  /\ mopUp = "hammer"
  /\ MopUpHammer
  /\ mopUp' = "sleep"
  /\ UNCHANGED << state, shutting, srv, hook, term, timer, late, early >>

DoTerminate ==
  /\ mopUp = "sleep"
  /\ state' = "terminate"
  /\ closed' = closed \cup {"terminate"}
  /\ term' = [t \in Terminator |-> IF term[t] = "listed" THEN "launched" ELSE term[t]]
  /\ mopUp' = "await"
  /\ UNCHANGED << shutting, srv, hook, timer, late, early >>

TerminatorDone(t) ==
  /\ term[t] = "launched"
  /\ term' = [term EXCEPT ![t] = "done"]
  /\ mopUp' = IF mopUp = "awaitAsleep" /\ \A u \in Terminator \ {t} : ~Pending(u) THEN "awaitWoken" ELSE mopUp
  /\ UNCHANGED << state, closed, shutting, srv, hook, timer, late, early >>

WaitForTerminate ==
  /\ mopUp \in {"await", "awaitWoken"}
  /\ \/ TerminatorsEnded /\ mopUp' = "end" /\ closed' = closed \cup {"manager"}
     \/ /\ ~TerminatorsEnded
        /\ mopUp' = IF mopUp = "await" THEN "awaitAsleep" ELSE "panicked"
        /\ UNCHANGED closed
  /\ UNCHANGED << state, shutting, srv, hook, term, timer, late, early >>

-----------------------------------------------------------------------------
MopUp == WaitForServers \/ HammerAtLast \/ DoTerminate \/ WaitForTerminate

Request ==
  \/ RequestShutdown
  \/ DoImmediateHammer
  \/ \E r \in Runner : RunAtShutdown(r)
  \/ \E t \in Terminator : AddTerminator(t)

Manager ==
  \/ CloseShutdown
  \/ HammerTime
  \/ MopUp
  \/ \E r \in Runner : CancelRunner(r)
  \/ \E t \in Terminator : ListTerminator(t) \/ TerminatorDone(t)

Life(s) == RegisterServer(s) \/ ServerDone(s) \/ Panic(s)

Next ==
  /\ mopUp # "panicked"
  /\ Request \/ Manager \/ \E s \in Server : Life(s)

Spec == Init /\ [][Next]_vars

-----------------------------------------------------------------------------
(* Properties.                                                             *)

(* Every variable keeps its type, and state, contexts and the mop-up       *)
(* goroutine go together.                                                  *)
ManagerTypeOK ==
  /\ state \in {"running", "shuttingDown", "terminate"}
  /\ closed \subseteq {"shutdown", "hammer", "terminate", "manager"}
  /\ shutting \in BOOLEAN
  /\ srv \in [Server -> {"new", "running", "panicked", "done"}]
  /\ hook \in [Runner -> {"none", "listed", "missed", "launched", "ran"}]
  /\ term \in [Terminator -> {"new", "added", "listed", "missed", "launched", "done"}]
  /\ mopUp \in {"off", "servers", "serversAsleep", "serversWoken", "hammer", "sleep",
               "await", "awaitAsleep", "awaitWoken", "end", "panicked"}
  /\ timer \in {"off", "set"}
  /\ late \subseteq Server \cup Terminator
  /\ early \in BOOLEAN

(* How far the shutdown is, told by the mop-up goroutine.                  *)
Stages ==
  /\ state = "running" => ~shutting /\ mopUp = "off"
  /\ shutting => mopUp = "off" /\ "shutdown" \notin closed
  /\ "shutdown" \in closed <=> mopUp # "off"
  /\ mopUp = "sleep" \/ Terminated => "hammer" \in closed
  /\ Terminated => "terminate" \in closed
  /\ "terminate" \in closed => Terminated \/ mopUp = "panicked"
  /\ "manager" \in closed <=> mopUp = "end"
  /\ timer = "set" => "shutdown" \in closed

(* Nobody is running when the contexts terminate, but for servers that     *)
(* registered when WaitForServers had already returned (manager.go:149-154,*)
(* 217, "IsTerminate will only close once all running servers have         *)
(* stopped").                                                              *)
OnlyLateServersOutlive ==
  ServersOver => \A s \in Server : Running(s) => s \in late

(* The process ends (cmd/web.go waits for Done) when every function given  *)
(* to RunAtTerminate has run, but for those added afterwards               *)
(* (manager.go:95-110, 149-159).                                           *)
DoneAfterTerminators ==
  "manager" \in closed => \A t \in Terminator : Pending(t) => t \in late

(* The inductive invariant of the proofs.                                  *)
ManagerInv == ManagerTypeOK /\ Stages /\ OnlyLateServersOutlive /\ DoneAfterTerminators

Promise == INSTANCE Lifecycle

(* The contexts of the manager keep the promise of module Lifecycle.       *)
ImplementsLifecycle == Promise!Spec
==============================================================================
