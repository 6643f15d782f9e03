---------------------------- MODULE GracefulServer ----------------------------
(***************************************************************************)
(* modules/graceful/server.go and server_hooks.go: a listening server      *)
(* under the graceful manager.                                             *)
(*                                                                         *)
(* Goroutines: ListenAndServe, which ends in Serve; awaitShutdown, started *)
(* first; one per connection.  srv.wg counts connections.  It is a         *)
(* sync.WaitGroup: its counter may go below zero, which makes Done panic;  *)
(* Wait returns at once if the counter is zero, else it sleeps until a     *)
(* Done brings it to zero, and panics if it has changed again when it      *)
(* wakes up.                                                               *)
(***************************************************************************)
EXTENDS GracefulManager, Integers

CONSTANTS
  Listener,    \* this server, one of the watchers of the manager
  MaxConn      \* bound: connections accepted

ASSUME ListenerAssumption == Listener \in Watcher /\ MaxConn \in Nat

VARIABLES
  srvState,    \* srv.state
  listening,   \* srv.listener is open
  wg,          \* the counter of srv.wg
  conns,       \* connections that have not been closed
  accepted,    \* counter of the bound
  serve,       \* ListenAndServe and Serve
  await        \* awaitShutdown

server   == << srvState, listening, wg, conns, accepted, serve, await >>
allVars  == << vars, server >>

AwaitPC == {"select",                  \* waiting for IsShutdown or IsHammer
            "close", "closeHammered",  \* in doShutdown, after the one or the other
            "hammerNow",               \* in doHammer, after IsHammer
            "wait", "hammer",          \* waiting for IsHammer again, in doHammer
            "end"}
ServePC == {"start", "started", "accepting", "closed", "waiting", "released",
            "waited", "terminated", "returned", "panicked"}

ServerInit ==
  /\ Init
  /\ srvState = "init"
  /\ listening = TRUE
  /\ wg = 0
  /\ conns = 0
  /\ accepted = 0
  /\ serve = "start"
  /\ await = "select"

-----------------------------------------------------------------------------
(* Serve.                                                                  *)

SetRunning ==
  /\ serve = "start"
  /\ serve' = "started"
  /\ srvState' = "running"
  /\ UNCHANGED << vars, listening, wg, conns, accepted, await >>

Register ==
  /\ serve = "started"
  /\ serve' = "accepting"
  /\ RegisterServer(Listener)
  /\ UNCHANGED << srvState, listening, wg, conns, accepted, await >>

(* Mutant of Count: the connection is not counted.                         *)
Count_Never == wg' = wg

Count == wg' = wg + 1

Accept ==
  /\ serve = "accepting"
  /\ listening
  /\ accepted < MaxConn
  /\ accepted' = accepted + 1
  /\ conns' = conns + 1
  /\ Count
  /\ UNCHANGED << vars, srvState, listening, serve, await >>

(* Accept fails on a closed listener and the accept loop returns.          *)
AcceptFails ==
  /\ serve = "accepting"
  /\ ~listening
  /\ serve' = "closed"
  /\ UNCHANGED << vars, srvState, listening, wg, conns, accepted, await >>

(* srv.wg.Wait *)
Wait ==
  /\ serve = "closed"
  /\ serve' = IF wg = 0 THEN "waited" ELSE "waiting"
  /\ UNCHANGED << vars, srvState, listening, wg, conns, accepted, await >>

WakeUp ==
  /\ serve = "released"
  /\ serve' = IF wg = 0 THEN "waited" ELSE "panicked"
  /\ UNCHANGED << vars, srvState, listening, wg, conns, accepted, await >>

SetTerminated ==
  /\ serve = "waited"
  /\ serve' = "terminated"
  /\ srvState' = "terminate"
  /\ UNCHANGED << vars, listening, wg, conns, accepted, await >>

Return ==
  /\ serve = "terminated"
  /\ serve' = "returned"
  /\ ServerDone(Listener)
  /\ UNCHANGED << srvState, listening, wg, conns, accepted, await >>

(* srv.wg.Done: it wakes Serve when the counter comes to zero.             *)
Done ==
  /\ wg' = wg - 1
  /\ serve' = IF serve = "waiting" /\ wg = 1 THEN "released" ELSE serve

(* A connection is closed; a panic of Done is recovered.                   *)
CloseConn ==
  /\ conns > 0
  /\ conns' = conns - 1
  /\ Done
  /\ UNCHANGED << vars, srvState, listening, accepted, await >>

-----------------------------------------------------------------------------
(* awaitShutdown.                                                          *)

AwaitShutdown ==
  /\ await = "select"
  /\ "shutdown" \in closed
  /\ await' = "close"
  /\ UNCHANGED << vars, srvState, listening, wg, conns, accepted, serve >>

AwaitHammer ==
  /\ await = "select"
  /\ "hammer" \in closed
  /\ await' = "closeHammered"
  /\ UNCHANGED << vars, srvState, listening, wg, conns, accepted, serve >>

AfterShutdown == IF await = "close" THEN "wait" ELSE "hammerNow"

(* doShutdown of the server: it does nothing unless the server is running. *)
CloseListener ==
  /\ await \in {"close", "closeHammered"}
  /\ IF srvState = "running"
       THEN srvState' = "shuttingDown" /\ listening' = FALSE
       ELSE UNCHANGED << srvState, listening >>
  /\ await' = AfterShutdown
  /\ UNCHANGED << vars, wg, conns, accepted, serve >>

HammerSeen == "hammer" \in closed

AwaitHammerAgain ==
  /\ await = "wait"
  /\ HammerSeen
  /\ await' = "hammer"
  /\ UNCHANGED << vars, srvState, listening, wg, conns, accepted, serve >>

Exhausted   == wg <= 0
AfterHammer == IF await = "hammerNow" THEN "wait" ELSE "end"

(* doHammer: Done until it panics, unless Serve is not shutting down.  The *)
(* look at the state and the Done after it are one step: a Done that comes *)
(* after the end of Serve concerns nobody any more.                        *)
DoHammer ==
  /\ await \in {"hammerNow", "hammer"}
  /\ IF srvState = "shuttingDown"
       THEN Done /\ await' = IF Exhausted THEN AfterHammer ELSE await
       ELSE await' = AfterHammer /\ UNCHANGED << wg, serve >>
  /\ UNCHANGED << vars, srvState, listening, conns, accepted >>

-----------------------------------------------------------------------------
Serve ==
  \/ SetRunning \/ Register
  \/ Accept \/ AcceptFails
  \/ Wait \/ WakeUp \/ SetTerminated \/ Return

Await ==
  \/ AwaitShutdown \/ AwaitHammer
  \/ CloseListener
  \/ AwaitHammerAgain \/ DoHammer

(* The manager and its other servers. *)
ManagerStep ==
  /\ Request \/ Manager \/ \E s \in Server \ {Listener} : Life(s)
  /\ UNCHANGED server

(* A panic that nobody recovers is the end of the process.                 *)
Alive == serve # "panicked" /\ mopUp # "panicked"

ServerNext ==
  /\ Alive
  /\ Serve \/ CloseConn \/ Await \/ ManagerStep

ServerSpec == ServerInit /\ [][ServerNext]_allVars

(* The scheduler runs every goroutine that can run, and timers fire.       *)
(* Functions given to RunAtTerminate return; what watches the shutdown     *)
(* context ends when it is done, a runner when it has been cancelled.      *)
(* Requests see the hammer context; before that they may last for ever.    *)
LiveSpec ==
  /\ ServerSpec
  /\ WF_allVars(Alive /\ Serve)
  /\ WF_allVars(Alive /\ Await)
  /\ WF_allVars(Alive /\ MopUp /\ UNCHANGED server)
  /\ WF_allVars(Alive /\ CloseShutdown /\ UNCHANGED server)
  /\ WF_allVars(Alive /\ HammerTime /\ UNCHANGED server)
  /\ WF_allVars(Alive /\ "hammer" \in closed /\ CloseConn)
  /\ \A r \in Runner :
       /\ WF_allVars(Alive /\ CancelRunner(r) /\ UNCHANGED server)
       /\ WF_allVars(Alive /\ (hook[r] = "ran" \/ srv[r] = "panicked")
                           /\ ServerDone(r) /\ UNCHANGED server)
  /\ \A s \in Watcher \ {Listener} :
       WF_allVars(Alive /\ "shutdown" \in closed /\ ServerDone(s) /\ UNCHANGED server)
  /\ \A t \in Terminator :
       WF_allVars(Alive /\ (ListTerminator(t) \/ TerminatorDone(t)) /\ UNCHANGED server)

-----------------------------------------------------------------------------
(* Properties.                                                             *)

(* Every variable keeps its type; the counter of connections stays within  *)
(* what two calls of doHammer and the connections themselves can do to it. *)
TypeOK ==
  /\ ManagerTypeOK
  /\ srvState \in {"init", "running", "shuttingDown", "terminate"}
  /\ listening \in BOOLEAN
  /\ wg \in -MaxConn - 2 .. MaxConn
  /\ conns \in 0..MaxConn
  /\ accepted \in 0..MaxConn
  /\ serve \in ServePC
  /\ await \in AwaitPC

(* Serve waits for the connections: until the hammer it does not return    *)
(* while one is open (server.go:168-177).                                  *)
ConnectionsServed ==
  serve \in {"waited", "terminated", "returned"} /\ "hammer" \notin closed => conns = 0

(* Only the hammer upsets the count of connections, and with it Serve      *)
(* (server_hooks.go:50-72, server.go:286-303).                             *)
CountNeedsNoHammer ==
  "hammer" \notin closed => wg = conns /\ serve # "panicked"

(* The inductive invariant of the proofs: the two properties, what they    *)
(* rest on, and how far the counter can fall below the connections.        *)
Hammered == IF await = "end" THEN 2 ELSE IF await \in {"wait", "hammer"} THEN 1 ELSE 0
CountBounds ==
  /\ wg <= conns
  /\ wg >= conns - accepted - Hammered
  /\ conns <= accepted
BeforeHammer ==
  "hammer" \notin closed =>
    /\ await \in {"select", "close", "wait"}
    /\ serve = "released" => wg = 0
ServerInv ==
  /\ TypeOK /\ CountBounds
  /\ BeforeHammer /\ ConnectionsServed /\ CountNeedsNoHammer

(* What keeps a shutdown from completing, each a race of a registration or *)
(* of the start or the end of Serve with the shutdown: a runner that       *)
(* registered too late to be cancelled; a function added after the start   *)
(* of the others; a server that was not running yet when it was told to    *)
(* stop; a Serve that waits for a counter below zero, which the comment    *)
(* of server_hooks.go:52-55 excludes; a Wait, of Serve or of the mop-up    *)
(* goroutine, that panics as somebody was added before it woke up.         *)
Uncancelled == \E r \in Runner : Running(r) /\ hook[r] = "missed"
NotStarted  == \E t \in Terminator : term[t] = "missed" /\ Terminated
Unstoppable == srvState = "running" /\ await \notin {"select", "close", "closeHammered"}
Sleepless   == serve = "waiting" /\ wg < 0
Obstacle    == Uncancelled \/ NotStarted \/ Unstoppable \/ Sleepless \/ ~Alive

(* A shutdown completes, the process ends, whatever is registered, started *)
(* or panics meanwhile, unless there is one of these obstacles             *)
(* (manager.go:132-160, cmd/web.go:213).                                   *)
ShutdownCompletes ==
  "shutdown" \in closed ~> "manager" \in closed \/ Obstacle

(* RunWithCancel: "the Cancel function will be called at shutdown"         *)
(* (manager.go:63).                                                        *)
CancelCalled ==
  \A r \in Runner : Running(r) /\ "shutdown" \in closed ~> hook[r] = "ran" \/ ~Running(r)

(* doHammer: "So if it panics -> we're done, Serve() will return"          *)
(* (server_hooks.go:52-55).                                                *)
HammeredServeReturns ==
  srvState = "shuttingDown" /\ await = "end" ~> serve = "returned"

(* "The order of closure is IsShutdown, IsHammer" (manager.go:208).        *)
HammerAfterShutdown == "hammer" \in closed => "shutdown" \in closed
===============================================================================
