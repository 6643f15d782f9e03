---------------------------- MODULE GracefulProofs ----------------------------
(***************************************************************************)
(* Proofs about the graceful restart.  First GracefulManager, for every    *)
(* set of servers, runners and functions: the inductive invariant          *)
(* ManagerInv and the implementation of Lifecycle.  Then GracefulServer:   *)
(* with the server among them the manager still does what GracefulManager  *)
(* says, so that its theorems hold; and Serve waits for its connections,   *)
(* for any number of them, until the hammer.                               *)
(***************************************************************************)
EXTENDS GracefulServer, TLAPS

(***************************************************************************)
(* The manager.                                                            *)
(***************************************************************************)
LEMMA ManagerInvInit == Init => ManagerInv
<1> SUFFICES ASSUME Init PROVE ManagerInv
  OBVIOUS
<1> USE DEF Init, Terminated, ServersOver
<1>1. ManagerTypeOK
  BY DEF ManagerTypeOK
<1>2. Stages
  BY DEF Stages
<1>3. OnlyLateServersOutlive /\ DoneAfterTerminators
  BY DEF OnlyLateServersOutlive, DoneAfterTerminators
<1> QED
  BY <1>1, <1>2, <1>3 DEF ManagerInv

(* A server's own steps: it registers, ends or panics.                     *)
LEMMA ManagerInvLife ==
  ASSUME ManagerInv, NEW s \in Server, Life(s)
  PROVE  ManagerInv'
<1> USE DEF ManagerInv, Terminated, ServersOver, WakeWaiter
<1>1. CASE RegisterServer(s)
  <2>1. ManagerTypeOK'
    BY <1>1 DEF RegisterServer, ManagerTypeOK
  <2>2. Stages'
    BY <1>1 DEF RegisterServer, Stages
  <2>3. OnlyLateServersOutlive'
    BY <1>1 DEF RegisterServer, OnlyLateServersOutlive, ManagerTypeOK, Running
  <2>4. DoneAfterTerminators'
    BY <1>1 DEF RegisterServer, DoneAfterTerminators, Pending
  <2> QED
    BY <2>1, <2>2, <2>3, <2>4
<1>2. CASE ServerDone(s)
  <2>1. ManagerTypeOK'
    BY <1>2 DEF ServerDone, ManagerTypeOK
  <2>2. Stages'
    BY <1>2 DEF ServerDone, Stages
  <2>3. OnlyLateServersOutlive'
    BY <1>2 DEF ServerDone, OnlyLateServersOutlive, ManagerTypeOK, Running
  <2>4. DoneAfterTerminators'
    BY <1>2 DEF ServerDone, DoneAfterTerminators, Pending
  <2> QED
    BY <2>1, <2>2, <2>3, <2>4
<1>3. CASE Panic(s)
  <2>1. ManagerTypeOK'
    BY <1>3 DEF Panic, BeginShutdown, ImmediateHammer, Hammer, ManagerTypeOK
  <2>2. Stages'
    BY <1>3 DEF Panic, BeginShutdown, ImmediateHammer, Hammer, Stages, ManagerTypeOK
  <2>3. OnlyLateServersOutlive'
    BY <1>3 DEF Panic, BeginShutdown, OnlyLateServersOutlive, ManagerTypeOK, Running
  <2>4. DoneAfterTerminators'
    BY <1>3 DEF Panic, BeginShutdown, ImmediateHammer, Hammer, DoneAfterTerminators, Pending
  <2> QED
    BY <2>1, <2>2, <2>3, <2>4
<1> QED
  BY <1>1, <1>2, <1>3 DEF Life

(* Signals, and what is registered for the shutdown and the termination.   *)
LEMMA ManagerInvRequest ==
  ASSUME ManagerInv, Request
  PROVE  ManagerInv'
<1> USE DEF ManagerInv, Terminated, ServersOver, WakeWaiter
<1>1. CASE RequestShutdown \/ DoImmediateHammer
  <2> USE <1>1 DEF RequestShutdown, DoImmediateHammer, BeginShutdown, ImmediateHammer, Hammer
  <2>1. ManagerTypeOK'
    BY DEF ManagerTypeOK
  <2>2. Stages'
    BY DEF Stages
  <2>3. OnlyLateServersOutlive'
    BY DEF OnlyLateServersOutlive, Running
  <2>4. DoneAfterTerminators'
    BY DEF DoneAfterTerminators, Pending
  <2> QED
    BY <2>1, <2>2, <2>3, <2>4
<1>2. ASSUME NEW r \in Runner, RunAtShutdown(r) PROVE ManagerInv'
  <2> USE <1>2 DEF RunAtShutdown
  <2>1. ManagerTypeOK'
    BY DEF ManagerTypeOK
  <2>2. Stages' /\ OnlyLateServersOutlive' /\ DoneAfterTerminators'
    BY DEF Stages, OnlyLateServersOutlive, Running, DoneAfterTerminators, Pending
  <2> QED
    BY <2>1, <2>2
<1>3. ASSUME NEW t \in Terminator, AddTerminator(t) PROVE ManagerInv'
  <2> USE <1>3 DEF AddTerminator
  <2>1. ManagerTypeOK'
    BY DEF ManagerTypeOK
  <2>2. Stages'
    BY DEF Stages
  <2>3. OnlyLateServersOutlive'
    BY DEF OnlyLateServersOutlive, Running
  <2>4. DoneAfterTerminators'
    BY DEF DoneAfterTerminators, Pending, Stages, ManagerTypeOK
  <2> QED
    BY <2>1, <2>2, <2>3, <2>4
<1> QED
  BY <1>1, <1>2, <1>3 DEF Request

(* The mop-up goroutine.                                                   *)
LEMMA ManagerInvMopUp ==
  ASSUME ManagerInv, MopUp
  PROVE  ManagerInv'
<1> USE DEF ManagerInv, Terminated, ServersOver, WakeWaiter
<1>1. CASE WaitForServers
  <2>1. ManagerTypeOK' /\ Stages' /\ DoneAfterTerminators'
    BY <1>1 DEF WaitForServers, ManagerTypeOK, Stages, DoneAfterTerminators, Pending
  <2>2. OnlyLateServersOutlive'
    BY <1>1 DEF WaitForServers, ServersEnded, OnlyLateServersOutlive, Running
  <2> QED
    BY <2>1, <2>2
<1>2. CASE HammerAtLast
  <2>1. ManagerTypeOK' /\ Stages'
    BY <1>2 DEF HammerAtLast, MopUpHammer, Hammer, ManagerTypeOK, Stages
  <2>2. OnlyLateServersOutlive' /\ DoneAfterTerminators'
    BY <1>2 DEF HammerAtLast, MopUpHammer, Hammer, OnlyLateServersOutlive, Running,
                DoneAfterTerminators, Pending
  <2> QED
    BY <2>1, <2>2
<1>3. CASE DoTerminate
  <2>1. ManagerTypeOK' /\ Stages'
    BY <1>3 DEF DoTerminate, ManagerTypeOK, Stages
  <2>2. OnlyLateServersOutlive' /\ DoneAfterTerminators'
    BY <1>3 DEF DoTerminate, OnlyLateServersOutlive, Running, DoneAfterTerminators, Stages
  <2> QED
    BY <2>1, <2>2
<1>4. CASE WaitForTerminate
  <2>1. ManagerTypeOK' /\ Stages'
    BY <1>4 DEF WaitForTerminate, ManagerTypeOK, Stages
  <2>2. OnlyLateServersOutlive' /\ DoneAfterTerminators'
    BY <1>4 DEF WaitForTerminate, TerminatorsEnded, OnlyLateServersOutlive, Running,
                DoneAfterTerminators, Pending
  <2> QED
    BY <2>1, <2>2
<1> QED
  BY <1>1, <1>2, <1>3, <1>4 DEF MopUp

(* The other goroutines of the manager.                                    *)
LEMMA ManagerInvManager ==
  ASSUME ManagerInv, Manager
  PROVE  ManagerInv'
<1> USE DEF ManagerInv, Terminated, ServersOver, WakeWaiter
<1>1. CASE CloseShutdown
  <2>1. ManagerTypeOK'
    BY <1>1, ConstantsAssumption DEF CloseShutdown, LaunchHooks, ManagerTypeOK
  <2>2. Stages' /\ OnlyLateServersOutlive' /\ DoneAfterTerminators'
    BY <1>1 DEF CloseShutdown, Stages, OnlyLateServersOutlive, DoneAfterTerminators
  <2> QED
    BY <2>1, <2>2
<1>2. CASE HammerTime
  <2>1. ManagerTypeOK' /\ Stages'
    BY <1>2 DEF HammerTime, Hammer, ManagerTypeOK, Stages
  <2>2. OnlyLateServersOutlive' /\ DoneAfterTerminators'
    BY <1>2 DEF HammerTime, Hammer, OnlyLateServersOutlive, Running, DoneAfterTerminators, Pending
  <2> QED
    BY <2>1, <2>2
<1>3. ASSUME NEW r \in Runner, CancelRunner(r) PROVE ManagerInv'
  <2>1. ManagerTypeOK'
    BY <1>3 DEF CancelRunner, ManagerTypeOK
  <2>2. Stages' /\ OnlyLateServersOutlive' /\ DoneAfterTerminators'
    BY <1>3 DEF CancelRunner, Stages, OnlyLateServersOutlive, Running, DoneAfterTerminators, Pending
  <2> QED
    BY <2>1, <2>2
<1>4. ASSUME NEW t \in Terminator, ListTerminator(t) \/ TerminatorDone(t) PROVE ManagerInv'
  <2> USE <1>4 DEF ListTerminator, TerminatorDone
  <2>1. ManagerTypeOK'
    BY DEF ManagerTypeOK
  <2>2. Stages' /\ OnlyLateServersOutlive'
    BY DEF Stages, OnlyLateServersOutlive, Running
  <2>3. DoneAfterTerminators'
    BY DEF DoneAfterTerminators, Pending, ManagerTypeOK
  <2> QED
    BY <2>1, <2>2, <2>3
<1> QED
  BY <1>1, <1>2, <1>3, <1>4, ManagerInvMopUp DEF Manager

LEMMA ManagerInvNext == ManagerInv /\ [Next]_vars => ManagerInv'
<1> SUFFICES ASSUME ManagerInv, [Next]_vars PROVE ManagerInv'
  OBVIOUS
<1>1. CASE Next
  BY <1>1, ManagerInvLife, ManagerInvRequest, ManagerInvManager DEF Next
<1>2. CASE UNCHANGED vars
  BY <1>2 DEF vars, ManagerInv, ManagerTypeOK, Stages, OnlyLateServersOutlive, Running,
              DoneAfterTerminators, Pending, Terminated, ServersOver
<1> QED
  BY <1>1, <1>2

-----------------------------------------------------------------------------
(* The invariant of the manager: types and stages, and the two properties  *)
(* below (manager.go:132-194).                                             *)
THEOREM ManagerSafe == Spec => []ManagerInv
BY ManagerInvInit, ManagerInvNext, PTL DEF Spec

(* No server outlives WaitForServers but one that registered after it.     *)
THEOREM ServersStopFirst == Spec => []OnlyLateServersOutlive
<1>1. ManagerInv => OnlyLateServersOutlive
  BY DEF ManagerInv
<1> QED
  BY <1>1, ManagerSafe, PTL

(* The manager is done after every function given to RunAtTerminate, but   *)
(* those added when it was.                                                *)
THEOREM TerminatorsRunFirst == Spec => []DoneAfterTerminators
<1>1. ManagerInv => DoneAfterTerminators
  BY DEF ManagerInv
<1> QED
  BY <1>1, ManagerSafe, PTL

(* Every step closes one context in the order of the promise, is an early  *)
(* hammer that was asked for, or leaves the contexts alone.                *)
LEMMA PromiseStep == ManagerInv /\ [Next]_vars => [Promise!Next]_<< closed, early >>
<1> SUFFICES ASSUME ManagerInv, [Next]_vars PROVE Promise!Next \/ UNCHANGED << closed, early >>
  OBVIOUS
<1> USE DEF ManagerInv, Terminated, ServersOver
<1>1. ASSUME Hammer, UNCHANGED early, "shutdown" \in closed
      PROVE  Promise!Next \/ UNCHANGED << closed, early >>
  <2>1. CASE "hammer" \in closed
    BY <1>1, <2>1 DEF Hammer
  <2>2. CASE "hammer" \notin closed
    <3>1. Promise!Close("hammer")
      BY <1>1, <2>2 DEF Hammer, Promise!Close, Promise!Before
    <3> QED
      BY <3>1 DEF Promise!Next, Promise!Context
  <2> QED
    BY <2>1, <2>2
<1>2. ASSUME ImmediateHammer PROVE Promise!Next \/ UNCHANGED << closed, early >>
  <2>1. CASE "shutdown" \in closed
    <3>1. early' = early
      BY <1>2, <2>1 DEF ImmediateHammer, ManagerTypeOK
    <3> QED
      BY <1>1, <1>2, <2>1, <3>1 DEF ImmediateHammer
  <2>2. CASE "shutdown" \notin closed
    <3>1. Promise!HammerEarly
      BY <1>2, <2>2 DEF ImmediateHammer, Hammer, Promise!HammerEarly
    <3> QED
      BY <3>1 DEF Promise!Next
  <2> QED
    BY <2>1, <2>2
<1>3. CASE CloseShutdown
  <2>1. Promise!Close("shutdown")
    BY <1>3 DEF CloseShutdown, Stages, Promise!Close, Promise!Before
  <2> QED
    BY <2>1 DEF Promise!Next, Promise!Context
<1>4. CASE DoTerminate
  <2>1. Promise!Close("terminate")
    BY <1>4 DEF DoTerminate, Stages, Promise!Close, Promise!Before
  <2> QED
    BY <2>1 DEF Promise!Next, Promise!Context
<1>5. CASE WaitForTerminate
  <2>1. CASE TerminatorsEnded /\ mopUp' = "end" /\ closed' = closed \cup {"manager"}
    <3>1. Promise!Close("manager")
      BY <1>5, <2>1 DEF WaitForTerminate, Stages, Promise!Close, Promise!Before
    <3> QED
      BY <3>1 DEF Promise!Next, Promise!Context
  <2>2. CASE UNCHANGED closed
    BY <1>5, <2>2 DEF WaitForTerminate
  <2> QED
    BY <1>5, <2>1, <2>2 DEF WaitForTerminate
<1>6. CASE HammerTime \/ HammerAtLast
  <2>1. "shutdown" \in closed
    BY <1>6 DEF HammerTime, HammerAtLast, Stages
  <2> QED
    BY <1>1, <1>6, <2>1 DEF HammerTime, HammerAtLast, MopUpHammer
<1>7. CASE RequestShutdown \/ DoImmediateHammer
  BY <1>2, <1>7 DEF RequestShutdown, DoImmediateHammer, BeginShutdown
<1>8. ASSUME NEW s \in Server, Life(s) PROVE Promise!Next \/ UNCHANGED << closed, early >>
  BY <1>2, <1>8 DEF Life, RegisterServer, ServerDone, Panic, BeginShutdown
<1>9. CASE UNCHANGED vars \/ WaitForServers
  BY <1>9 DEF vars, WaitForServers
<1>10. ASSUME NEW r \in Runner, RunAtShutdown(r) \/ CancelRunner(r) PROVE UNCHANGED << closed, early >>
  BY <1>10 DEF RunAtShutdown, CancelRunner
<1>11. ASSUME NEW t \in Terminator, AddTerminator(t) \/ ListTerminator(t) \/ TerminatorDone(t)
       PROVE  UNCHANGED << closed, early >>
  BY <1>11 DEF AddTerminator, ListTerminator, TerminatorDone
<1> QED
  BY <1>3, <1>4, <1>5, <1>6, <1>7, <1>8, <1>9, <1>10, <1>11 DEF Next, Request, Manager, MopUp

(* The contexts keep the promise of Lifecycle: those who watch them may    *)
(* rely on the order in which they close (manager.go:201-220).             *)
THEOREM OrderKept == Spec => ImplementsLifecycle
<1>1. Init => Promise!Init
  BY DEF Init, Promise!Init
<1> QED
  BY <1>1, ManagerSafe, PromiseStep, PTL DEF Spec, ImplementsLifecycle, Promise!Spec

(***************************************************************************)
(* The server with its manager.                                            *)
(***************************************************************************)
LEMMA ListenerServes == Listener \in Server /\ Listener \notin Runner
BY ListenerAssumption, ConstantsAssumption DEF Server

(* Every step of the composed system is a step of the manager, or none.    *)
LEMMA ServerStep ==
  ASSUME [ServerNext]_allVars
  PROVE  [Next]_vars
<1>1. ASSUME Alive, Serve PROVE [Next]_vars
  <2> USE <1>1 DEF Alive
  <2>1. CASE Register
    BY <2>1, ListenerServes DEF Register, Next, Life
  <2>2. CASE Return
    BY <2>2, ListenerServes DEF Return, Next, Life
  <2>3. CASE SetRunning \/ Accept \/ AcceptFails \/ Wait \/ WakeUp \/ SetTerminated
    BY <2>3 DEF SetRunning, Accept, AcceptFails, Wait, WakeUp, SetTerminated
  <2> QED
    BY <1>1, <2>1, <2>2, <2>3 DEF Serve
<1>2. ASSUME Await \/ CloseConn PROVE UNCHANGED vars
  BY <1>2 DEF Await, CloseConn, AwaitShutdown, AwaitHammer, CloseListener, AwaitHammerAgain, DoHammer
<1>3. ASSUME Alive, ManagerStep PROVE Next
  BY <1>3 DEF Alive, ManagerStep, Next
<1>4. CASE UNCHANGED allVars
  BY <1>4 DEF allVars
<1> QED
  BY <1>1, <1>2, <1>3, <1>4 DEF ServerNext

(* The composed system implements its manager.                             *)
THEOREM ServerImplementsManager == ServerSpec => Spec
<1>1. ServerInit => Init
  BY DEF ServerInit
<1> QED
  BY <1>1, ServerStep, PTL DEF ServerSpec, Spec

(* No server outlives WaitForServers but one that registered after it.     *)
THEOREM ServersStopFirstHere == ServerSpec => []OnlyLateServersOutlive
BY ServerImplementsManager, ServersStopFirst, PTL

(* The process does not end before the functions given to RunAtTerminate.  *)
THEOREM TerminatorsRunFirstHere == ServerSpec => []DoneAfterTerminators
BY ServerImplementsManager, TerminatorsRunFirst, PTL

(* The contexts close in the promised order.                               *)
THEOREM OrderKeptHere == ServerSpec => ImplementsLifecycle
BY ServerImplementsManager, OrderKept, PTL

-----------------------------------------------------------------------------
(* No context is ever undone.                                              *)
LEMMA ClosedGrows ==
  ASSUME ManagerInv, [Next]_vars
  PROVE  closed \subseteq closed'
<1>1. [Promise!Next]_<< closed, early >>
  BY PromiseStep
<1> QED
  BY <1>1 DEF Promise!Next, Promise!Close, Promise!HammerEarly

LEMMA ServerInvInit == ServerInit => ServerInv
<1> SUFFICES ASSUME ServerInit PROVE ServerInv
  OBVIOUS
<1>1. ManagerTypeOK
  BY ManagerInvInit DEF ServerInit, ManagerInv
<1>2. TypeOK
  BY <1>1, ListenerAssumption DEF ServerInit, TypeOK, AwaitPC, ServePC
<1>3. CountBounds /\ BeforeHammer /\ ConnectionsServed /\ CountNeedsNoHammer
  BY DEF ServerInit, Init, CountBounds, Hammered, BeforeHammer, ConnectionsServed, CountNeedsNoHammer
<1> QED
  BY <1>2, <1>3 DEF ServerInv

(* What a step of the server does to its own part of the invariant, the    *)
(* manager's part being known.                                             *)
LEMMA ServerInvServe ==
  ASSUME ServerInv, ManagerTypeOK', closed \subseteq closed', Serve
  PROVE  ServerInv'
<1> USE DEF ServerInv, Hammered
<1> USE ListenerAssumption
<1>1. CASE SetRunning \/ SetTerminated \/ AcceptFails \/ Wait \/ WakeUp
  <2> USE <1>1 DEF SetRunning, SetTerminated, AcceptFails, Wait, WakeUp
  <2>0. closed' = closed
    BY DEF vars
  <2>1. TypeOK'
    BY DEF TypeOK, ServePC
  <2>2. CountBounds'
    BY DEF CountBounds
  <2>3. BeforeHammer' /\ ConnectionsServed' /\ CountNeedsNoHammer'
    BY <2>0 DEF BeforeHammer, ConnectionsServed, CountNeedsNoHammer
  <2> QED
    BY <2>1, <2>2, <2>3
<1>2. CASE Register \/ Return
  <2> USE <1>2 DEF Register, Return
  <2>1. TypeOK'
    BY DEF TypeOK, ServePC
  <2>2. CountBounds'
    BY DEF CountBounds
  <2>3. BeforeHammer' /\ ConnectionsServed' /\ CountNeedsNoHammer'
    BY DEF BeforeHammer, ConnectionsServed, CountNeedsNoHammer
  <2> QED
    BY <2>1, <2>2, <2>3
<1>3. CASE Accept
  <2> USE <1>3 DEF Accept, Count
  <2>0. closed' = closed
    BY DEF vars
  <2>1. TypeOK'
    BY DEF TypeOK, CountBounds
  <2>2. CountBounds'
    BY DEF CountBounds, TypeOK
  <2>3. BeforeHammer' /\ ConnectionsServed' /\ CountNeedsNoHammer'
    BY <2>0 DEF BeforeHammer, ConnectionsServed, CountNeedsNoHammer, TypeOK
  <2> QED
    BY <2>1, <2>2, <2>3
<1> QED
  BY <1>1, <1>2, <1>3 DEF Serve

LEMMA ServerInvCloseConn ==
  ASSUME ServerInv, ManagerTypeOK', CloseConn
  PROVE  ServerInv'
<1> USE DEF ServerInv, Hammered, CloseConn, Done
<1> USE ListenerAssumption
<1>1. closed' = closed
  BY DEF vars
<1>2. CountBounds'
  BY DEF CountBounds, TypeOK
<1>3. TypeOK'
  BY <1>2 DEF TypeOK, ServePC, AwaitPC, CountBounds
<1>4. BeforeHammer' /\ ConnectionsServed' /\ CountNeedsNoHammer'
  BY <1>1 DEF BeforeHammer, ConnectionsServed, CountNeedsNoHammer, TypeOK
<1> QED
  BY <1>2, <1>3, <1>4

LEMMA ServerInvAwait ==
  ASSUME ServerInv, ManagerTypeOK', Await
  PROVE  ServerInv'
<1> USE DEF ServerInv, Hammered
<1> USE ListenerAssumption
<1>1. closed' = closed
  BY DEF Await, AwaitShutdown, AwaitHammer, CloseListener, AwaitHammerAgain, DoHammer, vars
<1>2. CASE AwaitShutdown \/ AwaitHammer \/ CloseListener \/ AwaitHammerAgain
  <2> USE <1>2 DEF AwaitShutdown, AwaitHammer, CloseListener, AwaitHammerAgain, AfterShutdown, HammerSeen
  <2>1. CountBounds'
    BY DEF CountBounds, TypeOK
  <2>2. TypeOK'
    BY DEF TypeOK, AwaitPC
  <2>3. BeforeHammer' /\ ConnectionsServed' /\ CountNeedsNoHammer'
    BY <1>1 DEF BeforeHammer, ConnectionsServed, CountNeedsNoHammer
  <2> QED
    BY <2>1, <2>2, <2>3
<1>3. CASE DoHammer
  <2> USE <1>3 DEF DoHammer, Done, Exhausted, AfterHammer
  <2>1. CountBounds'
    BY DEF CountBounds, TypeOK
  <2>2. TypeOK'
    BY <2>1 DEF TypeOK, AwaitPC, ServePC, CountBounds
  <2>3. BeforeHammer' /\ ConnectionsServed' /\ CountNeedsNoHammer'
    BY <1>1 DEF BeforeHammer, ConnectionsServed, CountNeedsNoHammer
  <2> QED
    BY <2>1, <2>2, <2>3
<1> QED
  BY <1>2, <1>3 DEF Await

LEMMA ServerInvNext ==
  ManagerInv /\ ServerInv /\ [ServerNext]_allVars => ServerInv'
<1> SUFFICES ASSUME ManagerInv, ServerInv, [ServerNext]_allVars PROVE ServerInv'
  OBVIOUS
<1>1. ManagerTypeOK' /\ closed \subseteq closed'
  BY ServerStep, ManagerInvNext, ClosedGrows DEF ManagerInv
<1>2. CASE ManagerStep \/ UNCHANGED allVars
  <2> USE <1>1, <1>2 DEF ManagerStep, allVars, server, ServerInv, Hammered
  <2>1. TypeOK' /\ CountBounds'
    BY DEF TypeOK, CountBounds
  <2>2. BeforeHammer' /\ ConnectionsServed' /\ CountNeedsNoHammer'
    BY DEF BeforeHammer, ConnectionsServed, CountNeedsNoHammer
  <2> QED
    BY <2>1, <2>2
<1> QED
  BY <1>1, <1>2, ServerInvServe, ServerInvCloseConn, ServerInvAwait DEF ServerNext

(* The invariant of the server, with the manager's.                        *)
THEOREM ServerSafe == ServerSpec => []ServerInv
<1>1. ServerSpec => []ManagerInv
  BY ServerImplementsManager, ManagerSafe, PTL
<1> QED
  BY <1>1, ServerInvInit, ServerInvNext, PTL DEF ServerSpec

(* Types, and the counter of connections within its bounds although it may *)
(* fall below zero.                                                        *)
THEOREM TypeCorrect == ServerSpec => []TypeOK
<1>1. ServerInv => TypeOK
  BY DEF ServerInv
<1> QED
  BY <1>1, ServerSafe, PTL

(* Serve does not return before its connections are closed, but for the    *)
(* hammer (server.go:168-177).                                             *)
THEOREM ConnectionsServedAlways == ServerSpec => []ConnectionsServed
<1>1. ServerInv => ConnectionsServed
  BY DEF ServerInv
<1> QED
  BY <1>1, ServerSafe, PTL

(* The counter is the number of connections, and Serve does not panic,     *)
(* until the hammer (server_hooks.go:50-72).                               *)
THEOREM CountExact == ServerSpec => []CountNeedsNoHammer
<1>1. ServerInv => CountNeedsNoHammer
  BY DEF ServerInv
<1> QED
  BY <1>1, ServerSafe, PTL
===============================================================================
