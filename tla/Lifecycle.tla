------------------------------ MODULE Lifecycle ------------------------------
(***************************************************************************)
(* What the graceful manager promises to the components that watch its     *)
(* contexts (modules/graceful/manager.go:201-220, 275-278): a context that *)
(* is done stays done, and "the order of closure is IsShutdown, IsHammer   *)
(* (potentially), IsTerminate", with the manager's own last.  The comment  *)
(* knows no exception, the code has one: whoever asks for an immediate     *)
(* hammer (SIGUSR2, or a second request while the first is on its way to   *)
(* close the shutdown) gets it before the shutdown (graceful_order.cfg);   *)
(* the timer, the mop-up goroutine and a panic do not.                     *)
(***************************************************************************)
VARIABLES
  closed,    \* the contexts that are done
  early      \* an immediate hammer was asked for before the shutdown

Context == {"shutdown", "hammer", "terminate", "manager"}

(* The contexts that are done before another is.                           *)
Before ==
  [ shutdown  |-> {},
    hammer    |-> {"shutdown"},
    terminate |-> {"shutdown", "hammer"},
    manager   |-> {"shutdown", "hammer", "terminate"} ]

Init == closed = {} /\ early = FALSE

Close(c) ==
  /\ c \notin closed
  /\ Before[c] \subseteq closed
  /\ closed' = closed \cup {c}
  /\ UNCHANGED early

HammerEarly ==
  /\ "shutdown" \notin closed
  /\ closed' = closed \cup {"hammer"}
  /\ early' = TRUE

Next == HammerEarly \/ \E c \in Context : Close(c)

Spec == Init /\ [][Next]_<< closed, early >>
==============================================================================
