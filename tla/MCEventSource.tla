---------------------------- MODULE MCEventSource ----------------------------
(* Instances of EventSource for TLC. *)
EXTENDS EventSource, TLC

CONSTANTS u1, c1, c2, s1

Owner == [x \in Client \cup Session |-> u1]

(* The first stream belongs to the session that is signed out. *)
FirstOfSession == (c1 :> s1) @@ (c2 :> None)
NoSession == [c \in Client |-> None]
==============================================================================
