------------------------------ MODULE BaseQueue ------------------------------
(***************************************************************************)
(* modules/queue/base.go, config.go: what every base queue has.  It keeps  *)
(* data that are pushed and popped, up to a length, and a goroutine or a   *)
(* node that has no call under way is idle.                                *)
(***************************************************************************)
EXTENDS Integers, FiniteSets, Sequences

CONSTANTS
  Item,     \* the data that is ever pushed
  Length    \* BaseConfig.Length

ASSUME LengthAssumption == Length \in Nat \ {0}

Idle == [step |-> "idle"]
==============================================================================
