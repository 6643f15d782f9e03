---------------------------- MODULE MCHookDelivery ----------------------------
(* Instances of HookDelivery for TLC. *)
EXTENDS HookDelivery, TLC

CONSTANTS h1, w1, w2

TwoProcesses == (w1 :> 1) @@ (w2 :> 2)
OneProcess   == (w1 :> 1) @@ (w2 :> 1)
==============================================================================
