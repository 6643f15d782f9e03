------------------------------- MODULE MCPulls -------------------------------
(* Instances of Pulls for TLC. *)
EXTENDS Pulls

CONSTANTS c1, c2

(* The second commit conflicts with the base branch after its first push. *)
SomeConflicts == {<<c2, 1>>}

Set(protected, autodetect, persistent) ==
  [protected |-> protected, autodetect |-> autodetect, persistent |-> persistent]
TwoConfigs == {Set(TRUE, FALSE, TRUE), Set(FALSE, TRUE, FALSE)}
=============================================================================
