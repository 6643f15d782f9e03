------------------------------ MODULE WorkQueue ------------------------------
(***************************************************************************)
(* What a queue of Gitea promises to the code that pushes to it, whatever  *)
(* goroutines, channels and base queues are behind it (modules/queue,      *)
(* queue.go:6-49): an accepted item is pending until its handler has       *)
(* accepted it; an administrator may remove pending items; an item may be  *)
(* given up, and nothing that is finished ever becomes pending again.      *)
(* WorkerPoolQueue is shown to implement this specification.               *)
(***************************************************************************)
CONSTANT Item

VARIABLE fate      \* what has become of each item

Init == fate = [x \in Item |-> "new"]

(* The push of x is accepted. *)
Accept(x) ==
  /\ fate[x] = "new"
  /\ fate' = [fate EXCEPT ![x] = "pending"]

(* The items S, all pending, leave the queue together and for good. *)
Finish(S, outcome) ==
  /\ S # {}
  /\ \A x \in S : fate[x] = "pending"
  /\ fate' = [x \in Item |-> IF x \in S THEN outcome ELSE fate[x]]

Next ==
  \/ \E x \in Item : Accept(x)
  \/ \E S \in SUBSET Item, outcome \in {"handled", "removed", "lost"} : Finish(S, outcome)

Spec == Init /\ [][Next]_fate
==============================================================================
