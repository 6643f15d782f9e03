----------------------------- MODULE MCActionRun -----------------------------
(* Instances of ActionRun for TLC. *)
EXTENDS ActionRun, TLC

CONSTANTS a, b, c, d

(* Two jobs, the second needs the first; three, the last needs both others. *)
Chain == a :> {} @@ b :> {a}
Fan   == a :> {} @@ b :> {a} @@ c :> {a, b}
(* d needs two others, of which the first needs a. *)
Deep  == a :> {} @@ b :> {a} @@ c :> {} @@ d :> {b, c}
Three == INSTANCE ActionRun WITH Job <- {a, b, c}, Needs <- Fan

(* The passes of jobStatusResolver.Resolve as the code makes them: as many *)
(* as there are jobs, each over the statuses the one before has left.      *)
ResolveOnce(st) ==
  [j \in DOMAIN st |->
    IF st[j] = "blocked" /\ \A n \in Fan[j] : st[n] \in Done
    THEN IF \A n \in Fan[j] : st[n] = "success" THEN "waiting" ELSE "skipped"
    ELSE st[j]]
ResolvePasses(st) == ResolveOnce(ResolveOnce(ResolveOnce(st)))

(* They compute what Emit uses, whatever the statuses are. *)
ASSUME ResolveIsFixpoint ==
  \A st \in [{a, b, c} -> JobStatus] :
    LET jobs == [j \in {a, b, c} |-> [status |-> st[j], task |-> None]]
    IN  \A j \in {a, b, c} : Three!Resolve(jobs)[j].status = ResolvePasses(st)[j]

Symmetric == Permutations(Task) \cup Permutations(Server)
=============================================================================
