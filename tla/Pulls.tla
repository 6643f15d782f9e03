-------------------------------- MODULE Pulls --------------------------------
(***************************************************************************)
(* services/pull and services/automerge: one pull request, the branches it *)
(* merges, and the goroutines that change its row: those a push starts     *)
(* (AddTestPullRequestTask), the workers of the pr_patch_checker and the   *)
(* pr_auto_merge queues, requests that merge it, schedule its merge, mark  *)
(* it as merged, close or reopen it, and those that report commit          *)
(* statuses.  A database statement, a git command and a queue operation    *)
(* are each one step; what a goroutine has read it keeps.                  *)
(***************************************************************************)
EXTENDS Integers, FiniteSets

CONSTANTS
  Commit,         \* bound: the commits the head branch ever points to
  Conflicts,      \* the pairs of such a commit and a version of the base branch that conflict
  Server,         \* goroutines; each runs one operation after the other
  Worker,         \* those of them that are workers of the two queues
  Config,         \* how the repository and the instance are set up
  Interventions,  \* bound: pushes, requests, reports and faults
  Faults,         \* bound: those that are crashes, errors, and races in the queue
  None

Verdict == {"mergeable", "conflict", "ancestor"}
Status  == Verdict \cup {"checking", "error", "manual"}
Row     == [status : Status, merged : Commit \cup {None}, closed : BOOLEAN]

ASSUME ConstantsAssumption ==
  /\ Conflicts \subseteq Commit \X Nat
  /\ Worker \subseteq Server
  /\ Config \subseteq [protected : BOOLEAN, autodetect : BOOLEAN, persistent : BOOLEAN]
  /\ Interventions \in Nat
  /\ Faults \in Nat
  /\ None \notin Commit \cup Server \cup Status \cup Row

VARIABLES
  config,         \* EnableStatusCheck, AutodetectManualMerge, queues that outlive the process
  head,           \* the head branch
  ref,            \* refs/pull/N/head in the base repository
  base,           \* the version of the base branch
  landed,         \* the version of the base branch that brought each commit, or 0
  pr,             \* the row of the pull request and of its issue
  scheduled,      \* it has a pull_auto_merge row
  passed,         \* the commits whose latest status is success
  testing,        \* it is in the pr_patch_checker queue
  stale,          \* the set of that queue has it, but the queue has not
  waking,         \* the commits it is in the pr_auto_merge queue with
  lock,           \* who holds it in pullWorkingPool
  tasks,          \* AddTestPullRequestTask goroutines to start: of the head, of the base branch
  starting,       \* InitializePullRequests has not run yet
  g,              \* what each goroutine is doing
  judged,         \* history: the head and the base the last verdict was reached for
  merges,         \* history: the commits landed by Merge
  lost,           \* history: an update was lost since the row was last set to checking
  stuck,          \* history: an error or a stale entry lost the test of a row set to checking
  torn,           \* history: a crash or an error hit a merge after its push, or SetMerged
  shut,           \* history: a user closed the pull request
  interventions, faults  \* counters of the bounds

git     == << head, ref, base, landed >>
queues  == << testing, stale, waking >>
history == << judged, merges, lost, stuck, torn, shut >>
bounds  == << interventions, faults >>
vars    == << config, git, pr, scheduled, passed, queues, lock, tasks, starting, g, history, bounds >>

Idle == [op |-> "none", pc |-> "idle", status |-> "checking", c |-> None, b |-> 0,
         expected |-> None, doer |-> "user", raced |-> FALSE]

Op == {"none", "update", "test", "merge", "auto", "schedule", "manual", "reopen", "report"}
Pc == {"idle", "pushref", "mark", "enqueue", "lock", "read", "detect", "fetch", "tracking", "fail", "has", "write",
       "check", "hook", "push", "setmerged", "save", "state", "insert", "compare", "open", "lookup"}
Doer == {"user", "pusher", "admin"}
Work == [op : Op, pc : Pc, status : Status, c : Commit \cup {None}, b : Nat,
         expected : Commit \cup {None}, doer : Doer, raced : BOOLEAN]

(* IsPullCommitStatusPass: of the commit the head branch has now. *)
Passes == config.protected => head \in passed

Init ==
  /\ config \in Config
  /\ head \in Commit
  /\ ref = head
  /\ base = 0
  /\ landed = [c \in Commit |-> 0]
  /\ pr = [status |-> "mergeable", merged |-> None, closed |-> FALSE]
  /\ <<head, 0>> \notin Conflicts
  /\ scheduled = FALSE
  /\ passed = {}
  /\ testing = FALSE /\ stale = FALSE
  /\ waking = {}
  /\ lock = None
  /\ tasks = [head |-> 0, base |-> 0]
  /\ starting = TRUE
  /\ g = [h \in Server |-> Idle]
  /\ judged = <<head, 0>>
  /\ merges = {}
  /\ lost = FALSE /\ stuck = FALSE /\ torn = FALSE /\ shut = FALSE
  /\ interventions = 0
  /\ faults = 0

-----------------------------------------------------------------------------
(* Building blocks. *)

At(h, op, pc) == g[h].op = op /\ g[h].pc = pc
Goto(h, pc)   == g' = [g EXCEPT ![h].pc = pc]
End(h)        == g' = [g EXCEPT ![h] = Idle]
Begin(h, op, pc) ==
  /\ g[h] = Idle
  /\ g' = [g EXCEPT ![h].op = op, ![h].pc = pc]

Intervene == interventions < Interventions /\ interventions' = interventions + 1 /\ UNCHANGED faults
Fault     == /\ interventions < Interventions /\ interventions' = interventions + 1
             /\ faults < Faults /\ faults' = faults + 1

(* pullWorkingPool.CheckIn, and the deferred CheckOut. *)
CheckIn(h) == lock = None /\ lock' = h
CheckOut   == lock' = None

MutSetStatus(s) == [pr EXCEPT !.status = s]

(* UpdateColsIfNotMerged("status"). *)
SetStatus(s) == IF pr.merged = None THEN [pr EXCEPT !.status = s] ELSE pr

(* The end of Merge: the deferred calls start a goroutine for the base     *)
(* branch and give back the lock.                                          *)
EndMerge(h) ==
  /\ tasks' = [tasks EXCEPT !.base = @ + 1]
  /\ CheckOut
  /\ End(h)

(* A merge that has been checked, and the commit it would land as it is.   *)
Racing(h)  == g[h].op \in {"merge", "auto"} /\ g[h].pc \in {"lock", "fetch", "tracking", "hook", "push"}
ToLand(h)  == IF g[h].pc \in {"hook", "push"} THEN g[h].c ELSE head

-----------------------------------------------------------------------------
(* Pushes.  Each starts an AddTestPullRequestTask. *)

(* A push, or a forced push, to the head branch. *)
PushHead(c) ==
  /\ Intervene
  /\ c # head
  /\ head' = c
  /\ tasks' = [tasks EXCEPT !.head = @ + 1]
  /\ g' = [h \in Server |-> [g[h] EXCEPT !.raced = @ \/ Racing(h)]]
  /\ UNCHANGED << config, ref, base, landed, pr, scheduled, passed, queues, lock, starting, history >>

(* A push to the base branch, which may bring the commit of the head branch. *)
PushBase ==
  /\ Intervene
  /\ base' = base + 1
  /\ \/ UNCHANGED landed
     \/ landed[head] = 0 /\ landed' = [landed EXCEPT ![head] = base + 1]
  /\ tasks' = [tasks EXCEPT !.base = @ + 1]
  /\ UNCHANGED << config, head, ref, pr, scheduled, passed, queues, lock, starting, g, history >>

MutStartUpdate(h, branch) ==
  /\ tasks[branch] > 0
  /\ tasks' = [tasks EXCEPT ![branch] = @ - 1]
  /\ IF pr.merged = None /\ ~pr.closed /\ pr.status # "checking"
     THEN /\ Begin(h, "update", IF branch = "head" THEN "pushref" ELSE "mark")
          /\ UNCHANGED lost
     ELSE /\ g[h] = Idle /\ UNCHANGED g
          /\ lost' = (lost \/ (pr.merged = None /\ pr.closed))
  /\ UNCHANGED << config, git, pr, scheduled, passed, queues, lock, starting, judged, merges, stuck, torn, shut, bounds >>

(* AddTestPullRequestTask finds only pull requests that are open and not   *)
(* merged.                                                                 *)
StartUpdate(h, branch) ==
  /\ tasks[branch] > 0
  /\ tasks' = [tasks EXCEPT ![branch] = @ - 1]
  /\ IF pr.merged = None /\ ~pr.closed
     THEN /\ Begin(h, "update", IF branch = "head" THEN "pushref" ELSE "mark")
          /\ UNCHANGED lost
     ELSE /\ g[h] = Idle /\ UNCHANGED g
          /\ lost' = (lost \/ pr.merged = None)
  /\ UNCHANGED << config, git, pr, scheduled, passed, queues, lock, starting, judged, merges, stuck, torn, shut, bounds >>

(* The query for them fails. *)
FindPullRequestsFails(branch) ==
  /\ tasks[branch] > 0
  /\ Fault
  /\ tasks' = [tasks EXCEPT ![branch] = @ - 1]
  /\ lost' = TRUE
  /\ UNCHANGED << config, git, pr, scheduled, passed, queues, lock, starting, g, judged, merges, stuck, torn, shut >>

(* PushToBaseRepo: a forced push of what the head branch points to.        *)
PushToBaseRepo(h) ==
  /\ At(h, "update", "pushref")
  /\ ref' = head
  /\ Goto(h, "mark")
  /\ UNCHANGED << config, head, base, landed, pr, scheduled, passed, queues, lock, tasks, starting, history, bounds >>

(* It fails: continue. *)
PushToBaseRepoFails(h) ==
  /\ At(h, "update", "pushref")
  /\ Fault
  /\ lost' = TRUE
  /\ End(h)
  /\ UNCHANGED << config, git, pr, scheduled, passed, queues, lock, tasks, starting, judged, merges, stuck, torn, shut >>

(* AddToTaskQueue: the row, then the queue. *)
Mark(h) ==
  /\ g[h].pc = "mark"
  /\ pr' = SetStatus("checking")
  /\ lost' = FALSE
  /\ Goto(h, "enqueue")
  /\ UNCHANGED << config, git, scheduled, passed, queues, lock, tasks, starting, judged, merges, stuck, torn, shut, bounds >>

AfterEnqueue(h) == IF g[h].op = "reopen" THEN Goto(h, "compare") ELSE End(h)

(* The update of the row fails, executed or not: the queue is not tried.   *)
MarkFails(h) ==
  /\ g[h].pc = "mark"
  /\ Fault
  /\ pr' \in {pr, SetStatus("checking")}
  /\ stuck' = (stuck \/ pr' # pr)
  /\ lost' = TRUE
  /\ AfterEnqueue(h)
  /\ UNCHANGED << config, git, scheduled, passed, queues, lock, tasks, starting, judged, merges, torn, shut >>

(* Push: ErrAlreadyInQueue is taken for success, whether the pull request  *)
(* is in the queue or only in its set.                                     *)
Enqueue(h) ==
  /\ g[h].pc = "enqueue"
  /\ testing' = (testing \/ ~stale)
  /\ stuck' = (stuck \/ stale)
  /\ lost' = (lost \/ stale)
  /\ AfterEnqueue(h)
  /\ UNCHANGED << config, git, pr, scheduled, passed, stale, waking, lock, tasks, starting, judged, merges, torn, shut, bounds >>

(* A push that fails in redis may leave its entry in the set.              *)
LeftBehind == UNCHANGED stale \/ (config.persistent /\ ~testing /\ stale' = TRUE)

EnqueueFails(h) ==
  /\ g[h].pc = "enqueue"
  /\ Fault
  /\ LeftBehind
  /\ stuck' = (stuck \/ ~testing)
  /\ lost' = (lost \/ ~testing)
  /\ AfterEnqueue(h)
  /\ UNCHANGED << config, git, pr, scheduled, passed, testing, waking, lock, tasks, starting, judged, merges, torn, shut >>

-----------------------------------------------------------------------------
(* testPR, in a worker of pr_patch_checker. *)

TakeTest(w) ==
  /\ testing
  /\ testing' = FALSE
  /\ Begin(w, "test", "lock")
  /\ UNCHANGED << config, git, pr, scheduled, passed, stale, waking, lock, tasks, starting, history, bounds >>

(* The entry of the set outlives the item: the popper of the channel came  *)
(* before the push had made it, or redis has failed to take it back.       *)
TakeTestOnly(w) ==
  /\ testing
  /\ Fault
  /\ testing' = FALSE /\ stale' = TRUE
  /\ Begin(w, "test", "lock")
  /\ UNCHANGED << config, git, pr, scheduled, passed, waking, lock, tasks, starting, history >>

(* LPOP has taken the item, but its answer is lost, and PopItem tries again.*)
PopFails ==
  /\ testing /\ config.persistent
  /\ Fault
  /\ testing' = FALSE /\ stale' = TRUE
  /\ stuck' = TRUE
  /\ lost' = TRUE
  /\ UNCHANGED << config, git, pr, scheduled, passed, waking, lock, tasks, starting, g, judged, merges, torn, shut >>

LockTest(w) ==
  /\ At(w, "test", "lock")
  /\ CheckIn(w)
  /\ Goto(w, "read")
  /\ UNCHANGED << config, git, pr, scheduled, passed, queues, tasks, starting, history, bounds >>

ReadTest(w) ==
  /\ At(w, "test", "read")
  /\ IF pr.merged # None
     THEN CheckOut /\ End(w)
     ELSE Goto(w, "detect") /\ UNCHANGED lock
  /\ UNCHANGED << config, git, pr, scheduled, passed, queues, tasks, starting, history, bounds >>

(* manuallyMerged: getMergeCommit looks at refs/pull/N/head. *)
Detect(w) ==
  /\ At(w, "test", "detect")
  /\ IF config.autodetect /\ landed[ref] > 0
     THEN g' = [g EXCEPT ![w].pc = "setmerged", ![w].status = "manual", ![w].c = ref]
     ELSE Goto(w, "fetch")
  /\ UNCHANGED << config, git, pr, scheduled, passed, queues, lock, tasks, starting, history, bounds >>

(* createTemporaryRepoForPR, in a test and in a merge: two git commands    *)
(* fetch the base branch, and then the head branch.                        *)
FetchBase(h) ==
  /\ g[h].pc = "fetch"
  /\ g' = [g EXCEPT ![h].pc = "tracking", ![h].b = base]
  /\ UNCHANGED << config, git, pr, scheduled, passed, queues, lock, tasks, starting, history, bounds >>

VerdictOf(c, b) ==
  IF landed[c] \in 1..b THEN "ancestor" ELSE IF <<c, b>> \in Conflicts THEN "conflict" ELSE "mergeable"

TestPatch(w) ==
  /\ At(w, "test", "tracking")
  /\ g' = [g EXCEPT ![w].pc = "has", ![w].c = head, ![w].status = VerdictOf(head, g[w].b)]
  /\ UNCHANGED << config, git, pr, scheduled, passed, queues, lock, tasks, starting, history, bounds >>

TestPatchFails(w) ==
  /\ g[w].op = "test" /\ g[w].pc \in {"fetch", "tracking"}
  /\ Fault
  /\ Goto(w, "fail")
  /\ UNCHANGED << config, git, pr, scheduled, passed, queues, lock, tasks, starting, history >>

(* pr.UpdateCols("status"), merged or not. *)
WriteError(w) ==
  /\ At(w, "test", "fail")
  /\ pr' = [pr EXCEPT !.status = "error"]
  /\ CheckOut
  /\ End(w)
  /\ UNCHANGED << config, git, scheduled, passed, queues, tasks, starting, history, bounds >>

(* checkAndUpdateStatus: nothing is written when a new test waits, or when *)
(* the set of the queue says so; an error counts as no.                    *)
HasTest(w) ==
  /\ At(w, "test", "has")
  /\ IF testing \/ stale THEN CheckOut /\ End(w) ELSE Goto(w, "write") /\ UNCHANGED lock
  /\ stuck' = (stuck \/ (stale /\ ~testing))
  /\ lost' = (lost \/ (stale /\ ~testing))
  /\ UNCHANGED << config, git, pr, scheduled, passed, queues, tasks, starting, judged, merges, torn, shut, bounds >>

HasTestFails(w) ==
  /\ At(w, "test", "has")
  /\ Fault
  /\ Goto(w, "write")
  /\ UNCHANGED << config, git, pr, scheduled, passed, queues, lock, tasks, starting, history >>

WriteVerdict(w) ==
  /\ At(w, "test", "write")
  /\ pr' = SetStatus(g[w].status)
  /\ judged' = IF pr.merged = None THEN <<g[w].c, g[w].b>> ELSE judged
  /\ CheckOut
  /\ End(w)
  /\ UNCHANGED << config, git, scheduled, passed, queues, tasks, starting, merges, lost, stuck, torn, shut, bounds >>

(* The row cannot be read, or the end of the test not be written.          *)
TestGivesUp(w) ==
  /\ g[w].op = "test" /\ g[w].pc \in {"read", "fail", "write"}
  /\ Fault
  /\ stuck' = TRUE
  /\ lost' = TRUE
  /\ CheckOut
  /\ End(w)
  /\ UNCHANGED << config, git, pr, scheduled, passed, queues, tasks, starting, judged, merges, torn, shut >>

-----------------------------------------------------------------------------
(* Requests that merge, and Merge. *)

(* On a protected branch: the pre-receive hook does not check a doer who   *)
(* may push to it, nor an administrator, and an administrator can force a  *)
(* merge.  One who does not is a pusher here.                              *)
Doers == IF config.protected THEN Doer ELSE {"user"}

Ready == pr.merged = None /\ ~pr.closed /\ pr.status = "mergeable"

(* MergePullRequest: the pull request as the request reads it passes what  *)
(* CheckPullMergable asks of its row; the page had a head commit or none.  *)
StartMerge(h, doer, expected) ==
  /\ Intervene
  /\ Ready
  /\ g[h] = Idle
  /\ g' = [g EXCEPT ![h] = [Idle EXCEPT !.op = "merge", !.pc = "check", !.status = "mergeable",
                                        !.doer = doer, !.expected = expected]]
  /\ UNCHANGED << config, git, pr, scheduled, passed, queues, lock, tasks, starting, history >>

(* CheckPullBranchProtections. *)
CheckPullMergable(h) ==
  /\ g[h].pc = "check"
  /\ IF Passes \/ g[h].doer = "admin" THEN Goto(h, "lock") ELSE End(h)
  /\ UNCHANGED << config, git, pr, scheduled, passed, queues, lock, tasks, starting, history, bounds >>

(* Merge does not read the row again. *)
LockMerge(h) ==
  /\ g[h].pc = "lock" /\ g[h].op \in {"merge", "auto"}
  /\ CheckIn(h)
  /\ scheduled' = FALSE
  /\ Goto(h, "fetch")
  /\ UNCHANGED << config, git, pr, passed, queues, tasks, starting, history, bounds >>

(* createTemporaryRepoForMerge and doMerge...: when the base branch already *)
(* has the commit there is nothing to commit, which is an error, or, in a  *)
(* rebase, nothing to push.                                                *)
FetchMerge(h) ==
  /\ g[h].pc = "tracking" /\ g[h].op \in {"merge", "auto"}
  /\ \/ /\ \/ g[h].expected \notin {None, head}
           \/ VerdictOf(head, g[h].b) \in {"conflict", "ancestor"}
        /\ EndMerge(h)
     \/ /\ g[h].expected \in {None, head}
        /\ \E pc \in {"hook", "setmerged"} :
             /\ IF pc = "hook" THEN VerdictOf(head, g[h].b) = "mergeable"
                               ELSE VerdictOf(head, g[h].b) = "ancestor" /\ base = g[h].b
             /\ g' = [g EXCEPT ![h].c = head, ![h].pc = pc, ![h].raced = @ /\ g[h].doer # "user"]
        /\ UNCHANGED << tasks, lock >>
  /\ UNCHANGED << config, git, pr, scheduled, passed, queues, starting, history, bounds >>

MutPreReceive(h) ==
  /\ g[h].pc = "hook"
  /\ Goto(h, "push")
  /\ UNCHANGED << config, git, pr, scheduled, passed, queues, lock, tasks, starting, history, bounds >>

(* The pre-receive hook checks the protection again, of a doer who is not  *)
(* let through.                                                            *)
PreReceive(h) ==
  /\ g[h].pc = "hook"
  /\ IF Passes \/ g[h].doer # "user"
     THEN Goto(h, "push") /\ UNCHANGED << tasks, lock >>
     ELSE EndMerge(h)
  /\ UNCHANGED << config, git, pr, scheduled, passed, queues, starting, history, bounds >>

(* The push: not a fast-forward when the base branch has moved. *)
Lands(h) ==
  /\ base' = base + 1
  /\ landed' = [landed EXCEPT ![g[h].c] = base + 1]
  /\ merges' = merges \cup {g[h].c}

PushMerge(h) ==
  /\ g[h].pc = "push"
  /\ IF base # g[h].b
     THEN EndMerge(h) /\ UNCHANGED << base, landed, merges >>
     ELSE /\ Lands(h)
          /\ tasks' = [tasks EXCEPT !.base = @ + 1]
          /\ Goto(h, "setmerged")
          /\ UNCHANGED lock
  /\ UNCHANGED << config, head, ref, pr, scheduled, passed, queues, starting, judged, lost, stuck, torn, shut, bounds >>

(* A git command fails, or is killed with the request: a push may have     *)
(* moved the base branch all the same.                                     *)
MergeFails(h) ==
  /\ g[h].op \in {"merge", "auto"} /\ g[h].pc \in {"fetch", "tracking", "push"}
  /\ Fault
  /\ \/ UNCHANGED << base, landed, merges, torn >>
     \/ g[h].pc = "push" /\ base = g[h].b /\ Lands(h) /\ torn' = TRUE
  /\ EndMerge(h)
  /\ UNCHANGED << config, head, ref, pr, scheduled, passed, queues, starting, judged, lost, stuck, shut >>

(* SetMerged: the issue is closed first. *)
AfterSetMerged(h) ==
  IF g[h].op = "test" THEN CheckOut /\ End(h) /\ UNCHANGED tasks ELSE EndMerge(h)

MutSetMerged(h) ==
  /\ g[h].pc = "setmerged" /\ g[h].op # "manual"
  /\ IF Ready
     THEN /\ pr' = [pr EXCEPT !.closed = TRUE]
          /\ Goto(h, "save")
          /\ UNCHANGED << tasks, lock >>
     ELSE /\ UNCHANGED pr
          /\ IF g[h].op = "test" THEN Goto(h, "fetch") /\ UNCHANGED << tasks, lock >> ELSE EndMerge(h)
  /\ UNCHANGED << config, git, scheduled, passed, queues, starting, history, bounds >>

SetMerged(h) ==
  /\ g[h].pc = "setmerged" /\ g[h].op # "manual"
  /\ IF pr.merged = None /\ ~pr.closed
     THEN /\ pr' = [pr EXCEPT !.closed = TRUE]
          /\ Goto(h, "save")
          /\ UNCHANGED << tasks, lock >>
     ELSE /\ UNCHANGED pr
          /\ IF g[h].op = "test" THEN Goto(h, "fetch") /\ UNCHANGED << tasks, lock >> ELSE EndMerge(h)
  /\ UNCHANGED << config, git, scheduled, passed, queues, starting, history, bounds >>

(* A statement of SetMerged fails, which is no transaction here: Merge only *)
(* logs it, and manuallyMerged goes on to the test.                        *)
SetMergedFails(h) ==
  /\ g[h].pc \in {"setmerged", "save"} /\ g[h].op # "manual"
  /\ Fault
  /\ torn' = (torn \/ g[h].pc = "save" \/ g[h].op # "test")
  /\ IF g[h].op = "test" THEN Goto(h, "fetch") /\ UNCHANGED << tasks, lock >> ELSE EndMerge(h)
  /\ UNCHANGED << config, git, pr, scheduled, passed, queues, starting, judged, merges, lost, stuck, shut >>

SaveMerged(h) ==
  /\ g[h].pc = "save"
  /\ pr' = [pr EXCEPT !.merged = g[h].c, !.status = g[h].status]
  /\ AfterSetMerged(h)
  /\ UNCHANGED << config, git, scheduled, passed, queues, starting, history, bounds >>

(* MergedManually: the doer names a commit of the base branch. *)
StartManual(h) ==
  /\ Intervene
  /\ pr.merged = None /\ ~pr.closed
  /\ Begin(h, "manual", "lock")
  /\ UNCHANGED << config, git, pr, scheduled, passed, queues, lock, tasks, starting, history >>

LockManual(h) ==
  /\ At(h, "manual", "lock")
  /\ CheckIn(h)
  /\ Goto(h, "setmerged")
  /\ UNCHANGED << config, git, pr, scheduled, passed, queues, tasks, starting, history, bounds >>

(* All of SetMerged in one transaction. *)
MergedManually(h) ==
  /\ At(h, "manual", "setmerged")
  /\ \/ /\ pr.merged = None /\ ~pr.closed
        /\ \E c \in Commit : landed[c] > 0 /\ pr' = [status |-> "manual", merged |-> c, closed |-> TRUE]
     \/ /\ pr.merged # None \/ pr.closed \/ \A c \in Commit : landed[c] = 0
        /\ UNCHANGED pr
  /\ CheckOut
  /\ End(h)
  /\ UNCHANGED << config, git, scheduled, passed, queues, tasks, starting, history, bounds >>

-----------------------------------------------------------------------------
(* Closing and reopening. *)

Close ==
  /\ Intervene
  /\ ~pr.closed
  /\ pr' = [pr EXCEPT !.closed = TRUE]
  /\ shut' = TRUE
  /\ UNCHANGED << config, git, scheduled, passed, queues, lock, tasks, starting, g, judged, merges, lost, stuck, torn >>

(* NewComment tests the pull request again and updates refs/pull/N/head    *)
(* before it opens the issue; EditPullRequest of the API only opens it.    *)
StartReopen(h, api) ==
  /\ Intervene
  /\ pr.merged = None /\ pr.closed
  /\ Begin(h, "reopen", IF api THEN "open" ELSE "mark")
  /\ UNCHANGED << config, git, pr, scheduled, passed, queues, lock, tasks, starting, history >>

CompareRefs(h) ==
  /\ At(h, "reopen", "compare")
  /\ ref' = head
  /\ Goto(h, "open")
  /\ UNCHANGED << config, head, base, landed, pr, scheduled, passed, queues, lock, tasks, starting, history, bounds >>

Open(h) ==
  /\ At(h, "reopen", "open")
  /\ pr' = [pr EXCEPT !.closed = FALSE]
  /\ End(h)
  /\ UNCHANGED << config, git, scheduled, passed, queues, lock, tasks, starting, history, bounds >>

-----------------------------------------------------------------------------
(* Commit statuses and scheduled merges. *)

(* NewCommitStatus, by the API, or by Gitea Actions (createCommitStatus),  *)
(* which does not go on to MergeScheduledPullRequest.                      *)
Report(h, c, success, api) ==
  /\ Intervene
  /\ c \in {head, ref}
  /\ passed' = IF success THEN passed \cup {c} ELSE passed \ {c}
  /\ IF success /\ api
     THEN /\ g[h] = Idle
          /\ g' = [g EXCEPT ![h].op = "report", ![h].pc = "lookup", ![h].c = c]
     ELSE g' = [i \in Server |-> [g[i] EXCEPT !.raced = @ \/ (~success /\ Racing(i) /\ ToLand(i) = c)]]
  /\ UNCHANGED << config, git, pr, scheduled, queues, lock, tasks, starting, history >>

(* MergeScheduledPullRequest: the pull requests whose ref is the commit. *)
Lookup(h) ==
  /\ At(h, "report", "lookup")
  /\ waking' = IF ref = g[h].c /\ pr.merged = None /\ pr.status = "mergeable"
               THEN waking \cup {g[h].c} ELSE waking
  /\ End(h)
  /\ UNCHANGED << config, git, pr, scheduled, passed, testing, stale, lock, tasks, starting, history, bounds >>

(* handlePull: the row, then whether it is scheduled; the commit of the    *)
(* queue's item is not looked at.                                          *)
TakeAuto(w) ==
  /\ \E c \in waking : waking' = waking \ {c}
  /\ Begin(w, "auto", "read")
  /\ UNCHANGED << config, git, pr, scheduled, passed, testing, stale, lock, tasks, starting, history, bounds >>

ReadAuto(w, doer) ==
  /\ At(w, "auto", "read")
  /\ IF scheduled /\ Ready
     THEN g' = [g EXCEPT ![w].pc = "check", ![w].status = "mergeable", ![w].doer = doer]
     ELSE End(w)
  /\ UNCHANGED << config, git, pr, scheduled, passed, queues, lock, tasks, starting, history, bounds >>

(* MergePullRequest with MergeWhenChecksSucceed: the branch protection is  *)
(* not asked for; an earlier schedule is deleted.                          *)
StartSchedule(h, doer, expected) ==
  /\ Intervene
  /\ Ready
  /\ g[h] = Idle
  /\ g' = [g EXCEPT ![h] = [Idle EXCEPT !.op = "schedule", !.pc = "state", !.status = "mergeable",
                                        !.doer = doer, !.expected = expected]]
  /\ scheduled' = FALSE
  /\ UNCHANGED << config, git, pr, passed, queues, lock, tasks, starting, history >>

(* ScheduleAutoMerge: merge at once when the latest status is success. *)
ReadState(h) ==
  /\ At(h, "schedule", "state")
  /\ IF head \in passed
     THEN g' = [g EXCEPT ![h].op = "merge", ![h].pc = "lock"]
     ELSE Goto(h, "insert")
  /\ UNCHANGED << config, git, pr, scheduled, passed, queues, lock, tasks, starting, history, bounds >>

InsertSchedule(h) ==
  /\ At(h, "schedule", "insert")
  /\ scheduled' = TRUE
  /\ End(h)
  /\ UNCHANGED << config, git, pr, passed, queues, lock, tasks, starting, history, bounds >>

RemoveSchedule ==
  /\ Intervene
  /\ scheduled
  /\ scheduled' = FALSE
  /\ UNCHANGED << config, git, pr, passed, queues, lock, tasks, starting, g, history >>

-----------------------------------------------------------------------------
(* A crash ends every goroutine; what the queues and push_update hold      *)
(* survives where they are persistent, but for the item of a call of redis *)
(* that is under way: it may be left in the set alone.                     *)
Interrupted ==
  /\ config.persistent
  /\ \/ testing
     \/ starting /\ pr.status = "checking"
     \/ \E h \in Server : g[h].pc = "enqueue"

Crash ==
  /\ Fault
  /\ tasks' \in {[head |-> 0, base |-> 0]} \cup (IF config.persistent THEN {tasks} ELSE {})
  /\ \/ testing' = (testing /\ config.persistent) /\ stale' = (stale /\ config.persistent)
     \/ Interrupted /\ testing' = FALSE /\ stale' = TRUE
  /\ waking' = IF config.persistent THEN waking ELSE {}
  /\ lost' = (\/ lost
              \/ tasks' # tasks
              \/ \E h \in Server : g[h].op = "update" /\ g[h].pc \in {"pushref", "mark"}
              \/ /\ pr.status # "checking"
                 /\ testing' # testing \/ \E h \in Server : g[h].op = "test" \/ g[h].pc = "enqueue")
  /\ torn' = (torn \/ \E h \in Server : g[h].pc \in {"setmerged", "save"} /\ g[h].op \in {"merge", "auto"})
  /\ g' = [h \in Server |-> Idle]
  /\ lock' = None
  /\ starting' = TRUE
  /\ UNCHANGED << config, git, pr, scheduled, passed, judged, merges, stuck, shut >>

MutInitializePullRequests ==
  /\ starting
  /\ starting' = FALSE
  /\ UNCHANGED << config, git, pr, scheduled, passed, queues, lock, tasks, g, history, bounds >>

(* The next start: the pull requests left checking are tested. *)
InitializePullRequests ==
  /\ starting
  /\ starting' = FALSE
  /\ IF pr.status = "checking"
     THEN testing' = (testing \/ ~stale) /\ stuck' = (stuck \/ stale)
     ELSE UNCHANGED << testing, stuck >>
  /\ UNCHANGED << config, git, pr, scheduled, passed, stale, waking, lock, tasks, g, judged, merges, lost, torn, shut, bounds >>

(* The query or the push fails, which is only logged.                      *)
InitializeFails ==
  /\ starting
  /\ Fault
  /\ starting' = FALSE
  /\ LeftBehind
  /\ stuck' = (stuck \/ (pr.status = "checking" /\ ~testing))
  /\ UNCHANGED << config, git, pr, scheduled, passed, testing, waking, lock, tasks, g, judged, merges, lost, torn, shut >>

-----------------------------------------------------------------------------
Go(h) ==
  \/ Mark(h) \/ Enqueue(h)
  \/ PushToBaseRepo(h)
  \/ h \notin Worker /\ \E branch \in {"head", "base"} : StartUpdate(h, branch)
  \/ h \in Worker /\ (TakeTest(h) \/ TakeAuto(h))
  \/ FetchBase(h)
  \/ LockTest(h) \/ ReadTest(h) \/ Detect(h) \/ TestPatch(h) \/ WriteError(h) \/ HasTest(h) \/ WriteVerdict(h)
  \/ CheckPullMergable(h) \/ LockMerge(h) \/ FetchMerge(h) \/ PreReceive(h) \/ PushMerge(h)
  \/ SetMerged(h) \/ SaveMerged(h)
  \/ LockManual(h) \/ MergedManually(h)
  \/ CompareRefs(h) \/ Open(h)
  \/ Lookup(h) \/ (\E doer \in Doers \ {"admin"} : ReadAuto(h, doer)) \/ ReadState(h) \/ InsertSchedule(h)

Request(h) ==
  \/ \E doer \in Doers, expected \in {None, head} :
       StartMerge(h, doer, expected) \/ (doer # "admin" /\ StartSchedule(h, doer, expected))
  \/ StartManual(h)
  \/ \E api \in BOOLEAN : StartReopen(h, api)
  \/ \E c \in Commit, success, api \in BOOLEAN : Report(h, c, success, api)

User == PushBase \/ Close \/ RemoveSchedule \/ \E c \in Commit : PushHead(c)

Failure(h) ==
  \/ PushToBaseRepoFails(h) \/ MarkFails(h) \/ EnqueueFails(h)
  \/ h \in Worker /\ TakeTestOnly(h)
  \/ TestPatchFails(h) \/ HasTestFails(h) \/ TestGivesUp(h)
  \/ MergeFails(h) \/ SetMergedFails(h)

Breakdown ==
  \/ Crash \/ PopFails \/ InitializeFails
  \/ \E branch \in {"head", "base"} : FindPullRequestsFails(branch)

Next ==
  \/ \E h \in Server : Go(h) \/ (h \notin Worker /\ Request(h)) \/ Failure(h)
  \/ User
  \/ Breakdown
  \/ InitializePullRequests

Spec == Init /\ [][Next]_vars

(* Every goroutine goes on, a free worker takes what is queued, and a      *)
(* start completes.  Nothing is assumed of users and of failures.          *)
LiveSpec == Spec /\ (\A h \in Server : WF_vars(Go(h))) /\ WF_vars(InitializePullRequests)

-----------------------------------------------------------------------------
TypeOK ==
  /\ config \in Config
  /\ head \in Commit /\ ref \in Commit /\ base \in Nat /\ landed \in [Commit -> Nat]
  /\ pr \in Row
  /\ scheduled \in BOOLEAN
  /\ passed \subseteq Commit
  /\ testing \in BOOLEAN /\ stale \in BOOLEAN /\ waking \subseteq Commit
  /\ lock \in Server \cup {None}
  /\ tasks \in [{"head", "base"} -> Nat]
  /\ starting \in BOOLEAN
  /\ g \in [Server -> Work]
  /\ judged \in Commit \X Nat /\ merges \subseteq Commit
  /\ lost \in BOOLEAN /\ stuck \in BOOLEAN /\ torn \in BOOLEAN /\ shut \in BOOLEAN
  /\ interventions \in 0..Interventions /\ faults \in 0..Faults

(* A new test is going to be made: an update is to start or on its way,    *)
(* the pull request is queued, or a worker has not fetched the branches    *)
(* yet, or could not, or finds the pull request merged.                    *)
Updating(h)  == (g[h].op = "update" /\ g[h].pc \in {"pushref", "mark"}) \/ g[h].pc = "enqueue"
Retesting(h) == g[h].op = "test" /\ g[h].pc \in {"lock", "read", "detect", "setmerged", "save", "fetch", "fail"}
Pending ==
  \/ tasks.head > 0 \/ tasks.base > 0
  \/ testing
  \/ \E h \in Server : Updating(h) \/ Retesting(h)

(* A test has fetched the branches, or the base branch, as they are now.   *)
Tested(h)  == g[h].op = "test" /\ g[h].pc \in {"tracking", "has", "write"}
Current(h) == g[h].b = base /\ (g[h].pc # "tracking" => g[h].c = head)

(* The verdict an open pull request shows is the one for the commits the   *)
(* two branches have now, unless a new test is going to be made or has     *)
(* fetched the branches as they are.  Otherwise an update was lost: by a   *)
(* crash, an error or a stale entry, or it met the pull request closed.    *)
StatusIsFresh ==
  pr.merged = None /\ ~pr.closed /\ pr.status \in Verdict /\ judged # <<head, base>> =>
    \/ Pending
    \/ \E h \in Server : Tested(h) /\ Current(h)
    \/ lost

(* When a commit has been merged the pull request ends as merged: nobody   *)
(* leaves it open, whatever happened between the push and SetMerged, but   *)
(* for a crash or an error there, or a user who closed it meanwhile.       *)
LandedIsRecorded ==
  merges # {} =>
    \/ pr.merged # None
    \/ \E h \in Server : g[h].op \in {"merge", "auto"} /\ g[h].pc \in {"setmerged", "save"}
    \/ torn \/ shut

(* On a protected branch only an administrator who forces it merges what   *)
(* had not passed, unless another commit was pushed, or the status taken   *)
(* back, since the doer was last checked: when the merge fetched it, for   *)
(* the hook looks at the head branch, or, if the doer may push and is not  *)
(* checked by the hook, since the merge was asked for.                     *)
LandsChecked ==
  [][\A h \in Server :
       g[h].pc = "push" /\ merges' # merges /\ config.protected =>
         g[h].c \in passed \/ g[h].doer = "admin" \/ g[h].raced]_vars

(* The status of a merged pull request no longer changes, whatever tests   *)
(* and updates were under way.                                             *)
MergedIsFinal ==
  [][pr.merged # None => pr'.merged = pr.merged /\ pr'.status = pr.status]_vars

(* A pull request does not stay "checking", with crashes and errors, unless *)
(* an error lost its test, or a stale entry of the queue's set stands in   *)
(* for it.                                                                 *)
CheckingEnds ==
  pr.status = "checking" /\ pr.merged = None ~>
    pr.status # "checking" \/ pr.merged # None \/ stuck

(* The safety half of CheckingEnds: who left the pull request "checking"   *)
(* has queued it or is about to, a worker tests it, or the next start will *)
(* find it, unless its test was lost as above.                             *)
CheckingIsOwed ==
  pr.status = "checking" /\ pr.merged = None =>
    \/ testing \/ starting
    \/ \E h \in Server : g[h].pc = "enqueue" \/ g[h].op = "test"
    \/ stuck

(* "merges a previously scheduled pull request when all checks succeeded": *)
(* when nothing is left to do, no pull request that could be merged, and   *)
(* whose head commit has passed, is still scheduled.                       *)
ScheduledMerges ==
  /\ \A h \in Server : g[h] = Idle
  /\ tasks = [head |-> 0, base |-> 0] /\ ~testing /\ waking = {} /\ ~starting
  => ~(scheduled /\ Ready /\ head \in passed)
=============================================================================
