------------------------------ MODULE ActionRun ------------------------------
(***************************************************************************)
(* models/actions and services/actions: one workflow run, its jobs and the *)
(* tasks that execute them, as rows of the database, and the goroutines    *)
(* that change these rows in transactions: a runner picking a job          *)
(* (CreateTaskForRunner) or reporting a task (UpdateTaskByState), the cron *)
(* tasks that stop zombie tasks and cancel abandoned jobs, a user who      *)
(* cancels, reruns or approves the run, a push that supersedes it          *)
(* (CancelRunningJobs), and the workers of the job emitter queue.          *)
(*                                                                         *)
(* A statement is one step.  What a transaction has written is its own     *)
(* until it commits, and locks the rows; a statement that needs a locked   *)
(* row waits, or is chosen as the victim of a deadlock.  A read sees the   *)
(* committed rows ("committed": PostgreSQL's and MSSQL's default), or      *)
(* those committed when the transaction first read ("snapshot": MySQL's    *)
(* default), and in both cases the transaction's own writes.               *)
(***************************************************************************)
EXTENDS Integers, FiniteSets

CONSTANTS
  Job,         \* action_run_job rows of the run
  Needs,       \* what each job needs, a DAG
  Task,        \* bound: the action_task rows that are ever inserted
  Server,      \* goroutines; each runs one operation after the other
  Worker,      \* those of them that are workers of jobEmitterQueue
  Result,      \* bound: the results runners report
  Interventions,  \* bound: how often cron, a user or a push interferes
  None

(* Status.IsDone *)
Done == {"success", "failure", "cancelled", "skipped"}

JobStatus == Done \cup {"blocked", "waiting", "running"}
JobRow    == [status : JobStatus, task : Task \cup {None}]
TaskRow   == [status : Done \cup {"unused", "running"}, job : Job \cup {None}]
Snapshot  == [job : [Job -> JobRow], task : [Task -> TaskRow]]

ASSUME ConstantsAssumption ==
  /\ IsFiniteSet(Job)
  /\ Needs \in [Job -> SUBSET Job]
  /\ Worker \subseteq Server
  /\ Result \subseteq Done
  /\ Interventions \in Nat
  /\ None \notin Job \cup Task \cup JobStatus \cup JobRow \cup TaskRow \cup Snapshot

VARIABLES
  isolation,   \* of the database the instance runs on
  job, task,   \* the committed rows
  run,         \* the committed row: its status, and whether it was ever computed from the jobs
  tx,          \* what each goroutine is doing
  current,     \* the goroutines that have read the version the run still has
  summed,      \* the goroutines that have read the jobs since the last write outside a transaction
  loose,       \* a job was written outside a transaction and is not in run.status yet
  queued,      \* the run is in jobEmitterQueue
  unheard,     \* history: the jobs that ended without the emitter being told, while a blocked job needs them
  torn,        \* history: the tasks finished outside a transaction
  interventions  \* counter of the bound

vars == << isolation, job, task, run, tx, current, summed, loose, queued, unheard, torn, interventions >>

(* aggregateJobStatus. *)
Aggregate(jobs) ==
  IF \A j \in Job : jobs[j].status \in Done
  THEN IF \E j \in Job : jobs[j].status \in {"failure", "cancelled"}
       THEN "failure" ELSE "success"
  ELSE IF \A j \in Job : jobs[j].status \in Done \cup {"waiting"}
       THEN "waiting" ELSE "running"

(* jobStatusResolver: a blocked job waits for a runner once its needs have *)
(* all succeeded.  It is skipped when all have ended and one otherwise,    *)
(* and this ends the waiting of others: Resolve repeats its pass until     *)
(* nothing is left to skip, which yields the least such set.               *)
Skips(jobs, S, j) ==
  /\ jobs[j].status = "blocked"
  /\ \A n \in Needs[j] : n \in S \/ jobs[n].status \in Done
  /\ \E n \in Needs[j] : n \in S \/ jobs[n].status \in Done \ {"success"}
Skipped(jobs) ==
  {j \in Job : \A S \in SUBSET Job : (\A k \in Job : Skips(jobs, S, k) => k \in S) => j \in S}
Resolve(jobs) ==
  [j \in Job |->
    IF j \in Skipped(jobs) THEN [jobs[j] EXCEPT !.status = "skipped"]
    ELSE IF jobs[j].status = "blocked" /\ \A n \in Needs[j] : jobs[n].status = "success"
    THEN [jobs[j] EXCEPT !.status = "waiting"]
    ELSE jobs[j]]

-----------------------------------------------------------------------------
(* A goroutine: the operation and its next statement; the rows it has read *)
(* beforehand and still has to process (todo); the job (at), the task (t)  *)
(* and the status (to) of the UpdateRunJob or StopTask call it is in; the  *)
(* snapshot of its transaction; its uncommitted writes; the status it has  *)
(* aggregated and the one it has written to the run.                       *)
Rest == [op |-> "idle", pc |-> "idle", todo |-> [j \in Job |-> None],
         at |-> None, t |-> None, to |-> None, snap |-> None,
         wjob |-> [j \in Job |-> None], wtask |-> [t \in Task |-> None],
         sum |-> None, wrun |-> None]

Op == {"idle", "pick", "report", "stop", "cancel", "supersede",
       "abandon", "rerun", "approve", "emit"}
PC == {"idle", "next", "approve", "task", "job", "loadRun", "loadJobs", "run", "notify"}

Over(rows, written) ==
  [x \in DOMAIN rows |-> IF written[x] = None THEN rows[x] ELSE written[x]]

(* CancelRunningJobs runs outside a transaction: each statement commits.   *)
InTx(h) == tx[h].op # "supersede"

JobsSeen(h)  == Over(IF tx[h].snap = None THEN job ELSE tx[h].snap.job, tx[h].wjob)
TasksSeen(h) == Over(IF tx[h].snap = None THEN task ELSE tx[h].snap.task, tx[h].wtask)

(* h reads and goes on as record: the first read takes the snapshot, and   *)
(* with it the version of the run and the jobs that are read later.        *)
Reads(h, record) ==
  LET snaps == isolation = "snapshot" /\ record.op # "supersede" /\ record.snap = None IN
  /\ tx' = [tx EXCEPT ![h] =
             IF snaps THEN [record EXCEPT !.snap = [job |-> job, task |-> task]] ELSE record]
  /\ current' = IF snaps THEN current \cup {h} ELSE current
  /\ summed'  = IF snaps THEN summed \cup {h} ELSE summed

JobFree(h, j)  == \A g \in Server \ {h} : tx[g].wjob[j] = None
TaskFree(h, t) == \A g \in Server \ {h} : tx[g].wtask[t] = None
RunFree(h)     == \A g \in Server \ {h} : tx[g].wrun = None

At(h, pc) == tx[h].pc = pc
Idle(h)   == At(h, "idle")
rows      == << isolation, job, task, run >>
history   == << loose, unheard, torn >>

(* The version h has read is the one the run still has. *)
MutUnchanged(h) == TRUE
Unchanged(h)    == h \in current

(* Mutant: the handler reports a run it failed to process as handled. *)
MutGiveUp(h) ==
  /\ tx' = [tx EXCEPT ![h] = Rest]
  /\ current' = current \ {h}
  /\ summed' = summed \ {h}
  /\ UNCHANGED << rows, queued, history >>

(* The transaction is rolled back and the caller gets an error; an item of *)
(* the emitter queue is returned as unhandled and queued again.            *)
GiveUp(h) ==
  /\ tx' = [tx EXCEPT ![h] = Rest]
  /\ current' = current \ {h}
  /\ summed' = summed \ {h}
  /\ queued' = (queued \/ tx[h].op = "emit")
  /\ UNCHANGED << rows, history >>

-----------------------------------------------------------------------------
(* InsertRun: a job that needs others, and every job of a run that needs   *)
(* an approval, is blocked.  The run is inserted as waiting.               *)
Init ==
  /\ isolation \in {"committed", "snapshot"}
  /\ \E needApproval \in BOOLEAN :
       job = [j \in Job |->
         [status |-> IF Needs[j] # {} \/ needApproval THEN "blocked" ELSE "waiting",
          task   |-> None]]
  /\ task = [t \in Task |-> [status |-> "unused", job |-> None]]
  /\ run = [status |-> "waiting", computed |-> FALSE]
  /\ tx = [h \in Server |-> Rest]
  /\ current = {} /\ summed = {} /\ loose = FALSE
  /\ queued = FALSE /\ unheard = {} /\ torn = {} /\ interventions = 0

Unused(t) == task[t].status = "unused" /\ \A h \in Server : tx[h].wtask[t] = None

(* CreateTaskForRunner, up to the insertion of the task: a job that waits. *)
Pick(h) ==
  /\ Idle(h)
  /\ \E j \in Job, t \in Task :
       /\ job[j] = [status |-> "waiting", task |-> None]
       /\ Unused(t)
       /\ Reads(h, [Rest EXCEPT !.op = "pick", !.pc = "job", !.at = j, !.t = t, !.to = "running",
                                !.wtask[t] = [status |-> "running", job |-> j]])
  /\ UNCHANGED << rows, queued, history >>

MutReportable(t) == task[t].status # "unused"
Reportable(t)    == task[t].status = "running"

(* UpdateTaskByState: the runner of task t reports its result.  Nothing is *)
(* done to a finished task, but the emitter is told in any case.           *)
Report(h) ==
  /\ Idle(h)
  /\ \E t \in Task :
       \/ /\ Reportable(t)
          /\ \E result \in Result :
               Reads(h, [Rest EXCEPT !.op = "report", !.pc = "task",
                                    !.at = task[t].job, !.t = t, !.to = result])
       \/ /\ task[t].status \in Done
          /\ tx' = [tx EXCEPT ![h] = [Rest EXCEPT !.op = "report", !.pc = "notify",
                                                 !.at = task[t].job]]
          /\ UNCHANGED << current, summed >>
  /\ UNCHANGED << rows, queued, history >>

(* StopZombieTasks, StopEndlessTasks: StopTask of a running task. *)
Stop(h) ==
  /\ Idle(h)
  /\ \E t \in Task :
       /\ task[t].status = "running"
       /\ Reads(h, [Rest EXCEPT !.op = "stop", !.pc = "job",
                                !.at = task[t].job, !.t = t, !.to = "failure"])
  /\ UNCHANGED << rows, queued, history >>

(* The jobs S as they are now are kept for op, which processes them later. *)
Keeps(h, op, S, read) ==
  /\ S # {}
  /\ tx' = [tx EXCEPT ![h] = [Rest EXCEPT !.op = op, !.pc = "next",
                                         !.todo = [j \in Job |-> IF j \in S THEN read[j] ELSE None]]]

Unfinished == {j \in Job : job[j].status \notin Done}

(* Cancel: the jobs are read, then all are cancelled in one transaction.   *)
Cancel(h) ==
  /\ Idle(h)
  /\ Keeps(h, "cancel", Unfinished, job)
  /\ UNCHANGED << rows, current, summed, queued, history >>

(* CancelRunningJobs: a newer push supersedes the run. *)
Supersede(h) ==
  /\ Idle(h)
  /\ run.status \in {"waiting", "running"}
  /\ Keeps(h, "supersede", Unfinished, job)
  /\ UNCHANGED << rows, current, summed, queued, history >>

(* CancelAbandonedJobs: a transaction for each of the jobs it has read. *)
Abandon(h) ==
  /\ Idle(h)
  /\ \E j \in Job : /\ job[j].status \in {"waiting", "blocked"}
                    /\ Keeps(h, "abandon", {j}, job)
  /\ UNCHANGED << rows, current, summed, queued, history >>

(* rerunJob of a finished job.  Bound: while a task row is left for it. *)
Rerun(h) ==
  /\ Idle(h)
  /\ \E t \in Task : Unused(t)
  /\ \E j \in Job : job[j].status \in Done /\ Keeps(h, "rerun", {j}, job)
  /\ UNCHANGED << rows, current, summed, queued, history >>

(* Approve, when it has something to release: the run and its jobs are     *)
(* read, then a transaction updates the run and releases the jobs.         *)
Approve(h) ==
  /\ Idle(h)
  /\ LET S == {j \in Job : Needs[j] = {} /\ job[j].status = "blocked"} IN
       /\ S # {}
       /\ tx' = [tx EXCEPT ![h] = [Rest EXCEPT !.op = "approve", !.pc = "approve",
                                              !.todo = [j \in Job |-> IF j \in S THEN job[j] ELSE None]]]
  /\ current' = current \cup {h}
  /\ UNCHANGED << rows, summed, queued, history >>
ApproveRun(h) ==
  /\ At(h, "approve") /\ RunFree(h)
  /\ IF Unchanged(h)
     THEN /\ tx' = [tx EXCEPT ![h].wrun = run.status, ![h].pc = "next"]
          /\ UNCHANGED << rows, current, summed, queued, history >>
     ELSE GiveUp(h)

(* checkJobsOfRun: the jobs are read and resolved before the transaction.  *)
Emit(h) ==
  /\ h \in Worker /\ Idle(h) /\ queued
  /\ queued' = FALSE
  /\ LET resolved == Resolve(job)
         S == {j \in Job : resolved[j] # job[j]}
     IN  IF S = {} THEN UNCHANGED tx ELSE Keeps(h, "emit", S, resolved)
  /\ UNCHANGED << rows, current, summed, history >>

-----------------------------------------------------------------------------
(* The next job of those kept.  StopTask reads the task of a job that has  *)
(* been picked, and does nothing when it has finished.                     *)
NextJob(h) ==
  /\ At(h, "next")
  /\ \E j \in Job :
       LET read == tx[h].todo[j]
           op   == tx[h].op
       IN
       /\ read # None
       /\ IF op \in {"cancel", "supersede"} /\ read.task # None
          THEN Reads(h, IF TasksSeen(h)[read.task].status \in Done
                        THEN [tx[h] EXCEPT !.todo[j] = None]
                        ELSE [tx[h] EXCEPT !.pc = "job", !.at = j, !.t = read.task,
                                           !.to = "cancelled"])
          ELSE /\ tx' = [tx EXCEPT ![h].pc = "job", ![h].at = j, ![h].t = None,
                                   ![h].to = CASE op = "emit" -> read.status
                                               [] op \in {"rerun", "approve"} -> "waiting"
                                               [] OTHER -> "cancelled"]
               /\ UNCHANGED << current, summed >>
  /\ UNCHANGED << rows, queued, history >>

(* Mutant: a runner takes the job whether or not it has a task by now. *)
MutAffected(h, row) ==
  CASE tx[h].op = "rerun" -> row.status = tx[h].todo[tx[h].at].status
    [] tx[h].op = "emit"  -> row.status = "blocked"
    [] tx[h].op \in {"cancel", "supersede"} /\ tx[h].t = None -> row.task = None
    [] OTHER -> TRUE

(* UpdateRunJob: the condition of each caller, and the row it writes.      *)
Affected(h, row) ==
  CASE tx[h].op = "pick"  -> row.task = None
    [] tx[h].op = "rerun" -> row.status = tx[h].todo[tx[h].at].status
    [] tx[h].op = "emit"  -> row.status = "blocked"
    [] tx[h].op \in {"cancel", "supersede"} /\ tx[h].t = None -> row.task = None
    [] OTHER -> TRUE
NewRow(h, row) ==
  [status |-> tx[h].to,
   task   |-> CASE tx[h].op = "pick"  -> tx[h].t
                [] tx[h].op = "rerun" -> None
                [] OTHER -> row.task]

Awaited(S) == {j \in Job \cap S : \E k \in Job : job[k].status = "blocked" /\ j \in Needs[k]}

UpdateJob(h) ==
  LET j == tx[h].at
      row == Over(job, tx[h].wjob)[j]
      next == [tx[h] EXCEPT !.todo[j] = None,
                             !.pc = IF tx[h].snap = None THEN "loadRun" ELSE "loadJobs"]
  IN
  /\ At(h, "job") /\ JobFree(h, j)
  /\ IF ~Affected(h, row) THEN GiveUp(h)
     ELSE /\ IF InTx(h)
             THEN /\ tx' = [tx EXCEPT ![h] = [next EXCEPT !.wjob[j] = NewRow(h, row)]]
                  /\ UNCHANGED << job, summed, loose, unheard >>
             ELSE /\ tx' = [tx EXCEPT ![h] = next]
                  /\ job' = [job EXCEPT ![j] = NewRow(h, row)]
                  /\ summed' = {} /\ loose' = TRUE
                  /\ unheard' = Awaited(unheard \cup {j})
          /\ UNCHANGED << isolation, task, run, current, queued, torn >>

(* UpdateRunJob goes on: "Other goroutines may aggregate the status of the *)
(* run and update it too.  So we need load the run and its jobs before     *)
(* updating the run": the run with its version first, then the jobs.       *)
LoadRun(h) ==
  /\ At(h, "loadRun")
  /\ IF isolation = "snapshot" /\ InTx(h)
     THEN Reads(h, [tx[h] EXCEPT !.pc = "loadJobs"])
     ELSE /\ tx' = [tx EXCEPT ![h].pc = "loadJobs"]
          /\ current' = current \cup {h}
          /\ UNCHANGED summed
  /\ UNCHANGED << rows, queued, history >>
LoadJobs(h) ==
  /\ At(h, "loadJobs")
  /\ tx' = [tx EXCEPT ![h].pc = "run", ![h].sum = Aggregate(JobsSeen(h))]
  /\ summed' = IF tx[h].snap = None THEN summed \cup {h} ELSE summed
  /\ UNCHANGED << rows, current, queued, history >>

(* UpdateRun with the version that was read.  StopTask goes on with the    *)
(* row of the task.                                                        *)
UpdateRun(h) ==
  LET stops == tx[h].op \in {"stop", "cancel", "supersede"} /\ tx[h].t # None
      next  == IF stops THEN [tx[h] EXCEPT !.sum = None, !.pc = "task"]
                        ELSE [tx[h] EXCEPT !.sum = None, !.pc = "next", !.t = None, !.to = None]
  IN
  /\ At(h, "run") /\ RunFree(h)
  /\ IF ~Unchanged(h) THEN GiveUp(h)
     ELSE /\ IF InTx(h)
             THEN /\ tx' = [tx EXCEPT ![h] = [next EXCEPT !.wrun = tx[h].sum]]
                  /\ UNCHANGED << run, current, loose >>
             ELSE /\ tx' = [tx EXCEPT ![h] = next]
                  /\ run' = [status |-> tx[h].sum, computed |-> TRUE]
                  /\ current' = {}
                  /\ loose' = (loose /\ h \notin summed)
          /\ UNCHANGED << isolation, job, task, summed, queued, unheard, torn >>

(* UpdateTask: UpdateTaskByState writes the task before the job, StopTask  *)
(* after it.                                                               *)
UpdateTask(h) ==
  LET t == tx[h].t
      row == [Over(task, tx[h].wtask)[t] EXCEPT !.status = tx[h].to]
      next == IF tx[h].op = "report" THEN [tx[h] EXCEPT !.pc = "job"]
                                     ELSE [tx[h] EXCEPT !.pc = "next", !.t = None, !.to = None]
  IN
  /\ At(h, "task") /\ TaskFree(h, t)
  /\ IF InTx(h)
     THEN /\ tx' = [tx EXCEPT ![h] = [next EXCEPT !.wtask[t] = row]]
          /\ UNCHANGED << task, torn >>
     ELSE /\ tx' = [tx EXCEPT ![h] = next]
          /\ task' = [task EXCEPT ![t] = row]
          /\ torn' = torn \cup {t}
  /\ UNCHANGED << isolation, job, run, current, summed, queued, loose, unheard >>

Written(h) == {j \in Job : tx[h].wjob[j] # None}
Ended(h)   == {j \in Written(h) : tx[h].wjob[j].status \in Done}

(* Only the handler of a runner's report tells the emitter. *)
MutTells(h) == FALSE
Tells(h)    == tx[h].op = "report"

(* Everything has been processed: the transaction commits.           *)
Commit(h) ==
  /\ At(h, "next") /\ \A j \in Job : tx[h].todo[j] = None
  /\ job' = Over(job, tx[h].wjob)
  /\ task' = Over(task, tx[h].wtask)
  /\ IF tx[h].wrun = None
     THEN run' = run /\ current' = current \ {h} /\ loose' = loose
     ELSE /\ run' = [status |-> tx[h].wrun, computed |-> (run.computed \/ Written(h) # {})]
          /\ current' = {}
          /\ loose' = (loose /\ h \notin summed)
  /\ summed' = summed \ {h}
  /\ unheard' = IF tx[h].op \in {"stop", "cancel", "abandon"}
                THEN Awaited(unheard \cup Ended(h)) ELSE Awaited(unheard \ Written(h))
  /\ tx' = [tx EXCEPT ![h] = IF Tells(h)
                            THEN [Rest EXCEPT !.op = "report", !.pc = "notify", !.at = tx[h].at]
                            ELSE Rest]
  /\ UNCHANGED << isolation, queued, torn >>

(* EmitJobsIfReady: that the push fails is only logged. *)
Notify(h) ==
  /\ At(h, "notify")
  /\ tx' = [tx EXCEPT ![h] = Rest]
  /\ \/ queued' = TRUE /\ unheard' = {}
     \/ /\ queued' = queued
        /\ unheard' = Awaited(unheard \cup {j \in {tx[h].at} : job[j].status \in Done})
  /\ UNCHANGED << rows, current, summed, loose, torn >>

(* A transaction that waits for a row may be rolled back by the database,  *)
(* as the victim of a deadlock or after a lock timeout.                    *)
Waits(h) ==
  \/ At(h, "job")  /\ ~JobFree(h, tx[h].at)
  \/ At(h, "task") /\ ~TaskFree(h, tx[h].t)
  \/ tx[h].pc \in {"run", "approve"} /\ ~RunFree(h)
Victim(h) == Waits(h) /\ GiveUp(h)

(* Cron, a user or a push begins to change the run; a runner does; a       *)
(* worker takes the run from the queue; a goroutine goes on.               *)
Intervene(h) ==
  /\ interventions < Interventions /\ interventions' = interventions + 1
  /\ (Stop(h) \/ Cancel(h) \/ Supersede(h) \/ Abandon(h) \/ Rerun(h) \/ Approve(h))
Request(h) == UNCHANGED interventions /\ (Pick(h) \/ Report(h))
Handle(h)  == UNCHANGED interventions /\ Emit(h)
Step(h)    == /\ UNCHANGED interventions
              /\ \/ ApproveRun(h) \/ NextJob(h) \/ UpdateJob(h) \/ LoadRun(h) \/ LoadJobs(h)
                 \/ UpdateRun(h) \/ UpdateTask(h) \/ Commit(h) \/ Notify(h) \/ Victim(h)

Next == \E h \in Server : Intervene(h) \/ Request(h) \/ Handle(h) \/ Step(h)
Spec == Init /\ [][Next]_vars

(* A goroutine that has begun goes on.  The queue has workers of its own:  *)
(* that they share the slots of Worker with requests does not starve them. *)
LiveSpec == /\ Spec
            /\ \A h \in Server : WF_vars(Step(h))
            /\ \A w \in Worker : SF_vars(Handle(w))

-----------------------------------------------------------------------------
TxRecord ==
  [op : Op, pc : PC, todo : [Job -> JobRow \cup {None}],
   at : Job \cup {None}, t : Task \cup {None}, to : JobStatus \cup {None},
   snap : Snapshot \cup {None},
   wjob : [Job -> JobRow \cup {None}], wtask : [Task -> TaskRow \cup {None}],
   sum : JobStatus \cup {None}, wrun : JobStatus \cup {None}]

(* The types of the rows and of what goroutines hold. *)
TypeOK ==
  /\ isolation \in {"committed", "snapshot"}
  /\ job \in [Job -> JobRow] /\ task \in [Task -> TaskRow]
  /\ run \in [status : JobStatus, computed : BOOLEAN]
  /\ tx \in [Server -> TxRecord]
  /\ current \subseteq Server /\ summed \subseteq Server
  /\ loose \in BOOLEAN /\ queued \in BOOLEAN
  /\ unheard \subseteq Job /\ torn \subseteq Task /\ interventions \in Nat

(* The status of the run is that of its jobs, however the transactions     *)
(* that change them overlap: UpdateRunJob reads the version of the run     *)
(* before the jobs.  Only a change made outside a transaction              *)
(* (CancelRunningJobs) can be missing.                                     *)
RunAggregates == run.computed /\ ~loose => run.status = Aggregate(job)

(* "Other goroutines may aggregate the status of the run and update it     *)
(* too": when all jobs have ended and nobody is at work, the run has their *)
(* status.  It does not: CancelRunningJobs, outside a transaction, has     *)
(* written the job when it finds that the run has changed and fails, and   *)
(* nothing aggregates again.                                               *)
RunFollowsJobs ==
  (\A h \in Server : Idle(h)) /\ (\A j \in Job : job[j].status \in Done) /\ run.computed =>
    run.status = Aggregate(job)

(* A stray task: it runs, and its job has ended or runs another task.      *)
Stray(t) == task[t].status = "running" /\ job[task[t].job] # [status |-> "running", task |-> t]

(* The step of a transaction that overwrites what it has not seen: it      *)
(* finishes a task that has been finished meanwhile, where reads are not   *)
(* from a snapshot, or the other one was outside a transaction.            *)
Overwrites(h) ==
  /\ tx'[h] # tx[h]
  /\ \/ tx[h].op = "supersede"
     \/ \E t \in Task : /\ tx[h].wtask[t] # None /\ task[t].status \in Done
                       /\ (isolation = "committed" \/ t \in torn)

(* A running task is the task of its job, and the job runs: of two runners *)
(* that pick a job one wins and the other leaves no task behind, a rerun   *)
(* starts no second task beside a first one.  What breaks it is such an    *)
(* overwriting, the cancellation of abandoned jobs, an unconditional       *)
(* update of jobs read before the transaction, and the end of a task that  *)
(* was a stray already.                                                    *)
TasksBelong ==
  [][\A t \in Task : Stray(t)' =>
       \/ Stray(t)
       \/ \E h \in Server :
            \/ Overwrites(h)
            \/ tx'[h] # tx[h] /\ tx[h].op = "abandon"
            \/ tx'[h] # tx[h] /\ \E s \in Task : tx[h].wtask[s] # None /\ Stray(s)]_vars

(* "the state is final, do nothing": a finished task keeps its result.     *)
FinalIsFinal ==
  [][\A t \in Task : task[t].status \in Done /\ task'[t] # task[t] =>
       \E h \in Server : Overwrites(h)]_vars

(* A job whose needs have all ended. *)
Ready(j) == /\ job[j].status = "blocked" /\ Needs[j] # {}
            /\ \A n \in Needs[j] : job[n].status \in Done

(* The emitter is going to look at the run, as it is in the queue or a     *)
(* report of one of the needs is about to put it there, or is about to     *)
(* release the job; or a need has ended without the emitter being told.    *)
Owed(j) ==
  \/ queued
  \/ Needs[j] \cap unheard # {}
  \/ \E h \in Server : At(h, "notify") /\ tx[h].at \in Needs[j]
  \/ \E w \in Worker : tx[w].op = "emit" /\ (tx[w].todo[j] # None \/ tx[w].wjob[j] # None)

(* The jobs all of whose needs need nothing themselves. *)
Direct == {j \in Job : \A n \in Needs[j] : Needs[n] = {}}

(* Such a job is not forgotten once its needs have all ended, however      *)
(* reports, reruns, cancellations and two workers of the emitter overlap.  *)
BlockedIsOwed == \A j \in Direct : Ready(j) => Owed(j)

(* And it is released in the end. *)
Released ==
  \A j \in {k \in Direct : Needs[k] # {}} :
    Ready(j) /\ Needs[j] \cap unheard = {} ~> ~Ready(j) \/ Needs[j] \cap unheard # {}

(* What does not hold of the others: checkJobsOfRun reads the jobs before  *)
(* its transaction, and may skip a job although its need has been rerun    *)
(* meanwhile; that this ends the needs of a further job, nobody is told.   *)
DeepIsOwed == \A j \in Job : Ready(j) => Owed(j)
=============================================================================
