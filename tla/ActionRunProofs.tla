--------------------------- MODULE ActionRunProofs ---------------------------
(***************************************************************************)
(* Proofs about a run, for every graph of needs and any number of jobs,    *)
(* tasks and concurrent transactions, under both isolation levels.         *)
(*                                                                         *)
(* The status of the run is that of its jobs: who writes the run has its   *)
(* row locked until it commits, so that nobody else commits a change of a  *)
(* job meanwhile; and who could write it, because its version is the one   *)
(* it has read, has aggregated the jobs as they still are, since every     *)
(* commit that changes a job changes the version (IInv).                   *)
(*                                                                         *)
(* Tasks: what a transaction has found of the jobs and tasks it has        *)
(* written is still so, since their rows are locked, and who has written a *)
(* task writes the run before it commits, so that its snapshot is as       *)
(* current as its version (TaskInv).  The emitter: whatever ends a need of *)
(* a blocked job is on its way to the queue, or has not told it (OwedInv). *)
(***************************************************************************)
EXTENDS ActionRun, TLAPS

-----------------------------------------------------------------------------
(* Types. *)

LEMMA StatusType ==
  /\ Done \subseteq JobStatus
  /\ {"blocked", "waiting", "running"} \subseteq JobStatus
  /\ None \notin JobStatus
BY ConstantsAssumption DEF Done, JobStatus

LEMMA AggregateType == ASSUME NEW jobs PROVE Aggregate(jobs) \in JobStatus /\ Aggregate(jobs) # None
BY StatusType DEF Aggregate, Done, JobStatus

LEMMA ResolveType ==
  ASSUME NEW jobs \in [Job -> JobRow]
  PROVE  Resolve(jobs) \in [Job -> JobRow]
<1> SUFFICES ASSUME NEW j \in Job PROVE Resolve(jobs)[j] \in JobRow
  BY DEF Resolve
<1> DEFINE row == jobs[j]
<1>1. row \in JobRow /\ row = [status |-> row.status, task |-> row.task]
  BY DEF JobRow
<1>2. [row EXCEPT !.status = "skipped"] \in JobRow /\ [row EXCEPT !.status = "waiting"] \in JobRow
  BY <1>1 DEF JobRow, JobStatus, Done
<1> QED BY <1>1, <1>2 DEF Resolve

LEMMA OverJobs ==
  ASSUME NEW base \in [Job -> JobRow], NEW w \in [Job -> JobRow \cup {None}]
  PROVE  Over(base, w) \in [Job -> JobRow]
BY DEF Over

LEMMA OverTasks ==
  ASSUME NEW base \in [Task -> TaskRow], NEW w \in [Task -> TaskRow \cup {None}]
  PROVE  Over(base, w) \in [Task -> TaskRow]
BY DEF Over

LEMMA RestType == Rest \in TxRecord
BY ConstantsAssumption DEF Rest, TxRecord, Op, PC

(* What an operation holds when it is about to write. *)
Staged(r) ==
  /\ r.pc = "job" => r.to # None
  /\ r.t # None /\ r.op # "pick" => r.to \in Done
  /\ r.pc = "task" => r.t # None /\ r.op # "pick"
  /\ r.pc = "run" => r.sum # None
AllStaged == \A h \in Server : Staged(tx[h])
TypeInv   == TypeOK /\ AllStaged

(* The same of a state whose other variables are known to have their types. *)
TxOK == tx \in [Server -> TxRecord] /\ AllStaged

LEMMA Moves ==
  ASSUME TypeInv, NEW h \in Server, NEW r \in TxRecord, Staged(r), tx' = [tx EXCEPT ![h] = r]
  PROVE  TxOK'
<1>1. tx' \in [Server -> TxRecord] BY DEF TypeInv, TypeOK
<1>2. ASSUME NEW g \in Server PROVE Staged(tx'[g])
  <2>1. tx'[g] = IF g = h THEN r ELSE tx[g] BY DEF TypeInv, TypeOK
  <2>2. CASE g = h BY <2>1, <2>2
  <2>3. CASE g # h BY <2>1, <2>3 DEF TypeInv, AllStaged
  <2> QED BY <2>2, <2>3
<1> QED BY <1>1, <1>2 DEF TxOK, AllStaged

LEMMA ReadsMoves ==
  ASSUME TypeInv, NEW h \in Server, NEW r \in TxRecord, Staged(r), Reads(h, r)
  PROVE  TxOK' /\ current' \subseteq Server /\ summed' \subseteq Server
<1> DEFINE snap == [job |-> job, task |-> task]
           q == [r EXCEPT !.snap = snap]
<1>1. snap \in Snapshot
  BY DEF TypeInv, TypeOK, Snapshot
<1>2. q \in TxRecord
  <2> HIDE DEF snap
  <2> QED BY <1>1 DEF TxRecord
<1>3. Staged(q) BY DEF TxRecord, Staged
<1>4. tx' = [tx EXCEPT ![h] = q] \/ tx' = [tx EXCEPT ![h] = r] BY DEF Reads
<1> HIDE DEF q
<1>5. TxOK' BY <1>2, <1>3, <1>4, Moves
<1> QED BY <1>5 DEF Reads, TypeInv, TypeOK

LEMMA RestStaged == Staged(Rest) /\ Rest.t = None
BY DEF Staged, Rest

LEMMA GiveUpType ==
  ASSUME TypeInv, NEW h \in Server, GiveUp(h), interventions' = interventions
  PROVE  TypeInv'
<1>1. TxOK' BY RestType, RestStaged, Moves DEF GiveUp
<1>2. queued' \in BOOLEAN BY DEF GiveUp, TypeInv, TypeOK
<1> QED BY <1>1, <1>2 DEF GiveUp, TxOK, TypeInv, TypeOK, rows, history

LEMMA InitType == ASSUME Init PROVE TypeInv
<1>1. tx \in [Server -> TxRecord] BY RestType DEF Init
<1>2. AllStaged BY RestStaged DEF Init, AllStaged
<1>3. job \in [Job -> JobRow] BY ConstantsAssumption DEF Init, JobRow, JobStatus
<1>4. task \in [Task -> TaskRow] BY DEF Init, TaskRow
<1> QED BY <1>1, <1>2, <1>3, <1>4 DEF Init, TypeInv, TypeOK, JobStatus

LEMMA BeginType ==
  ASSUME TypeInv, NEW h \in Server, Pick(h) \/ Report(h) \/ Stop(h),
         UNCHANGED interventions \/ interventions' = interventions + 1
  PROVE  TypeInv'
<1>1. ASSUME NEW r \in TxRecord, Staged(r), Reads(h, r), UNCHANGED << rows, queued, history >>
      PROVE  TypeInv'
  <2>1. TxOK' /\ current' \subseteq Server /\ summed' \subseteq Server
    BY <1>1, ReadsMoves
  <2> QED BY <1>1, <2>1 DEF TxOK, TypeInv, TypeOK, rows, history
<1>2. CASE Pick(h)
  <2>1. PICK j \in Job, t \in Task :
          Reads(h, [Rest EXCEPT !.op = "pick", !.pc = "job", !.at = j, !.t = t, !.to = "running",
                                !.wtask[t] = [status |-> "running", job |-> j]])
    BY <1>2 DEF Pick
  <2> DEFINE r == [Rest EXCEPT !.op = "pick", !.pc = "job", !.at = j, !.t = t, !.to = "running",
                               !.wtask[t] = [status |-> "running", job |-> j]]
  <2>2. r \in TxRecord BY RestType, StatusType DEF TxRecord, Op, PC, TaskRow
  <2>3. Staged(r) BY ConstantsAssumption, StatusType DEF Staged, Rest
  <2>4. Reads(h, r) BY <2>1
  <2> HIDE DEF r
  <2> QED BY <1>1, <1>2, <2>2, <2>3, <2>4 DEF Pick
<1>3. CASE Report(h)
  <2>1. ASSUME NEW t \in Task, task[t].status = "running", NEW result \in Result,
               Reads(h, [Rest EXCEPT !.op = "report", !.pc = "task",
                                    !.at = task[t].job, !.t = t, !.to = result])
        PROVE  TypeInv'
    <3> DEFINE r == [Rest EXCEPT !.op = "report", !.pc = "task",
                                 !.at = task[t].job, !.t = t, !.to = result]
    <3>1. r \in TxRecord
      BY RestType, StatusType, ConstantsAssumption DEF TxRecord, Op, PC, TypeInv, TypeOK, TaskRow
    <3>2. Staged(r) BY ConstantsAssumption DEF Staged, Rest
    <3>3. Reads(h, r) BY <2>1
    <3> HIDE DEF r
    <3> QED BY <1>1, <1>3, <3>1, <3>2, <3>3 DEF Reportable, Report
  <2>2. ASSUME NEW t \in Task, UNCHANGED << current, summed >>,
               tx' = [tx EXCEPT ![h] = [Rest EXCEPT !.op = "report", !.pc = "notify",
                                                   !.at = task[t].job]]
        PROVE  TypeInv'
    <3> DEFINE r == [Rest EXCEPT !.op = "report", !.pc = "notify", !.at = task[t].job]
    <3>1. r \in TxRecord BY RestType DEF TxRecord, Op, PC, TypeInv, TypeOK, TaskRow
    <3>2. Staged(r) BY DEF Staged, Rest
    <3>3. tx' = [tx EXCEPT ![h] = r] BY <2>2
    <3> HIDE DEF r
    <3>4. TxOK' BY <3>1, <3>2, <3>3, Moves
    <3>5. UNCHANGED << rows, queued, history >> BY <1>3 DEF Reportable, Report
    <3> QED BY <2>2, <3>4, <3>5 DEF TxOK, TypeInv, TypeOK, rows, history
  <2> QED BY <1>3, <2>1, <2>2 DEF Reportable, Report
<1>4. CASE Stop(h)
  <2>1. PICK t \in Task :
          Reads(h, [Rest EXCEPT !.op = "stop", !.pc = "job",
                                !.at = task[t].job, !.t = t, !.to = "failure"])
    BY <1>4 DEF Stop
  <2> DEFINE r == [Rest EXCEPT !.op = "stop", !.pc = "job",
                               !.at = task[t].job, !.t = t, !.to = "failure"]
  <2>2. r \in TxRecord BY RestType, StatusType DEF TxRecord, Op, PC, TypeInv, TypeOK, TaskRow, Done
  <2>3. Staged(r) BY StatusType DEF Staged, Rest, Done
  <2>4. Reads(h, r) BY <2>1
  <2> HIDE DEF r
  <2> QED BY <1>1, <1>4, <2>2, <2>3, <2>4 DEF Stop
<1> QED BY <1>2, <1>3, <1>4

LEMMA KeepsType ==
  ASSUME TypeInv, NEW h \in Server, NEW op \in Op, NEW S \in SUBSET Job,
         NEW read \in [Job -> JobRow], Keeps(h, op, S, read)
  PROVE  TxOK'
<1> DEFINE r == [Rest EXCEPT !.op = op, !.pc = "next",
                             !.todo = [j \in Job |-> IF j \in S THEN read[j] ELSE None]]
<1>1. r \in TxRecord BY RestType DEF TxRecord, Op, PC
<1>2. Staged(r) BY DEF Staged, Rest
<1>3. tx' = [tx EXCEPT ![h] = r] BY DEF Keeps
<1> HIDE DEF r
<1> QED BY <1>1, <1>2, <1>3, Moves

LEMMA InterveneType ==
  ASSUME TypeInv, NEW h \in Server, interventions' = interventions + 1,
         Cancel(h) \/ Supersede(h) \/ Abandon(h) \/ Rerun(h)
  PROVE  TypeInv'
<1>1. TxOK'
  <2> USE DEF TypeInv, TypeOK
  <2>1. CASE Cancel(h) BY <2>1, KeepsType DEF Cancel, Op, Unfinished
  <2>2. CASE Supersede(h) BY <2>2, KeepsType DEF Supersede, Op, Unfinished
  <2>3. CASE Abandon(h) BY <2>3, KeepsType DEF Abandon, Op
  <2>4. CASE Rerun(h) BY <2>4, KeepsType DEF Rerun, Op
  <2> QED BY <2>1, <2>2, <2>3, <2>4
<1> QED BY <1>1 DEF Cancel, Supersede, Abandon, Rerun, TxOK, TypeInv, TypeOK, rows, history

LEMMA ApproveType ==
  ASSUME TypeInv, NEW h \in Server,
         \/ Approve(h) /\ interventions' = interventions + 1
         \/ ApproveRun(h) /\ UNCHANGED interventions
  PROVE  TypeInv'
<1>1. CASE Approve(h) /\ interventions' = interventions + 1
  <2> DEFINE S == {j \in Job : Needs[j] = {} /\ job[j].status = "blocked"}
             r == [Rest EXCEPT !.op = "approve", !.pc = "approve",
                               !.todo = [j \in Job |-> IF j \in S THEN job[j] ELSE None]]
  <2>1. r \in TxRecord BY RestType DEF TxRecord, Op, PC, TypeInv, TypeOK
  <2>2. Staged(r) BY DEF Staged, Rest
  <2>3. tx' = [tx EXCEPT ![h] = r] BY <1>1 DEF Approve
  <2> HIDE DEF r
  <2>4. TxOK' BY <2>1, <2>2, <2>3, Moves
  <2> QED BY <1>1, <2>4 DEF Approve, TxOK, TypeInv, TypeOK, rows, history
<1>2. CASE ApproveRun(h) /\ UNCHANGED interventions
  <2>1. CASE GiveUp(h) BY <1>2, <2>1, GiveUpType
  <2>2. CASE h \in current
    <3> DEFINE r == [tx[h] EXCEPT !.wrun = run.status, !.pc = "next"]
    <3>1. tx' = [tx EXCEPT ![h] = r] BY <1>2, <2>2 DEF Unchanged, ApproveRun
    <3>2. tx[h] \in TxRecord /\ Staged(tx[h]) /\ run.status \in JobStatus
      BY DEF TypeInv, TypeOK, AllStaged
    <3>3. r \in TxRecord BY <3>2 DEF TxRecord, PC
    <3>4. Staged(r) BY <3>2 DEF Staged, TxRecord
    <3> HIDE DEF r
    <3>5. TxOK' BY <3>1, <3>3, <3>4, Moves
    <3> QED BY <1>2, <2>2, <3>5 DEF Unchanged, ApproveRun, TxOK, TypeInv, TypeOK, rows, history
  <2> QED BY <1>2, <2>1, <2>2 DEF Unchanged, ApproveRun
<1> QED BY <1>1, <1>2

(* NextJob leaves what the operation has written, and reads or not.        *)
Continues(h, r) ==
  /\ r.op = tx[h].op /\ r.wjob = tx[h].wjob /\ r.wtask = tx[h].wtask
  /\ r.wrun = tx[h].wrun /\ r.snap = tx[h].snap
  /\ r.pc = "next" \/ (r.pc = "job" /\ r.at \in Job)
  /\ r.todo = tx[h].todo \/ tx[h].op \in {"cancel", "supersede"}
  /\ \/ Reads(h, r)
     \/ tx' = [tx EXCEPT ![h] = r] /\ UNCHANGED << current, summed >>

LEMMA NextJobForms ==
  ASSUME TypeInv, NEW h \in Server, NextJob(h)
  PROVE  \E r \in TxRecord : Staged(r) /\ Continues(h, r)
<1>1. tx[h] \in TxRecord /\ Staged(tx[h]) BY DEF TypeInv, TypeOK, AllStaged
<1>2. PICK j \in Job :
        LET read == tx[h].todo[j]
            op   == tx[h].op
        IN
        /\ read # None
        /\ IF op \in {"cancel", "supersede"} /\ read.task # None
           THEN Reads(h, IF TasksSeen(h)[read.task].status \in Done
                         THEN [tx[h] EXCEPT !.todo[j] = None]
                         ELSE [tx[h] EXCEPT !.pc = "job", !.at = j, !.t = read.task,
                                            !.to = "cancelled"])
           ELSE /\ tx' = [tx EXCEPT ![h].pc = "job", ![h].at = j, ![h].t = None,
                                    ![h].to = CASE op = "emit" -> read.status
                                                [] op \in {"rerun", "approve"} -> "waiting"
                                                [] OTHER -> "cancelled"]
                /\ UNCHANGED << current, summed >>
  BY DEF NextJob
<1> DEFINE read == tx[h].todo[j]
           skip == [tx[h] EXCEPT !.todo[j] = None]
           stop == [tx[h] EXCEPT !.pc = "job", !.at = j, !.t = read.task, !.to = "cancelled"]
           to   == CASE tx[h].op = "emit" -> read.status
                     [] tx[h].op \in {"rerun", "approve"} -> "waiting"
                     [] OTHER -> "cancelled"
           goes == [tx[h] EXCEPT !.pc = "job", !.at = j, !.t = None, !.to = to]
<1>3. read \in JobRow BY <1>1, <1>2 DEF TxRecord
<1>4. skip \in TxRecord BY <1>1 DEF TxRecord
<1>5. stop \in TxRecord BY <1>1, <1>3, StatusType DEF TxRecord, JobRow, PC, Done
<1>6. to \in JobStatus BY <1>3, StatusType DEF JobRow, Done
<1>7. goes \in TxRecord
  <2> HIDE DEF to
  <2> QED BY <1>1, <1>6 DEF TxRecord, PC
<1>8. Staged(skip) BY <1>1 DEF Staged, TxRecord
<1>9. \/ Reads(h, skip) /\ tx[h].op \in {"cancel", "supersede"}
      \/ Reads(h, stop) /\ tx[h].op \in {"cancel", "supersede"}
      \/ tx' = [tx EXCEPT ![h] = goes] /\ UNCHANGED << current, summed >>
  BY <1>2
<1>10. tx[h].pc = "next" BY DEF NextJob, At
<1>11. CASE Reads(h, skip) /\ tx[h].op \in {"cancel", "supersede"}
  <2>2. /\ skip.op = tx[h].op /\ skip.wjob = tx[h].wjob /\ skip.wtask = tx[h].wtask
        /\ skip.wrun = tx[h].wrun /\ skip.snap = tx[h].snap /\ skip.pc = "next"
    BY <1>1, <1>10 DEF TxRecord
  <2>1. Continues(h, skip) BY <1>11, <2>2 DEF Continues
  <2> HIDE DEF skip
  <2> QED BY <1>4, <1>8, <2>1
<1>12. CASE Reads(h, stop) /\ tx[h].op \in {"cancel", "supersede"}
  <2>1. Continues(h, stop) BY <1>1, <1>12 DEF Continues, TxRecord
  <2>2. Staged(stop) BY <1>1, <1>12, StatusType DEF Staged, TxRecord, Done
  <2> HIDE DEF stop
  <2> QED BY <1>5, <2>1, <2>2
<1>13. CASE tx' = [tx EXCEPT ![h] = goes] /\ UNCHANGED << current, summed >>
  <2> HIDE DEF to
  <2>1. Continues(h, goes) BY <1>1, <1>13 DEF Continues, TxRecord
  <2>2. Staged(goes) BY <1>1, <1>6, StatusType DEF Staged, TxRecord
  <2> HIDE DEF goes
  <2> QED BY <1>7, <2>1, <2>2
<1> QED BY <1>9, <1>11, <1>12, <1>13

LEMMA NextJobType ==
  ASSUME TypeInv, NEW h \in Server, NextJob(h), UNCHANGED interventions
  PROVE  TypeInv'
<1>1. PICK r \in TxRecord : Staged(r) /\ Continues(h, r) BY NextJobForms
<1>2. TxOK' /\ current' \subseteq Server /\ summed' \subseteq Server
  BY <1>1, Moves, ReadsMoves DEF Continues, TypeInv, TypeOK
<1> QED BY <1>2 DEF NextJob, TxOK, TypeInv, TypeOK, rows, history

LEMMA NewRowType ==
  ASSUME TypeInv, NEW h \in Server, NEW row \in JobRow, At(h, "job")
  PROVE  NewRow(h, row) \in JobRow
<1>1. tx[h] \in TxRecord /\ Staged(tx[h]) BY DEF TypeInv, TypeOK, AllStaged
<1>2. tx[h].to \in JobStatus BY <1>1 DEF Staged, TxRecord, At
<1> QED BY <1>1, <1>2, ConstantsAssumption DEF NewRow, JobRow, TxRecord

LEMMA UpdateJobType ==
  ASSUME TypeInv, NEW h \in Server, UpdateJob(h), UNCHANGED interventions
  PROVE  TypeInv'
<1> DEFINE j == tx[h].at
           row == Over(job, tx[h].wjob)[j]
           next == [tx[h] EXCEPT !.todo[j] = None,
                                 !.pc = IF tx[h].snap = None THEN "loadRun" ELSE "loadJobs"]
           writes == [next EXCEPT !.wjob[j] = NewRow(h, row)]
<1>1. CASE GiveUp(h) BY <1>1, GiveUpType
<1>2. CASE ~GiveUp(h)
  <2>1. tx[h] \in TxRecord /\ Staged(tx[h]) BY DEF TypeInv, TypeOK, AllStaged
  <2>2. next \in TxRecord BY <2>1 DEF TxRecord, PC
  <2>3. Staged(next) BY <2>1 DEF Staged, TxRecord
  <2>4. j \in Job => NewRow(h, row) \in JobRow
    <3>1. j \in Job => row \in JobRow BY <2>1, OverJobs DEF TypeInv, TypeOK, TxRecord
    <3> HIDE DEF row
    <3> QED BY <3>1, NewRowType DEF UpdateJob
  <2>5. \/ tx' = [tx EXCEPT ![h] = writes] /\ UNCHANGED << job, summed, loose, unheard >>
        \/ /\ tx' = [tx EXCEPT ![h] = next]
           /\ job' = [job EXCEPT ![j] = NewRow(h, row)]
           /\ summed' = {} /\ loose' = TRUE /\ unheard' = Awaited(unheard \cup {j})
    BY <1>2 DEF UpdateJob
  <2>6. UNCHANGED << isolation, task, run, current, queued, torn, interventions >>
    BY <1>2 DEF UpdateJob
  <2> DEFINE new == NewRow(h, row)
  <2>7. j \in Job => new \in JobRow BY <2>4
  <2> HIDE DEF next, new, j
  <2>8. writes \in TxRecord /\ Staged(writes)
    <3>1. writes = [next EXCEPT !.wjob[j] = new] BY DEF new
    <3>2. writes \in TxRecord BY <2>2, <2>7, <3>1 DEF TxRecord
    <3>3. Staged(writes) BY <2>2, <2>3, <3>1 DEF Staged, TxRecord
    <3> QED BY <3>2, <3>3
  <2> HIDE DEF writes
  <2>9. TxOK' BY <2>2, <2>3, <2>5, <2>8, Moves
  <2>10. job' \in [Job -> JobRow]
    <3>1. job' = job \/ job' = [job EXCEPT ![j] = new] BY <2>5 DEF new
    <3> QED BY <2>7, <3>1 DEF TypeInv, TypeOK
  <2>11. summed' \subseteq Server /\ loose' \in BOOLEAN /\ unheard' \subseteq Job
    BY <2>5 DEF TypeInv, TypeOK, Awaited
  <2> QED BY <2>6, <2>9, <2>10, <2>11 DEF TxOK, TypeInv, TypeOK
<1> QED BY <1>1, <1>2

LEMMA LoadType ==
  ASSUME TypeInv, NEW h \in Server, LoadRun(h) \/ LoadJobs(h), UNCHANGED interventions
  PROVE  TypeInv'
<1>1. tx[h] \in TxRecord /\ Staged(tx[h]) BY DEF TypeInv, TypeOK, AllStaged
<1>2. CASE LoadRun(h)
  <2> DEFINE r == [tx[h] EXCEPT !.pc = "loadJobs"]
  <2>1. r \in TxRecord BY <1>1 DEF TxRecord, PC
  <2>2. Staged(r) BY <1>1 DEF Staged, TxRecord
  <2>3. \/ Reads(h, r)
        \/ tx' = [tx EXCEPT ![h] = r] /\ current' = current \cup {h} /\ UNCHANGED summed
    BY <1>2 DEF LoadRun
  <2> HIDE DEF r
  <2>4. TxOK' /\ current' \subseteq Server /\ summed' \subseteq Server
    BY <2>1, <2>2, <2>3, Moves, ReadsMoves DEF TypeInv, TypeOK
  <2> QED BY <1>2, <2>4 DEF LoadRun, TxOK, TypeInv, TypeOK, rows, history
<1>3. CASE LoadJobs(h)
  <2> DEFINE sum == Aggregate(JobsSeen(h))
             r   == [tx[h] EXCEPT !.pc = "run", !.sum = sum]
  <2>1. sum \in JobStatus /\ sum # None BY AggregateType
  <2>2. tx' = [tx EXCEPT ![h] = r] BY <1>3 DEF LoadJobs
  <2> HIDE DEF sum
  <2>3. r \in TxRecord BY <1>1, <2>1 DEF TxRecord, PC
  <2>4. Staged(r) BY <1>1, <2>1 DEF Staged, TxRecord
  <2> HIDE DEF r
  <2>5. TxOK' BY <2>2, <2>3, <2>4, Moves
  <2> QED BY <1>3, <2>5 DEF LoadJobs, TxOK, TypeInv, TypeOK, rows, history
<1> QED BY <1>2, <1>3

LEMMA UpdateRunType ==
  ASSUME TypeInv, NEW h \in Server, UpdateRun(h), UNCHANGED interventions
  PROVE  TypeInv'
<1> DEFINE stops == tx[h].op \in {"stop", "cancel", "supersede"} /\ tx[h].t # None
           next  == IF stops THEN [tx[h] EXCEPT !.sum = None, !.pc = "task"]
                    ELSE [tx[h] EXCEPT !.sum = None, !.pc = "next", !.t = None, !.to = None]
           writes == [next EXCEPT !.wrun = tx[h].sum]
<1>1. CASE GiveUp(h) BY <1>1, GiveUpType
<1>2. CASE ~GiveUp(h)
  <2>1. tx[h] \in TxRecord /\ Staged(tx[h]) BY DEF TypeInv, TypeOK, AllStaged
  <2>2. next \in TxRecord BY <2>1 DEF TxRecord, PC
  <2>3. Staged(next) BY <2>1 DEF Staged, TxRecord
  <2>4. tx[h].sum \in JobStatus BY <2>1 DEF Unchanged, Staged, TxRecord, UpdateRun, At
  <2>5. \/ tx' = [tx EXCEPT ![h] = writes] /\ UNCHANGED << run, current, loose >>
        \/ /\ tx' = [tx EXCEPT ![h] = next]
           /\ run' = [status |-> tx[h].sum, computed |-> TRUE]
           /\ current' = {} /\ loose' = (loose /\ h \notin summed)
    BY <1>2 DEF Unchanged, UpdateRun
  <2>6. UNCHANGED << isolation, job, task, summed, queued, unheard, torn, interventions >>
    BY <1>2 DEF Unchanged, UpdateRun
  <2> HIDE DEF next
  <2>7. writes \in TxRecord BY <2>2, <2>4 DEF TxRecord
  <2>8. Staged(writes) BY <2>2, <2>3 DEF Staged, TxRecord
  <2> HIDE DEF writes
  <2>9. TxOK' BY <2>2, <2>3, <2>5, <2>7, <2>8, Moves
  <2>10. run' \in [status : JobStatus, computed : BOOLEAN] /\ current' \subseteq Server
    <3>1. \/ run' = run /\ current' = current
          \/ run' = [status |-> tx[h].sum, computed |-> TRUE] /\ current' = {}
      BY <2>5
    <3>2. [status |-> tx[h].sum, computed |-> TRUE] \in [status : JobStatus, computed : BOOLEAN]
      BY <2>4
    <3> QED BY <3>1, <3>2 DEF TypeInv, TypeOK
  <2>11. loose' \in BOOLEAN BY <2>5 DEF TypeInv, TypeOK
  <2> QED BY <2>6, <2>9, <2>10, <2>11 DEF TxOK, TypeInv, TypeOK
<1> QED BY <1>1, <1>2

LEMMA UpdateTaskType ==
  ASSUME TypeInv, NEW h \in Server, UpdateTask(h), UNCHANGED interventions
  PROVE  TypeInv'
<1> DEFINE t == tx[h].t
           row == [Over(task, tx[h].wtask)[t] EXCEPT !.status = tx[h].to]
           next == IF tx[h].op = "report" THEN [tx[h] EXCEPT !.pc = "job"]
                   ELSE [tx[h] EXCEPT !.pc = "next", !.t = None, !.to = None]
           writes == [next EXCEPT !.wtask[t] = row]
<1>1. tx[h] \in TxRecord /\ Staged(tx[h]) BY DEF TypeInv, TypeOK, AllStaged
<1>2. t \in Task /\ tx[h].to \in Done BY <1>1 DEF Staged, TxRecord, UpdateTask, At
<1>3. next \in TxRecord BY <1>1 DEF TxRecord, PC
<1>4. Staged(next) BY <1>1, <1>2, StatusType DEF Staged, TxRecord
<1>5. row \in TaskRow
  <2>1. Over(task, tx[h].wtask)[t] \in TaskRow
    BY <1>1, <1>2, OverTasks DEF TypeInv, TypeOK, TxRecord
  <2> QED BY <1>2, <2>1 DEF TaskRow
<1>6. \/ tx' = [tx EXCEPT ![h] = writes] /\ UNCHANGED << task, torn >>
      \/ /\ tx' = [tx EXCEPT ![h] = next] /\ task' = [task EXCEPT ![t] = row]
         /\ torn' = torn \cup {t}
  BY DEF UpdateTask
<1>7. UNCHANGED << isolation, job, run, current, summed, queued, loose, unheard, interventions >>
  BY DEF UpdateTask
<1> HIDE DEF row, next
<1>8. writes \in TxRecord BY <1>2, <1>3, <1>5 DEF TxRecord
<1>9. Staged(writes) BY <1>3, <1>4 DEF Staged, TxRecord
<1> HIDE DEF writes, t
<1>10. TxOK' BY <1>3, <1>4, <1>6, <1>8, <1>9, Moves
<1>11. task' \in [Task -> TaskRow] /\ torn' \subseteq Task
  BY <1>2, <1>5, <1>6 DEF TypeInv, TypeOK
<1> QED BY <1>7, <1>10, <1>11 DEF TxOK, TypeInv, TypeOK

LEMMA CommitType ==
  ASSUME TypeInv, NEW h \in Server, Commit(h), UNCHANGED interventions
  PROVE  TypeInv'
<1>1. tx[h] \in TxRecord BY DEF TypeInv, TypeOK
<1> DEFINE told == [Rest EXCEPT !.op = "report", !.pc = "notify", !.at = tx[h].at]
<1>2. told \in TxRecord BY <1>1, RestType DEF TxRecord, Op, PC
<1>3. Staged(told) BY DEF Staged, Rest
<1>4. tx' = [tx EXCEPT ![h] = told] \/ tx' = [tx EXCEPT ![h] = Rest] BY DEF Tells, Commit
<1> HIDE DEF told
<1>5. TxOK' BY <1>2, <1>3, <1>4, RestType, RestStaged, Moves
<1>6. job' \in [Job -> JobRow] /\ task' \in [Task -> TaskRow]
  BY <1>1, OverJobs, OverTasks DEF Tells, Commit, TypeInv, TypeOK, TxRecord
<1>7. run' \in [status : JobStatus, computed : BOOLEAN] /\ current' \subseteq Server
  <2> DEFINE computed == run.computed \/ Written(h) # {}
             row == [status |-> tx[h].wrun, computed |-> computed]
  <2>1. CASE tx[h].wrun = None BY <2>1 DEF Tells, Commit, TypeInv, TypeOK
  <2>2. CASE tx[h].wrun # None
    <3>1. run' = row /\ current' = {} BY <2>2 DEF Tells, Commit
    <3>2. computed \in BOOLEAN OBVIOUS
    <3> HIDE DEF computed
    <3>3. row \in [status : JobStatus, computed : BOOLEAN] BY <1>1, <2>2, <3>2 DEF TxRecord
    <3> QED BY <3>1, <3>3
  <2> QED BY <2>1, <2>2
<1>8. loose' \in BOOLEAN BY DEF Tells, Commit, TypeInv, TypeOK
<1>9. summed' \subseteq Server /\ unheard' \subseteq Job BY DEF Tells, Commit, Awaited, TypeInv, TypeOK
<1> QED BY <1>5, <1>6, <1>7, <1>8, <1>9 DEF Tells, Commit, TxOK, TypeInv, TypeOK

LEMMA QueueType ==
  ASSUME TypeInv, NEW h \in Server, Emit(h) \/ Notify(h) \/ Victim(h), UNCHANGED interventions
  PROVE  TypeInv'
<1>1. CASE Emit(h)
  <2> DEFINE resolved == Resolve(job)
             S == {j \in Job : resolved[j] # job[j]}
  <2>1. resolved \in [Job -> JobRow] BY ResolveType DEF TypeInv, TypeOK
  <2>2. UNCHANGED tx \/ Keeps(h, "emit", S, resolved) BY <1>1 DEF Emit
  <2> HIDE DEF resolved
  <2>3. TxOK'
    <3>1. CASE UNCHANGED tx BY <3>1 DEF TxOK, TypeInv, TypeOK, AllStaged
    <3>2. CASE Keeps(h, "emit", S, resolved) BY <3>2, <2>1, KeepsType DEF Op
    <3> QED BY <2>2, <3>1, <3>2
  <2> QED BY <1>1, <2>3 DEF Emit, TxOK, TypeInv, TypeOK, rows, history
<1>2. CASE Notify(h)
  <2>1. TxOK' BY <1>2, RestType, RestStaged, Moves DEF Notify
  <2>2. queued' \in BOOLEAN /\ unheard' \subseteq Job
    BY <1>2 DEF Notify, Awaited, TypeInv, TypeOK
  <2> QED BY <1>2, <2>1, <2>2 DEF Notify, TxOK, TypeInv, TypeOK, rows
<1>3. CASE Victim(h) BY <1>3, GiveUpType DEF Victim
<1> QED BY <1>1, <1>2, <1>3

LEMMA NextType == ASSUME TypeInv, Next PROVE TypeInv'
<1>1. PICK h \in Server : Intervene(h) \/ Request(h) \/ Handle(h) \/ Step(h) BY DEF Next
<1>2. CASE Intervene(h) BY <1>2, BeginType, InterveneType, ApproveType DEF Intervene
<1>3. CASE Request(h) BY <1>3, BeginType DEF Request
<1>4. CASE Handle(h) BY <1>4, QueueType DEF Handle
<1>5. CASE Step(h)
  BY <1>5, ApproveType, NextJobType, UpdateJobType, LoadType, UpdateRunType, UpdateTaskType,
     CommitType, QueueType DEF Step
<1> QED BY <1>1, <1>2, <1>3, <1>4, <1>5

(* The rows and what the goroutines hold have their types, whatever the    *)
(* jobs, their needs, and the goroutines are.                              *)
THEOREM TypeCorrect == Spec => []TypeOK
<1>1. Init => TypeInv BY InitType
<1>2. TypeInv /\ [Next]_vars => TypeInv'
  <2>1. TypeInv /\ UNCHANGED vars => TypeInv' BY DEF vars, TypeInv, TypeOK, AllStaged
  <2> QED BY <2>1, NextType
<1>3. TypeInv => TypeOK BY DEF TypeInv
<1> QED BY <1>1, <1>2, <1>3, PTL DEF Spec

-----------------------------------------------------------------------------
(* The shape of an operation: what it has read and written at each of its  *)
(* statements.                                                             *)

Writes(r) == {j \in Job : r.wjob[j] # None}
Left(r)   == \E j \in Job : r.todo[j] # None

(* The run is written after a job, but by an approval, which then has jobs *)
(* to release; a report writes its task first; CancelRunningJobs has       *)
(* nothing uncommitted.                                                    *)
Shape(r) ==
  /\ r.pc \in {"job", "task", "loadRun", "loadJobs", "run"} => r.at \in Job
  /\ r.pc \in {"loadRun", "loadJobs", "run"} => r.op = "supersede" \/ Writes(r) # {}
  /\ r.pc = "loadRun" => r.snap = None
  /\ r.pc = "approve" => r.op = "approve" /\ Writes(r) = {} /\ Left(r)
  /\ r.wrun # None /\ Writes(r) = {} => r.op = "approve" /\ Left(r)
  /\ r.op = "report" /\ r.pc = "task" => Writes(r) = {}
  /\ r.op = "supersede" => Writes(r) = {} /\ r.wrun = None /\ r.snap = None
  /\ \A t \in Task : r.wtask[t] # None /\ r.wtask[t].status = "running" => r.wtask[t].job \in Job

(* Under snapshot isolation a write is followed by a read. *)
SnapTaken(r) == isolation = "snapshot" /\ Writes(r) # {} /\ r.snap = None => r.pc = "loadRun"

Placed == \A t \in Task : task[t].status = "running" => task[t].job \in Job
Shaped == Placed /\ \A h \in Server : Shape(tx[h]) /\ SnapTaken(tx[h])

LEMMA ShapeMoves ==
  ASSUME TypeInv, Shaped, NEW h \in Server, NEW r \in TxRecord, Shape(r), SnapTaken(r),
         tx' = [tx EXCEPT ![h] = r], UNCHANGED isolation, Placed'
  PROVE  Shaped'
<1>1. ASSUME NEW g \in Server PROVE Shape(tx'[g]) /\ SnapTaken(tx[g])'
  <2>1. tx'[g] = IF g = h THEN r ELSE tx[g] BY DEF TypeInv, TypeOK
  <2>2. Shape(tx'[g]) /\ SnapTaken(tx'[g]) BY <2>1 DEF Shaped
  <2> QED BY <2>2 DEF SnapTaken
<1>2. \A g \in Server : Shape(tx[g])' BY <1>1 DEF Shape, Writes, Left
<1> QED BY <1>1, <1>2 DEF Shaped

LEMMA ShapeReads ==
  ASSUME TypeInv, Shaped, NEW h \in Server, NEW r \in TxRecord, Shape(r), r.pc # "loadRun",
         Reads(h, r), UNCHANGED << isolation, task >>
  PROVE  Shaped'
<1> DEFINE snap == [job |-> job, task |-> task]
           q == [r EXCEPT !.snap = snap]
<1>1. snap \in Snapshot
  BY DEF TypeInv, TypeOK, Snapshot
<1>2. q \in TxRecord /\ q.snap = snap
  <2> HIDE DEF snap
  <2> QED BY <1>1 DEF TxRecord
<1>3. snap # None BY ConstantsAssumption, <1>1
<1>4. Placed' BY DEF Shaped, Placed
<1>5. CASE isolation = "snapshot" /\ r.op # "supersede" /\ r.snap = None
  <2>1. tx' = [tx EXCEPT ![h] = q] BY <1>5 DEF Reads
  <2>2. Shape(q) BY <1>5 DEF Shape, Writes, Left, TxRecord
  <2> HIDE DEF snap, q
  <2>3. SnapTaken(q) BY <1>2, <1>3 DEF SnapTaken
  <2> QED BY <1>2, <1>4, <2>1, <2>2, <2>3, ShapeMoves
<1>6. CASE ~(isolation = "snapshot" /\ r.op # "supersede" /\ r.snap = None)
  <2>1. tx' = [tx EXCEPT ![h] = r] BY <1>6 DEF Reads
  <2>2. SnapTaken(r) BY <1>6 DEF SnapTaken, Shape
  <2> QED BY <1>4, <2>1, <2>2, ShapeMoves
<1> QED BY <1>5, <1>6

LEMMA RestShape ==
  ASSUME NEW r \in TxRecord, r.wjob = Rest.wjob, r.wtask = Rest.wtask, r.wrun = None, r.snap = None,
         r.pc \in {"job", "task"} => r.at \in Job,
         r.pc \in {"idle", "next", "job", "task", "notify"}
  PROVE  Shape(r) /\ SnapTaken(r)
<1>1. Writes(r) = {} BY DEF Writes, Rest
<1>2. \A t \in Task : r.wtask[t] = None BY DEF Rest
<1> QED BY <1>1, <1>2 DEF Shape, SnapTaken

LEMMA ShapeGiveUp ==
  ASSUME TypeInv, Shaped, NEW h \in Server, GiveUp(h)
  PROVE  Shaped'
<1>1. Shape(Rest) /\ SnapTaken(Rest) BY RestType, RestShape DEF Rest
<1>2. Placed' BY DEF GiveUp, rows, Shaped, Placed
<1> QED BY <1>1, <1>2, RestType, ShapeMoves DEF GiveUp, rows

LEMMA ShapeBegin ==
  ASSUME TypeInv, Shaped, NEW h \in Server, Pick(h) \/ Report(h) \/ Stop(h)
  PROVE  Shaped'
<1>1. UNCHANGED << isolation, task >> BY DEF Reportable, Pick, Report, Stop, rows
<1>2. CASE Pick(h)
  <2>1. PICK j \in Job, t \in Task :
          Reads(h, [Rest EXCEPT !.op = "pick", !.pc = "job", !.at = j, !.t = t, !.to = "running",
                                !.wtask[t] = [status |-> "running", job |-> j]])
    BY <1>2 DEF Pick
  <2> DEFINE r == [Rest EXCEPT !.op = "pick", !.pc = "job", !.at = j, !.t = t, !.to = "running",
                               !.wtask[t] = [status |-> "running", job |-> j]]
  <2>2. r \in TxRecord BY RestType, StatusType DEF TxRecord, Op, PC, TaskRow
  <2>3. Shape(r)
    <3>1. Writes(r) = {} /\ r.wrun = None /\ r.pc = "job" /\ r.op = "pick" /\ r.at = j
      BY DEF Writes, Rest
    <3>2. \A s \in Task : r.wtask[s] # None => r.wtask[s].job = j BY DEF Rest
    <3> HIDE DEF r
    <3> QED BY <3>1, <3>2 DEF Shape
  <2>4. Reads(h, r) /\ r.pc = "job" BY <2>1 DEF Rest
  <2> HIDE DEF r
  <2> QED BY <1>1, <2>2, <2>3, <2>4, ShapeReads
<1>3. CASE Report(h)
  <2>1. ASSUME NEW t \in Task, task[t].status = "running", NEW result \in Result,
               Reads(h, [Rest EXCEPT !.op = "report", !.pc = "task",
                                    !.at = task[t].job, !.t = t, !.to = result])
        PROVE  Shaped'
    <3> DEFINE r == [Rest EXCEPT !.op = "report", !.pc = "task",
                                 !.at = task[t].job, !.t = t, !.to = result]
    <3>1. r \in TxRecord
      BY RestType, StatusType, ConstantsAssumption DEF TxRecord, Op, PC, TypeInv, TypeOK, TaskRow
    <3>2. r.at \in Job BY <2>1 DEF Shaped, Placed, Rest
    <3>3. Shape(r) BY <3>1, <3>2, RestShape DEF Rest
    <3>4. Reads(h, r) /\ r.pc = "task" BY <2>1 DEF Rest
    <3> HIDE DEF r
    <3> QED BY <1>1, <3>1, <3>3, <3>4, ShapeReads
  <2>2. ASSUME NEW t \in Task,
               tx' = [tx EXCEPT ![h] = [Rest EXCEPT !.op = "report", !.pc = "notify",
                                                   !.at = task[t].job]]
        PROVE  Shaped'
    <3> DEFINE r == [Rest EXCEPT !.op = "report", !.pc = "notify", !.at = task[t].job]
    <3>1. r \in TxRecord BY RestType DEF TxRecord, Op, PC, TypeInv, TypeOK, TaskRow
    <3>2. Shape(r) /\ SnapTaken(r) BY <3>1, RestShape DEF Rest
    <3>3. tx' = [tx EXCEPT ![h] = r] BY <2>2
    <3>4. Placed' BY <1>1 DEF Shaped, Placed
    <3> HIDE DEF r
    <3> QED BY <1>1, <3>1, <3>2, <3>3, <3>4, ShapeMoves
  <2> QED BY <1>3, <2>1, <2>2 DEF Reportable, Report
<1>4. CASE Stop(h)
  <2>1. PICK t \in Task :
          /\ task[t].status = "running"
          /\ Reads(h, [Rest EXCEPT !.op = "stop", !.pc = "job",
                                   !.at = task[t].job, !.t = t, !.to = "failure"])
    BY <1>4 DEF Stop
  <2> DEFINE r == [Rest EXCEPT !.op = "stop", !.pc = "job",
                               !.at = task[t].job, !.t = t, !.to = "failure"]
  <2>2. r \in TxRecord BY RestType, StatusType DEF TxRecord, Op, PC, TypeInv, TypeOK, TaskRow, Done
  <2>3. r.at \in Job BY <2>1 DEF Shaped, Placed, Rest
  <2>4. Shape(r) BY <2>2, <2>3, RestShape DEF Rest
  <2>5. Reads(h, r) /\ r.pc = "job" BY <2>1 DEF Rest
  <2> HIDE DEF r
  <2> QED BY <1>1, <2>2, <2>4, <2>5, ShapeReads
<1> QED BY <1>2, <1>3, <1>4

LEMMA ShapeKeeps ==
  ASSUME TypeInv, Shaped, NEW h \in Server, NEW op \in Op, NEW S \in SUBSET Job,
         NEW read \in [Job -> JobRow], Keeps(h, op, S, read), UNCHANGED << isolation, task >>
  PROVE  Shaped'
<1> DEFINE r == [Rest EXCEPT !.op = op, !.pc = "next",
                             !.todo = [j \in Job |-> IF j \in S THEN read[j] ELSE None]]
<1>1. r \in TxRecord BY RestType DEF TxRecord, Op, PC
<1>2. Shape(r) /\ SnapTaken(r) BY <1>1, RestShape DEF Rest
<1>3. tx' = [tx EXCEPT ![h] = r] BY DEF Keeps
<1>4. Placed' BY DEF Shaped, Placed
<1> HIDE DEF r
<1> QED BY <1>1, <1>2, <1>3, <1>4, ShapeMoves

LEMMA ShapeIntervene ==
  ASSUME TypeInv, Shaped, NEW h \in Server, Cancel(h) \/ Supersede(h) \/ Abandon(h) \/ Rerun(h)
  PROVE  Shaped'
<1> USE DEF TypeInv, TypeOK, rows
<1>1. CASE Cancel(h) BY <1>1, ShapeKeeps DEF Cancel, Op, Unfinished
<1>2. CASE Supersede(h) BY <1>2, ShapeKeeps DEF Supersede, Op, Unfinished
<1>3. CASE Abandon(h) BY <1>3, ShapeKeeps DEF Abandon, Op
<1>4. CASE Rerun(h) BY <1>4, ShapeKeeps DEF Rerun, Op
<1> QED BY <1>1, <1>2, <1>3, <1>4

LEMMA ShapeApprove ==
  ASSUME TypeInv, Shaped, NEW h \in Server, Approve(h) \/ ApproveRun(h)
  PROVE  Shaped'
<1>1. CASE Approve(h)
  <2> DEFINE S == {j \in Job : Needs[j] = {} /\ job[j].status = "blocked"}
             r == [Rest EXCEPT !.op = "approve", !.pc = "approve",
                               !.todo = [j \in Job |-> IF j \in S THEN job[j] ELSE None]]
  <2>1. r \in TxRecord BY RestType DEF TxRecord, Op, PC, TypeInv, TypeOK
  <2>2. /\ Writes(r) = {} /\ r.wrun = None /\ r.snap = None /\ r.pc = "approve" /\ r.op = "approve"
        /\ \A t \in Task : r.wtask[t] = None
    BY DEF Writes, Rest
  <2>3. Left(r)
    <3>1. PICK j \in Job : j \in S BY <1>1 DEF Approve
    <3>2. r.todo[j] = job[j] /\ job[j] # None
      BY <3>1, ConstantsAssumption DEF TypeInv, TypeOK, Rest
    <3> QED BY <3>2 DEF Left
  <2>4. tx' = [tx EXCEPT ![h] = r] BY <1>1 DEF Approve
  <2> HIDE DEF r
  <2>5. Shape(r) /\ SnapTaken(r) BY <2>2, <2>3 DEF Shape, SnapTaken
  <2>6. UNCHANGED isolation /\ Placed' BY <1>1 DEF Approve, rows, Shaped, Placed
  <2> QED BY <2>1, <2>4, <2>5, <2>6, ShapeMoves
<1>2. CASE ApproveRun(h)
  <2>1. CASE GiveUp(h) BY <1>2, <2>1, ShapeGiveUp
  <2>2. CASE h \in current
    <3> DEFINE r == [tx[h] EXCEPT !.wrun = run.status, !.pc = "next"]
    <3>1. tx' = [tx EXCEPT ![h] = r] BY <1>2, <2>2 DEF Unchanged, ApproveRun
    <3>2. tx[h] \in TxRecord /\ Shape(tx[h]) /\ SnapTaken(tx[h]) /\ run.status \in JobStatus
      BY DEF TypeInv, TypeOK, Shaped
    <3>3. r \in TxRecord BY <3>2 DEF TxRecord, PC
    <3>4. /\ r.todo = tx[h].todo /\ r.wjob = tx[h].wjob /\ r.wtask = tx[h].wtask
          /\ r.snap = tx[h].snap /\ r.op = tx[h].op /\ r.pc = "next"
      BY <3>2 DEF TxRecord
    <3> HIDE DEF r
    <3>5. Shape(r) /\ SnapTaken(r)
      BY <1>2, <3>2, <3>4 DEF Unchanged, Shape, SnapTaken, Writes, Left, ApproveRun, At
    <3>6. UNCHANGED isolation /\ Placed' BY <1>2, <2>2 DEF Unchanged, ApproveRun, rows, Shaped, Placed
    <3> QED BY <3>1, <3>3, <3>5, <3>6, ShapeMoves
  <2> QED BY <1>2, <2>1, <2>2 DEF Unchanged, ApproveRun
<1> QED BY <1>1, <1>2

LEMMA ShapeNextJob ==
  ASSUME TypeInv, Shaped, NEW h \in Server, NextJob(h)
  PROVE  Shaped'
<1>1. PICK r \in TxRecord : Staged(r) /\ Continues(h, r) BY NextJobForms
<1>2. tx[h] \in TxRecord /\ Shape(tx[h]) /\ SnapTaken(tx[h]) /\ tx[h].pc = "next"
  BY DEF TypeInv, TypeOK, Shaped, NextJob, At
<1>3. Shape(r) BY <1>1, <1>2 DEF Continues, Shape, Writes, Left
<1>4. SnapTaken(r) BY <1>1, <1>2 DEF Continues, SnapTaken, Writes
<1>5. UNCHANGED << isolation, task >> /\ Placed' BY DEF NextJob, rows, Shaped, Placed
<1>6. r.pc # "loadRun" BY <1>1 DEF Continues
<1> QED BY <1>1, <1>3, <1>4, <1>5, <1>6, ShapeMoves, ShapeReads DEF Continues

LEMMA ShapeUpdateJob ==
  ASSUME TypeInv, Shaped, NEW h \in Server, UpdateJob(h)
  PROVE  Shaped'
<1> DEFINE j == tx[h].at
           row == Over(job, tx[h].wjob)[j]
           next == [tx[h] EXCEPT !.todo[j] = None,
                                 !.pc = IF tx[h].snap = None THEN "loadRun" ELSE "loadJobs"]
           new == NewRow(h, row)
           writes == [next EXCEPT !.wjob[j] = new]
<1>1. CASE GiveUp(h) BY <1>1, ShapeGiveUp
<1>2. CASE ~GiveUp(h)
  <2>1. tx[h] \in TxRecord /\ Shape(tx[h]) /\ SnapTaken(tx[h]) /\ tx[h].pc = "job" /\ j \in Job
    BY DEF TypeInv, TypeOK, Shaped, Shape, UpdateJob, At
  <2>2. next \in TxRecord BY <2>1 DEF TxRecord, PC
  <2>3. new \in JobRow
    <3>1. row \in JobRow BY <2>1, OverJobs DEF TypeInv, TypeOK, TxRecord
    <3> HIDE DEF row
    <3> QED BY <3>1, NewRowType DEF UpdateJob
  <2>4. \/ InTx(h) /\ tx' = [tx EXCEPT ![h] = writes]
        \/ ~InTx(h) /\ tx' = [tx EXCEPT ![h] = next]
    BY <1>2 DEF UpdateJob
  <2>5. UNCHANGED isolation /\ Placed' BY <1>2 DEF UpdateJob, Shaped, Placed
  <2>6. /\ next.op = tx[h].op /\ next.at = j /\ next.wjob = tx[h].wjob /\ next.wtask = tx[h].wtask
        /\ next.wrun = tx[h].wrun /\ next.snap = tx[h].snap
        /\ next.pc = IF tx[h].snap = None THEN "loadRun" ELSE "loadJobs"
    BY <2>1 DEF TxRecord
  <2> HIDE DEF next, new
  <2>7. CASE InTx(h) /\ tx' = [tx EXCEPT ![h] = writes]
    <3>1. writes \in TxRecord BY <2>2, <2>3 DEF TxRecord
    <3>2. /\ writes.op = tx[h].op /\ writes.at = j /\ writes.wtask = tx[h].wtask
          /\ writes.wrun = tx[h].wrun /\ writes.snap = tx[h].snap /\ writes.pc = next.pc
          /\ writes.wjob[j] = new
      BY <2>1, <2>2, <2>6 DEF TxRecord
    <3> HIDE DEF writes, j
    <3>3. Writes(writes) # {}
      <4>1. new # None BY <2>3, ConstantsAssumption
      <4> QED BY <2>1, <3>2, <4>1 DEF Writes
    <3>4. Shape(writes) BY <2>1, <2>6, <2>7, <3>2, <3>3 DEF Shape, InTx
    <3>5. SnapTaken(writes) BY <2>6, <3>2 DEF SnapTaken
    <3> QED BY <2>5, <2>7, <3>1, <3>4, <3>5, ShapeMoves
  <2>8. CASE ~InTx(h) /\ tx' = [tx EXCEPT ![h] = next]
    <3>1. Shape(next) BY <2>1, <2>6, <2>8 DEF Shape, InTx, Writes
    <3>2. SnapTaken(next) BY <2>6 DEF SnapTaken
    <3> QED BY <2>2, <2>5, <2>8, <3>1, <3>2, ShapeMoves
  <2> QED BY <2>4, <2>7, <2>8
<1> QED BY <1>1, <1>2

LEMMA ShapeLoad ==
  ASSUME TypeInv, Shaped, NEW h \in Server, LoadRun(h) \/ LoadJobs(h)
  PROVE  Shaped'
<1>1. tx[h] \in TxRecord /\ Shape(tx[h]) /\ SnapTaken(tx[h]) BY DEF TypeInv, TypeOK, Shaped
<1>2. UNCHANGED << isolation, task >> /\ Placed' BY DEF LoadRun, LoadJobs, rows, Shaped, Placed
<1>3. CASE LoadRun(h)
  <2> DEFINE r == [tx[h] EXCEPT !.pc = "loadJobs"]
  <2>1. r \in TxRecord BY <1>1 DEF TxRecord, PC
  <2>2. r.pc = "loadJobs" /\ Shape(r)
    BY <1>1, <1>3 DEF Shape, Writes, Left, TxRecord, LoadRun, At
  <2>3. \/ Reads(h, r)
        \/ tx' = [tx EXCEPT ![h] = r] /\ (isolation = "snapshot" => tx[h].op = "supersede")
    BY <1>3 DEF LoadRun, InTx
  <2>4. r.op = tx[h].op BY <1>1 DEF TxRecord
  <2> HIDE DEF r
  <2>5. (isolation = "snapshot" => tx[h].op = "supersede") => SnapTaken(r)
    BY <2>2, <2>4 DEF SnapTaken, Shape
  <2> QED BY <1>2, <2>1, <2>2, <2>3, <2>5, ShapeMoves, ShapeReads
<1>4. CASE LoadJobs(h)
  <2> DEFINE sum == Aggregate(JobsSeen(h))
             r   == [tx[h] EXCEPT !.pc = "run", !.sum = sum]
  <2>1. sum \in JobStatus BY AggregateType
  <2>2. tx' = [tx EXCEPT ![h] = r] BY <1>4 DEF LoadJobs
  <2> HIDE DEF sum
  <2>3. r \in TxRecord BY <1>1, <2>1 DEF TxRecord, PC
  <2>4. Shape(r) /\ SnapTaken(r)
    BY <1>1, <1>4 DEF Shape, SnapTaken, Writes, Left, TxRecord, LoadJobs, At
  <2> HIDE DEF r
  <2> QED BY <1>2, <2>2, <2>3, <2>4, ShapeMoves
<1> QED BY <1>3, <1>4

LEMMA ShapeUpdateRun ==
  ASSUME TypeInv, Shaped, NEW h \in Server, UpdateRun(h)
  PROVE  Shaped'
<1> DEFINE stops == tx[h].op \in {"stop", "cancel", "supersede"} /\ tx[h].t # None
           next  == IF stops THEN [tx[h] EXCEPT !.sum = None, !.pc = "task"]
                    ELSE [tx[h] EXCEPT !.sum = None, !.pc = "next", !.t = None, !.to = None]
           writes == [next EXCEPT !.wrun = tx[h].sum]
<1>1. CASE GiveUp(h) BY <1>1, ShapeGiveUp
<1>2. CASE ~GiveUp(h)
  <2>1. /\ tx[h] \in TxRecord /\ Staged(tx[h]) /\ Shape(tx[h]) /\ SnapTaken(tx[h])
        /\ tx[h].pc = "run"
    BY DEF Unchanged, TypeInv, TypeOK, AllStaged, Shaped, UpdateRun, At
  <2>2. next \in TxRecord BY <2>1 DEF TxRecord, PC
  <2>3. tx[h].sum \in JobStatus BY <2>1 DEF Staged, TxRecord
  <2>4. \/ tx' = [tx EXCEPT ![h] = writes] /\ tx[h].op # "supersede"
        \/ tx' = [tx EXCEPT ![h] = next]
    BY <1>2 DEF Unchanged, UpdateRun, InTx
  <2>5. UNCHANGED isolation /\ Placed' BY <1>2 DEF Unchanged, UpdateRun, Shaped, Placed
  <2>6. /\ next.op = tx[h].op /\ next.at = tx[h].at /\ next.wjob = tx[h].wjob
        /\ next.wtask = tx[h].wtask /\ next.wrun = tx[h].wrun /\ next.snap = tx[h].snap
        /\ next.todo = tx[h].todo
        /\ next.pc = "next" \/ (next.pc = "task" /\ tx[h].op # "report")
    BY <2>1 DEF TxRecord
  <2> HIDE DEF next
  <2>7. Shape(next) /\ SnapTaken(next)
    BY <2>1, <2>6 DEF Shape, SnapTaken, Writes, Left
  <2>8. /\ writes \in TxRecord /\ writes.op = next.op /\ writes.at = next.at /\ writes.pc = next.pc
        /\ writes.wjob = next.wjob /\ writes.wtask = next.wtask /\ writes.snap = next.snap
    BY <2>2, <2>3 DEF TxRecord
  <2> HIDE DEF writes
  <2>9. tx[h].op # "supersede" => Shape(writes) /\ SnapTaken(writes)
    BY <2>1, <2>6, <2>7, <2>8 DEF Shape, SnapTaken, Writes
  <2> QED BY <2>2, <2>4, <2>5, <2>7, <2>8, <2>9, ShapeMoves
<1> QED BY <1>1, <1>2

LEMMA ShapeUpdateTask ==
  ASSUME TypeInv, Shaped, NEW h \in Server, UpdateTask(h)
  PROVE  Shaped'
<1> DEFINE t == tx[h].t
           row == [Over(task, tx[h].wtask)[t] EXCEPT !.status = tx[h].to]
           next == IF tx[h].op = "report" THEN [tx[h] EXCEPT !.pc = "job"]
                   ELSE [tx[h] EXCEPT !.pc = "next", !.t = None, !.to = None]
           writes == [next EXCEPT !.wtask[t] = row]
<1>1. /\ tx[h] \in TxRecord /\ Staged(tx[h]) /\ Shape(tx[h]) /\ SnapTaken(tx[h])
      /\ tx[h].pc = "task"
  BY DEF TypeInv, TypeOK, AllStaged, Shaped, UpdateTask, At
<1>2. t \in Task /\ tx[h].to \in Done BY <1>1 DEF Staged, TxRecord
<1>3. next \in TxRecord BY <1>1 DEF TxRecord, PC
<1>4. row \in TaskRow /\ row.status # "running"
  <2>1. Over(task, tx[h].wtask)[t] \in TaskRow
    BY <1>1, <1>2, OverTasks DEF TypeInv, TypeOK, TxRecord
  <2> QED BY <1>2, <2>1 DEF TaskRow, Done
<1>5. \/ tx' = [tx EXCEPT ![h] = writes] /\ UNCHANGED task
      \/ tx' = [tx EXCEPT ![h] = next] /\ task' = [task EXCEPT ![t] = row]
  BY DEF UpdateTask
<1>6. UNCHANGED isolation BY DEF UpdateTask
<1>7. /\ next.op = tx[h].op /\ next.at = tx[h].at /\ next.wjob = tx[h].wjob
      /\ next.wtask = tx[h].wtask /\ next.wrun = tx[h].wrun /\ next.snap = tx[h].snap
      /\ next.todo = tx[h].todo /\ next.pc \in {"next", "job"}
  BY <1>1 DEF TxRecord
<1> HIDE DEF row, next
<1>8. Shape(next) /\ SnapTaken(next) BY <1>1, <1>7 DEF Shape, SnapTaken, Writes, Left
<1>9. /\ writes \in TxRecord /\ writes.op = next.op /\ writes.at = next.at /\ writes.pc = next.pc
      /\ writes.wjob = next.wjob /\ writes.wrun = next.wrun /\ writes.snap = next.snap
      /\ writes.todo = next.todo
      /\ \A s \in Task : writes.wtask[s] = IF s = t THEN row ELSE next.wtask[s]
  BY <1>2, <1>3, <1>4 DEF TxRecord
<1> HIDE DEF writes, t
<1>10. Shape(writes) /\ SnapTaken(writes)
  <2>1. \A s \in Task : writes.wtask[s] # None /\ writes.wtask[s].status = "running" =>
                          writes.wtask[s].job \in Job
    BY <1>4, <1>8, <1>9 DEF Shape
  <2> QED BY <1>7, <1>8, <1>9, <2>1 DEF Shape, SnapTaken, Writes, Left
<1>11. Placed'
  <2>1. task' = task \/ task' = [task EXCEPT ![t] = row] BY <1>5
  <2> QED BY <1>2, <1>4, <2>1 DEF Shaped, Placed, TypeInv, TypeOK
<1> QED BY <1>3, <1>5, <1>6, <1>8, <1>9, <1>10, <1>11, ShapeMoves

LEMMA ShapeCommit ==
  ASSUME TypeInv, Shaped, NEW h \in Server, Commit(h)
  PROVE  Shaped'
<1>1. tx[h] \in TxRecord /\ Shape(tx[h]) BY DEF TypeInv, TypeOK, Shaped
<1> DEFINE told == [Rest EXCEPT !.op = "report", !.pc = "notify", !.at = tx[h].at]
<1>2. told \in TxRecord BY <1>1, RestType DEF TxRecord, Op, PC
<1>3. Shape(told) /\ SnapTaken(told) BY <1>2, RestShape DEF Rest
<1>4. Shape(Rest) /\ SnapTaken(Rest) BY RestType, RestShape DEF Rest
<1>5. UNCHANGED isolation /\ (tx' = [tx EXCEPT ![h] = told] \/ tx' = [tx EXCEPT ![h] = Rest])
  BY DEF Tells, Commit
<1> HIDE DEF told
<1>6. Placed'
  <2>1. ASSUME NEW t \in Task, task'[t].status = "running" PROVE task'[t].job \in Job
    <3>1. task'[t] = IF tx[h].wtask[t] = None THEN task[t] ELSE tx[h].wtask[t]
      BY DEF Tells, Commit, Over, TypeInv, TypeOK
    <3> QED BY <1>1, <2>1, <3>1 DEF Shape, Shaped, Placed
  <2> QED BY <2>1 DEF Placed
<1> QED BY <1>2, <1>3, <1>4, <1>5, <1>6, RestType, ShapeMoves

LEMMA ShapeQueue ==
  ASSUME TypeInv, Shaped, NEW h \in Server, Emit(h) \/ Notify(h) \/ Victim(h)
  PROVE  Shaped'
<1>1. CASE Emit(h)
  <2> DEFINE resolved == Resolve(job)
             S == {j \in Job : resolved[j] # job[j]}
  <2>1. resolved \in [Job -> JobRow] BY ResolveType DEF TypeInv, TypeOK
  <2>2. UNCHANGED tx \/ Keeps(h, "emit", S, resolved) BY <1>1 DEF Emit
  <2>3. UNCHANGED << isolation, task >> BY <1>1 DEF Emit, rows
  <2> HIDE DEF resolved
  <2>4. CASE UNCHANGED tx
    BY <2>3, <2>4 DEF Shaped, Placed, Shape, SnapTaken, Writes, Left
  <2>5. CASE Keeps(h, "emit", S, resolved) BY <2>1, <2>3, <2>5, ShapeKeeps DEF Op
  <2> QED BY <2>2, <2>4, <2>5
<1>2. CASE Notify(h)
  <2>1. Shape(Rest) /\ SnapTaken(Rest) BY RestType, RestShape DEF Rest
  <2>2. UNCHANGED isolation /\ Placed' BY <1>2 DEF Notify, rows, Shaped, Placed
  <2> QED BY <1>2, <2>1, <2>2, RestType, ShapeMoves DEF Notify
<1>3. CASE Victim(h) BY <1>3, ShapeGiveUp DEF Victim
<1> QED BY <1>1, <1>2, <1>3

LEMMA ShapeInit == ASSUME Init PROVE Shaped
<1>1. Shape(Rest) /\ SnapTaken(Rest) BY RestType, RestShape DEF Rest
<1> QED BY <1>1 DEF Init, Shaped, Placed

LEMMA ShapeNext == ASSUME TypeInv, Shaped, Next PROVE Shaped'
<1>1. PICK h \in Server : Intervene(h) \/ Request(h) \/ Handle(h) \/ Step(h) BY DEF Next
<1>2. CASE Intervene(h) BY <1>2, ShapeBegin, ShapeIntervene, ShapeApprove DEF Intervene
<1>3. CASE Request(h) BY <1>3, ShapeBegin DEF Request
<1>4. CASE Handle(h) BY <1>4, ShapeQueue DEF Handle
<1>5. CASE Step(h)
  BY <1>5, ShapeApprove, ShapeNextJob, ShapeUpdateJob, ShapeLoad, ShapeUpdateRun, ShapeUpdateTask,
     ShapeCommit, ShapeQueue DEF Step
<1> QED BY <1>1, <1>2, <1>3, <1>4, <1>5

-----------------------------------------------------------------------------
(* What the status of the run rests on. *)

(* What a goroutine sees of the jobs: what it has written, and the rest as *)
(* it is committed.                                                        *)
Mine(h) == Over(job, tx[h].wjob)

(* At most one transaction has written the run. *)
RunLocked ==
  \A g, h \in Server : tx[g].wrun # None /\ tx[h].wrun # None => g = h

(* A snapshot that is not outdated shows the committed jobs. *)
SnapshotFresh(h) ==
  tx[h].snap # None /\ h \in current /\ h \in summed => tx[h].snap.job = job

(* The status aggregated is right as long as the version is. *)
SumFresh(h) ==
  tx[h].pc = "run" /\ h \in current /\ h \in summed => tx[h].sum = Aggregate(Mine(h))

(* Who has read the version since the last write outside a transaction was *)
(* accounted for has read the jobs since, too.                             *)
ReadsBoth(h) ==
  tx[h].pc = "run" \/ tx[h].snap # None => (h \in current /\ ~loose => h \in summed)

(* Once the run is written, its status is that of the jobs.                *)
WroteRight(h) ==
  tx[h].pc \in {"next", "task"} /\ Writes(tx[h]) # {} =>
    /\ tx[h].wrun # None
    /\ h \in summed \/ ~loose => tx[h].wrun = Aggregate(Mine(h))

Right(h) == SnapshotFresh(h) /\ SumFresh(h) /\ ReadsBoth(h) /\ WroteRight(h)
IInv     == RunLocked /\ (\A h \in Server : Right(h)) /\ RunAggregates

(* Most steps change no committed job and nothing of other goroutines: h   *)
(* alone has to be looked at.                                              *)
Quiet(h, r) ==
  /\ tx' = [tx EXCEPT ![h] = r]
  /\ UNCHANGED << job, run, loose >>
  /\ \A g \in Server \ {h} : (g \in current' <=> g \in current) /\ (g \in summed' <=> g \in summed)
  /\ r.wrun # None => tx[h].wrun # None \/ RunFree(h)

LEMMA QuietKeeps ==
  ASSUME TypeInv, IInv, NEW h \in Server, NEW r \in TxRecord, Quiet(h, r), Right(h)'
  PROVE  IInv'
<1>1. \A g \in Server : tx'[g] = IF g = h THEN r ELSE tx[g] BY DEF Quiet, TypeInv, TypeOK
<1>2. RunLocked'
  <2> SUFFICES ASSUME NEW f \in Server, NEW g \in Server, tx'[f].wrun # None, tx'[g].wrun # None
               PROVE  f = g
    BY DEF RunLocked
  <2> QED BY <1>1 DEF Quiet, RunFree, IInv, RunLocked
<1>3. ASSUME NEW g \in Server PROVE Right(g)'
  <2>1. CASE g = h BY <2>1
  <2>2. CASE g # h
    <3>1. tx'[g] = tx[g] /\ Right(g) /\ Mine(g)' = Mine(g)
      BY <1>1, <2>2 DEF IInv, Mine, Quiet, Over
    <3> QED BY <2>2, <3>1 DEF Right, SnapshotFresh, SumFresh, ReadsBoth, WroteRight, Quiet,
                              Writes
  <2> QED BY <2>1, <2>2
<1>4. RunAggregates' BY DEF Quiet, IInv, RunAggregates, Aggregate
<1> QED BY <1>2, <1>3, <1>4 DEF IInv

(* Nothing is to be looked at of an operation that is not about to write   *)
(* the run, has written nothing and has no snapshot.                       *)
LEMMA RightFresh ==
  ASSUME TypeInv, NEW h \in Server, NEW r \in TxRecord, tx' = [tx EXCEPT ![h] = r],
         r.pc # "run", r.snap = None, Writes(r) = {} \/ r.pc \notin {"next", "task"}
  PROVE  Right(h)'
<1>1. tx'[h] = r BY DEF TypeInv, TypeOK
<1> QED BY <1>1 DEF Right, SnapshotFresh, SumFresh, ReadsBoth, WroteRight, Writes

LEMMA ReadsKeeps ==
  ASSUME TypeInv, IInv, NEW h \in Server, NEW r \in TxRecord, Reads(h, r),
         UNCHANGED << isolation, job, run, loose >>,
         r.pc # "run", r.snap = tx[h].snap \/ r.snap = None,
         r.wrun # None => tx[h].wrun # None,
         \/ Writes(r) = {} \/ r.pc \notin {"next", "task"}
         \/ ~(isolation = "snapshot" /\ r.op # "supersede" /\ r.snap = None)
            /\ r.wjob = tx[h].wjob /\ r.wrun = tx[h].wrun /\ tx[h].pc \in {"next", "task"}
  PROVE  IInv'
<1> DEFINE snap == [job |-> job, task |-> task]
           q == [r EXCEPT !.snap = snap]
<1>1. snap \in Snapshot
  BY DEF TypeInv, TypeOK, Snapshot
<1>2. /\ q \in TxRecord /\ q.snap = snap /\ q.snap.job = job /\ q.wrun = r.wrun /\ q.wjob = r.wjob
      /\ q.pc = r.pc
  <2>1. snap.job = job OBVIOUS
  <2> HIDE DEF snap
  <2> QED BY <1>1, <2>1 DEF TxRecord
<1>3. CASE isolation = "snapshot" /\ r.op # "supersede" /\ r.snap = None
  <2>1. tx' = [tx EXCEPT ![h] = q] /\ current' = current \cup {h} /\ summed' = summed \cup {h}
    BY <1>3 DEF Reads
  <2> HIDE DEF q
  <2>2. Quiet(h, q) BY <1>2, <2>1 DEF Quiet
  <2>3. tx'[h] = q BY <2>1 DEF TypeInv, TypeOK
  <2>4. Writes(r) = {} \/ r.pc \notin {"next", "task"} BY <1>3
  <2>5. Right(h)'
    BY <1>2, <2>1, <2>3, <2>4 DEF Right, SnapshotFresh, SumFresh, ReadsBoth, WroteRight, Writes
  <2> QED BY <1>2, <2>2, <2>5, QuietKeeps
<1>4. CASE ~(isolation = "snapshot" /\ r.op # "supersede" /\ r.snap = None)
  <2>1. tx' = [tx EXCEPT ![h] = r] /\ UNCHANGED << current, summed >> BY <1>4 DEF Reads
  <2>2. Quiet(h, r) BY <2>1 DEF Quiet
  <2>3. tx'[h] = r BY <2>1 DEF TypeInv, TypeOK
  <2>4. Right(h)'
    <3>1. Right(h) BY DEF IInv
    <3>2. r.wjob = tx[h].wjob => Mine(h)' = Mine(h) BY <2>3 DEF Mine, Over
    <3> QED BY <2>1, <2>3, <3>1, <3>2 DEF Right, SnapshotFresh, SumFresh, ReadsBoth, WroteRight, Writes
  <2> QED BY <2>2, <2>4, QuietKeeps
<1> QED BY <1>3, <1>4

LEMMA RestFields == /\ Rest.pc = "idle" /\ Rest.snap = None /\ Rest.wrun = None
                    /\ Writes(Rest) = {}
BY DEF Rest, Writes

LEMMA GiveUpKeeps ==
  ASSUME TypeInv, IInv, NEW h \in Server, GiveUp(h)
  PROVE  IInv'
<1>1. Quiet(h, Rest) BY RestFields DEF GiveUp, Quiet, rows, history
<1>2. Right(h)' BY RestType, RestFields, RightFresh DEF GiveUp
<1> QED BY <1>1, <1>2, RestType, QuietKeeps

LEMMA BeginKeeps ==
  ASSUME TypeInv, IInv, NEW h \in Server, Pick(h) \/ Report(h) \/ Stop(h)
  PROVE  IInv'
<1>1. UNCHANGED << isolation, job, run, loose >> BY DEF Reportable, Pick, Report, Stop, rows, history
<1>2. ASSUME NEW r \in TxRecord, Reads(h, r), r.pc # "run", r.snap = None, r.wrun = None,
             Writes(r) = {}
      PROVE  IInv'
  BY <1>1, <1>2, ReadsKeeps
<1>3. CASE Pick(h)
  <2>1. PICK j \in Job, t \in Task :
          Reads(h, [Rest EXCEPT !.op = "pick", !.pc = "job", !.at = j, !.t = t, !.to = "running",
                                !.wtask[t] = [status |-> "running", job |-> j]])
    BY <1>3 DEF Pick
  <2> DEFINE r == [Rest EXCEPT !.op = "pick", !.pc = "job", !.at = j, !.t = t, !.to = "running",
                               !.wtask[t] = [status |-> "running", job |-> j]]
  <2>2. r \in TxRecord BY RestType, StatusType DEF TxRecord, Op, PC, TaskRow
  <2>3. r.pc = "job" /\ r.snap = None /\ r.wrun = None /\ Writes(r) = {} BY DEF Rest, Writes
  <2>4. Reads(h, r) BY <2>1
  <2> HIDE DEF r
  <2> QED BY <1>2, <2>2, <2>3, <2>4
<1>4. CASE Report(h)
  <2>1. ASSUME NEW t \in Task, task[t].status = "running", NEW result \in Result,
               Reads(h, [Rest EXCEPT !.op = "report", !.pc = "task",
                                    !.at = task[t].job, !.t = t, !.to = result])
        PROVE  IInv'
    <3> DEFINE r == [Rest EXCEPT !.op = "report", !.pc = "task",
                                 !.at = task[t].job, !.t = t, !.to = result]
    <3>1. r \in TxRecord
      BY RestType, StatusType, ConstantsAssumption DEF TxRecord, Op, PC, TypeInv, TypeOK, TaskRow
    <3>2. r.pc = "task" /\ r.snap = None /\ r.wrun = None /\ Writes(r) = {} BY DEF Rest, Writes
    <3>3. Reads(h, r) BY <2>1
    <3> HIDE DEF r
    <3> QED BY <1>2, <3>1, <3>2, <3>3
  <2>2. ASSUME NEW t \in Task, UNCHANGED << current, summed >>,
               tx' = [tx EXCEPT ![h] = [Rest EXCEPT !.op = "report", !.pc = "notify",
                                                   !.at = task[t].job]]
        PROVE  IInv'
    <3> DEFINE r == [Rest EXCEPT !.op = "report", !.pc = "notify", !.at = task[t].job]
    <3>1. r \in TxRecord BY RestType DEF TxRecord, Op, PC, TypeInv, TypeOK, TaskRow
    <3>2. r.pc = "notify" /\ r.snap = None /\ r.wrun = None BY DEF Rest
    <3>3. tx' = [tx EXCEPT ![h] = r] BY <2>2
    <3> HIDE DEF r
    <3>4. Quiet(h, r) BY <1>1, <2>2, <3>2, <3>3 DEF Quiet
    <3>5. Right(h)' BY <3>1, <3>2, <3>3, RightFresh
    <3> QED BY <3>1, <3>4, <3>5, QuietKeeps
  <2> QED BY <1>4, <2>1, <2>2 DEF Reportable, Report
<1>5. CASE Stop(h)
  <2>1. PICK t \in Task :
          Reads(h, [Rest EXCEPT !.op = "stop", !.pc = "job",
                                !.at = task[t].job, !.t = t, !.to = "failure"])
    BY <1>5 DEF Stop
  <2> DEFINE r == [Rest EXCEPT !.op = "stop", !.pc = "job",
                               !.at = task[t].job, !.t = t, !.to = "failure"]
  <2>2. r \in TxRecord BY RestType, StatusType DEF TxRecord, Op, PC, TypeInv, TypeOK, TaskRow, Done
  <2>3. r.pc = "job" /\ r.snap = None /\ r.wrun = None /\ Writes(r) = {} BY DEF Rest, Writes
  <2>4. Reads(h, r) BY <2>1
  <2> HIDE DEF r
  <2> QED BY <1>2, <2>2, <2>3, <2>4
<1> QED BY <1>3, <1>4, <1>5

LEMMA KeepsKeeps ==
  ASSUME TypeInv, IInv, NEW h \in Server, NEW op \in Op, NEW S \in SUBSET Job,
         NEW read \in [Job -> JobRow], Keeps(h, op, S, read),
         UNCHANGED << job, run, loose, current, summed >>
  PROVE  IInv'
<1> DEFINE r == [Rest EXCEPT !.op = op, !.pc = "next",
                             !.todo = [j \in Job |-> IF j \in S THEN read[j] ELSE None]]
<1>1. r \in TxRecord BY RestType DEF TxRecord, Op, PC
<1>2. r.pc = "next" /\ r.snap = None /\ r.wrun = None /\ Writes(r) = {} BY DEF Rest, Writes
<1>3. tx' = [tx EXCEPT ![h] = r] BY DEF Keeps
<1> HIDE DEF r
<1>4. Quiet(h, r) BY <1>2, <1>3 DEF Quiet
<1>5. Right(h)' BY <1>1, <1>2, <1>3, RightFresh
<1> QED BY <1>1, <1>4, <1>5, QuietKeeps

LEMMA InterveneKeeps ==
  ASSUME TypeInv, IInv, NEW h \in Server, Cancel(h) \/ Supersede(h) \/ Abandon(h) \/ Rerun(h)
  PROVE  IInv'
<1> USE DEF TypeInv, TypeOK, rows, history
<1>1. CASE Cancel(h) BY <1>1, KeepsKeeps DEF Cancel, Op, Unfinished
<1>2. CASE Supersede(h) BY <1>2, KeepsKeeps DEF Supersede, Op, Unfinished
<1>3. CASE Abandon(h) BY <1>3, KeepsKeeps DEF Abandon, Op
<1>4. CASE Rerun(h) BY <1>4, KeepsKeeps DEF Rerun, Op
<1> QED BY <1>1, <1>2, <1>3, <1>4

LEMMA ApproveKeeps ==
  ASSUME TypeInv, Shaped, IInv, NEW h \in Server, Approve(h) \/ ApproveRun(h)
  PROVE  IInv'
<1>1. CASE Approve(h)
  <2> DEFINE S == {j \in Job : Needs[j] = {} /\ job[j].status = "blocked"}
             r == [Rest EXCEPT !.op = "approve", !.pc = "approve",
                               !.todo = [j \in Job |-> IF j \in S THEN job[j] ELSE None]]
  <2>1. r \in TxRecord BY RestType DEF TxRecord, Op, PC, TypeInv, TypeOK
  <2>2. r.pc = "approve" /\ r.snap = None /\ r.wrun = None BY DEF Rest
  <2>3. tx' = [tx EXCEPT ![h] = r] BY <1>1 DEF Approve
  <2> HIDE DEF r
  <2>4. Quiet(h, r) BY <1>1, <2>2, <2>3 DEF Quiet, Approve, rows, history
  <2>5. Right(h)' BY <2>1, <2>2, <2>3, RightFresh
  <2> QED BY <2>1, <2>4, <2>5, QuietKeeps
<1>2. CASE ApproveRun(h)
  <2>1. CASE GiveUp(h) BY <2>1, GiveUpKeeps
  <2>2. CASE h \in current
    <3> DEFINE r == [tx[h] EXCEPT !.wrun = run.status, !.pc = "next"]
    <3>1. tx' = [tx EXCEPT ![h] = r] BY <1>2, <2>2 DEF Unchanged, ApproveRun
    <3>2. tx[h] \in TxRecord /\ Writes(tx[h]) = {} /\ run.status \in JobStatus
      BY <1>2 DEF Unchanged, TypeInv, TypeOK, Shaped, Shape, ApproveRun, At
    <3>3. r \in TxRecord BY <3>2 DEF TxRecord, PC
    <3>4. r.wjob = tx[h].wjob /\ r.snap = tx[h].snap /\ r.pc = "next" BY <3>2 DEF TxRecord
    <3> HIDE DEF r
    <3>5. Quiet(h, r) BY <1>2, <2>2, <3>1 DEF Unchanged, Quiet, ApproveRun, rows, history
    <3>6. Right(h)'
      <4>1. tx'[h] = r /\ Right(h) BY <3>1 DEF TypeInv, TypeOK, IInv
      <4>2. UNCHANGED << job, loose, current, summed >> BY <1>2, <2>2 DEF Unchanged, ApproveRun, rows, history
      <4> QED BY <3>2, <3>4, <4>1, <4>2
          DEF Right, SnapshotFresh, SumFresh, ReadsBoth, WroteRight, Writes
    <3> QED BY <3>3, <3>5, <3>6, QuietKeeps
  <2> QED BY <1>2, <2>1, <2>2 DEF Unchanged, ApproveRun
<1> QED BY <1>1, <1>2

LEMMA NextJobKeeps ==
  ASSUME TypeInv, Shaped, IInv, NEW h \in Server, NextJob(h)
  PROVE  IInv'
<1>1. PICK r \in TxRecord : Staged(r) /\ Continues(h, r) BY NextJobForms
<1>2. SnapTaken(tx[h]) /\ tx[h].pc = "next" /\ UNCHANGED << isolation, job, run, loose >>
  BY DEF Shaped, NextJob, At, rows, history
<1>3. /\ r.op = tx[h].op /\ r.wjob = tx[h].wjob /\ r.wrun = tx[h].wrun /\ r.snap = tx[h].snap
      /\ r.pc \in {"next", "job"}
  BY <1>1 DEF Continues
<1>4. CASE Reads(h, r)
  <2>1. Writes(r) = {} \/ ~(isolation = "snapshot" /\ r.op # "supersede" /\ r.snap = None)
    BY <1>2, <1>3 DEF SnapTaken, Writes
  <2> QED BY <1>2, <1>3, <1>4, <2>1, ReadsKeeps
<1>5. CASE tx' = [tx EXCEPT ![h] = r] /\ UNCHANGED << current, summed >>
  <2>1. Quiet(h, r) BY <1>2, <1>3, <1>5 DEF Quiet
  <2>2. Right(h)'
    <3>1. tx'[h] = r /\ Right(h) BY <1>5 DEF TypeInv, TypeOK, IInv
    <3>2. Mine(h)' = Mine(h) BY <1>2, <1>3, <3>1 DEF Mine, Over
    <3> QED BY <1>2, <1>3, <1>5, <3>1, <3>2
        DEF Right, SnapshotFresh, SumFresh, ReadsBoth, WroteRight, Writes
  <2> QED BY <2>1, <2>2, QuietKeeps
<1> QED BY <1>1, <1>4, <1>5 DEF Continues

LEMMA UpdateJobKeeps ==
  ASSUME TypeInv, Shaped, IInv, NEW h \in Server, UpdateJob(h)
  PROVE  IInv'
<1> DEFINE j == tx[h].at
           row == Over(job, tx[h].wjob)[j]
           next == [tx[h] EXCEPT !.todo[j] = None,
                                 !.pc = IF tx[h].snap = None THEN "loadRun" ELSE "loadJobs"]
           new == NewRow(h, row)
           writes == [next EXCEPT !.wjob[j] = new]
<1>1. CASE GiveUp(h) BY <1>1, GiveUpKeeps
<1>2. CASE ~GiveUp(h)
  <2>1. tx[h] \in TxRecord /\ j \in Job /\ Right(h)
    BY DEF TypeInv, TypeOK, Shaped, Shape, UpdateJob, At, IInv
  <2>2. next \in TxRecord BY <2>1 DEF TxRecord, PC
  <2>3. new \in JobRow
    <3>1. row \in JobRow BY <2>1, OverJobs DEF TypeInv, TypeOK, TxRecord
    <3> HIDE DEF row
    <3> QED BY <3>1, NewRowType DEF UpdateJob
  <2>4. UNCHANGED << run, current >>
        /\ (\/ tx' = [tx EXCEPT ![h] = writes] /\ UNCHANGED << job, summed, loose >>
            \/ tx' = [tx EXCEPT ![h] = next] /\ summed' = {} /\ loose' = TRUE)
    BY <1>2 DEF UpdateJob
  <2>5. /\ next.wrun = tx[h].wrun /\ next.snap = tx[h].snap /\ next.wjob = tx[h].wjob
        /\ next.pc \in {"loadRun", "loadJobs"}
    BY <2>1 DEF TxRecord
  <2> HIDE DEF next, new
  <2>6. CASE tx' = [tx EXCEPT ![h] = writes] /\ UNCHANGED << job, summed, loose >>
    <3>1. writes \in TxRecord BY <2>2, <2>3 DEF TxRecord
    <3>2. writes.wrun = tx[h].wrun /\ writes.snap = tx[h].snap /\ writes.pc = next.pc
      BY <2>2, <2>5 DEF TxRecord
    <3> HIDE DEF writes
    <3>3. Quiet(h, writes) BY <2>4, <2>6, <3>2 DEF Quiet
    <3>4. Right(h)'
      <4>1. tx'[h] = writes BY <2>6 DEF TypeInv, TypeOK
      <4> QED BY <2>1, <2>4, <2>5, <2>6, <3>2, <4>1
          DEF Right, SnapshotFresh, SumFresh, ReadsBoth, WroteRight
    <3> QED BY <3>1, <3>3, <3>4, QuietKeeps
  <2>7. CASE tx' = [tx EXCEPT ![h] = next] /\ summed' = {} /\ loose' = TRUE
    <3>1. \A g \in Server : tx'[g] = IF g = h THEN next ELSE tx[g]
      BY <2>7 DEF TypeInv, TypeOK
    <3>2. RunLocked' BY <2>5, <3>1 DEF IInv, RunLocked
    <3>3. ASSUME NEW g \in Server PROVE Right(g)'
      <4>1. tx'[g].pc \in {"next", "task"} => tx'[g] = tx[g] BY <2>5, <3>1
      <4> QED BY <2>7, <4>1 DEF Right, SnapshotFresh, SumFresh, ReadsBoth, WroteRight, Writes, IInv
    <3>4. RunAggregates' BY <2>7 DEF RunAggregates
    <3> QED BY <3>2, <3>3, <3>4 DEF IInv
  <2> QED BY <2>4, <2>6, <2>7
<1> QED BY <1>1, <1>2

LEMMA LoadKeeps ==
  ASSUME TypeInv, Shaped, IInv, NEW h \in Server, LoadRun(h) \/ LoadJobs(h)
  PROVE  IInv'
<1>1. tx[h] \in TxRecord /\ Shape(tx[h]) /\ Right(h) BY DEF TypeInv, TypeOK, Shaped, IInv
<1>2. UNCHANGED << isolation, job, run, loose >> BY DEF LoadRun, LoadJobs, rows, history
<1>3. CASE LoadRun(h)
  <2> DEFINE r == [tx[h] EXCEPT !.pc = "loadJobs"]
  <2>1. r \in TxRecord BY <1>1 DEF TxRecord, PC
  <2>2. r.pc = "loadJobs" /\ r.snap = None /\ r.wrun = tx[h].wrun
    BY <1>1, <1>3 DEF Shape, TxRecord, LoadRun, At
  <2>3. \/ Reads(h, r)
        \/ tx' = [tx EXCEPT ![h] = r] /\ current' = current \cup {h} /\ UNCHANGED summed
    BY <1>3 DEF LoadRun
  <2> HIDE DEF r
  <2>4. CASE Reads(h, r) BY <1>2, <2>1, <2>2, <2>4, ReadsKeeps
  <2>5. CASE tx' = [tx EXCEPT ![h] = r] /\ current' = current \cup {h} /\ UNCHANGED summed
    <3>1. Quiet(h, r) BY <1>2, <2>2, <2>5 DEF Quiet
    <3>2. Right(h)' BY <2>1, <2>2, <2>5, RightFresh
    <3> QED BY <2>1, <3>1, <3>2, QuietKeeps
  <2> QED BY <2>3, <2>4, <2>5
<1>4. CASE LoadJobs(h)
  <2> DEFINE sum == Aggregate(JobsSeen(h))
             r   == [tx[h] EXCEPT !.pc = "run", !.sum = sum]
  <2>1. sum \in JobStatus BY AggregateType
  <2>2. /\ tx' = [tx EXCEPT ![h] = r] /\ current' = current
        /\ summed' = IF tx[h].snap = None THEN summed \cup {h} ELSE summed
    BY <1>4 DEF LoadJobs, rows
  <2>3. h \in current /\ h \in summed' => sum = Aggregate(Mine(h))
    BY <1>1, <2>2 DEF Right, SnapshotFresh, JobsSeen, Mine
  <2> HIDE DEF sum
  <2>4. r \in TxRecord BY <1>1, <2>1 DEF TxRecord, PC
  <2>5. /\ r.pc = "run" /\ r.sum = sum /\ r.snap = tx[h].snap /\ r.wjob = tx[h].wjob
        /\ r.wrun = tx[h].wrun
    BY <1>1 DEF TxRecord
  <2> HIDE DEF r
  <2>6. Quiet(h, r) BY <1>2, <2>2, <2>5 DEF Quiet
  <2>7. Right(h)'
    <3>1. tx'[h] = r BY <2>2 DEF TypeInv, TypeOK
    <3>2. Mine(h)' = Mine(h) BY <1>2, <2>5, <3>1 DEF Mine, Over
    <3>3. SumFresh(h)' BY <2>2, <2>3, <2>5, <3>1, <3>2 DEF SumFresh, Aggregate
    <3> QED BY <1>1, <1>2, <2>2, <2>5, <3>1, <3>3
        DEF Right, SnapshotFresh, ReadsBoth, WroteRight
  <2> QED BY <2>4, <2>6, <2>7, QuietKeeps
<1> QED BY <1>3, <1>4

LEMMA UpdateRunKeeps ==
  ASSUME TypeInv, Shaped, IInv, NEW h \in Server, UpdateRun(h)
  PROVE  IInv'
<1> DEFINE stops == tx[h].op \in {"stop", "cancel", "supersede"} /\ tx[h].t # None
           next  == IF stops THEN [tx[h] EXCEPT !.sum = None, !.pc = "task"]
                    ELSE [tx[h] EXCEPT !.sum = None, !.pc = "next", !.t = None, !.to = None]
           writes == [next EXCEPT !.wrun = tx[h].sum]
<1>1. CASE GiveUp(h) BY <1>1, GiveUpKeeps
<1>2. CASE ~GiveUp(h)
  <2>1. /\ tx[h] \in TxRecord /\ Staged(tx[h]) /\ Shape(tx[h]) /\ Right(h) /\ tx[h].pc = "run"
        /\ RunFree(h) /\ h \in current
    BY <1>2 DEF Unchanged, TypeInv, TypeOK, AllStaged, Shaped, IInv, UpdateRun, At
  <2>2. next \in TxRecord BY <2>1 DEF TxRecord, PC
  <2>3. tx[h].sum \in JobStatus /\ tx[h].sum # None BY <2>1 DEF Staged, TxRecord
  <2>4. UNCHANGED << job, summed >>
        /\ (\/ tx' = [tx EXCEPT ![h] = writes] /\ UNCHANGED << run, current, loose >>
            \/ /\ tx' = [tx EXCEPT ![h] = next] /\ tx[h].op = "supersede"
               /\ run' = [status |-> tx[h].sum, computed |-> TRUE]
               /\ current' = {} /\ loose' = (loose /\ h \notin summed))
    BY <1>2 DEF Unchanged, UpdateRun, InTx
  <2>5. /\ next.wjob = tx[h].wjob /\ next.wrun = tx[h].wrun /\ next.snap = tx[h].snap
        /\ next.pc \in {"next", "task"}
    BY <2>1 DEF TxRecord
  <2>6. h \in summed \/ ~loose => tx[h].sum = Aggregate(Mine(h))
    BY <2>1 DEF Right, SumFresh, ReadsBoth
  <2> HIDE DEF next
  <2>7. CASE tx' = [tx EXCEPT ![h] = writes] /\ UNCHANGED << run, current, loose >>
    <3>1. /\ writes \in TxRecord /\ writes.wrun = tx[h].sum /\ writes.pc = next.pc
          /\ writes.wjob = next.wjob /\ writes.snap = next.snap
      BY <2>2, <2>3 DEF TxRecord
    <3> HIDE DEF writes
    <3>2. Quiet(h, writes) BY <2>1, <2>4, <2>7 DEF Quiet
    <3>3. Right(h)'
      <4>1. tx'[h] = writes BY <2>7 DEF TypeInv, TypeOK
      <4>2. Mine(h)' = Mine(h) BY <2>4, <2>5, <3>1, <4>1 DEF Mine, Over
      <4>3. WroteRight(h)'
        BY <2>3, <2>4, <2>6, <2>7, <3>1, <4>1, <4>2 DEF WroteRight, Aggregate
      <4> QED BY <2>1, <2>4, <2>5, <2>7, <3>1, <4>1, <4>3
          DEF Right, SnapshotFresh, SumFresh, ReadsBoth
    <3> QED BY <3>1, <3>2, <3>3, QuietKeeps
  <2>8. CASE /\ tx' = [tx EXCEPT ![h] = next] /\ tx[h].op = "supersede"
             /\ run' = [status |-> tx[h].sum, computed |-> TRUE]
             /\ current' = {} /\ loose' = (loose /\ h \notin summed)
    <3>1. \A g \in Server : tx'[g] = IF g = h THEN next ELSE tx[g]
      BY <2>8 DEF TypeInv, TypeOK
    <3>2. Writes(tx[h]) = {} /\ \A g \in Server : tx'[g].wrun = None
      BY <2>1, <2>5, <2>8, <3>1 DEF Shape, RunFree
    <3>3. RunLocked' BY <3>2 DEF RunLocked
    <3>4. ASSUME NEW g \in Server PROVE Right(g)'
      <4>1. Writes(tx'[g]) = {} \/ tx'[g].pc \notin {"next", "task"}
        <5>1. CASE g = h BY <2>5, <3>1, <3>2, <5>1 DEF Writes
        <5>2. CASE g # h BY <3>1, <3>2, <5>2 DEF Writes, IInv, Right, WroteRight
        <5> QED BY <5>1, <5>2
      <4> QED BY <2>8, <4>1 DEF Right, SnapshotFresh, SumFresh, ReadsBoth, WroteRight, Writes
    <3>5. RunAggregates'
      <4>1. Mine(h) = job BY <3>2 DEF Mine, Over, Writes, TypeInv, TypeOK
      <4>2. ~loose' => tx[h].sum = Aggregate(job) BY <2>6, <2>8, <4>1
      <4>3. Aggregate(job)' = Aggregate(job) BY <2>4 DEF Aggregate
      <4> QED BY <2>8, <4>2, <4>3 DEF RunAggregates
    <3> QED BY <3>3, <3>4, <3>5 DEF IInv
  <2> QED BY <2>4, <2>7, <2>8
<1> QED BY <1>1, <1>2

LEMMA UpdateTaskKeeps ==
  ASSUME TypeInv, Shaped, IInv, NEW h \in Server, UpdateTask(h)
  PROVE  IInv'
<1> DEFINE t == tx[h].t
           row == [Over(task, tx[h].wtask)[t] EXCEPT !.status = tx[h].to]
           next == IF tx[h].op = "report" THEN [tx[h] EXCEPT !.pc = "job"]
                   ELSE [tx[h] EXCEPT !.pc = "next", !.t = None, !.to = None]
           writes == [next EXCEPT !.wtask[t] = row]
<1>1. tx[h] \in TxRecord /\ Staged(tx[h]) /\ tx[h].pc = "task" /\ Right(h)
  BY DEF TypeInv, TypeOK, AllStaged, UpdateTask, At, IInv
<1>2. t \in Task /\ tx[h].to \in Done BY <1>1 DEF Staged, TxRecord
<1>3. next \in TxRecord BY <1>1 DEF TxRecord, PC
<1>4. row \in TaskRow
  <2>1. Over(task, tx[h].wtask)[t] \in TaskRow
    BY <1>1, <1>2, OverTasks DEF TypeInv, TypeOK, TxRecord
  <2> QED BY <1>2, <2>1 DEF TaskRow
<1>5. /\ tx' = [tx EXCEPT ![h] = writes] \/ tx' = [tx EXCEPT ![h] = next]
      /\ UNCHANGED << job, run, loose, current, summed >>
  BY DEF UpdateTask
<1>6. /\ next.wjob = tx[h].wjob /\ next.wrun = tx[h].wrun /\ next.snap = tx[h].snap
      /\ next.pc \in {"next", "job"}
  BY <1>1 DEF TxRecord
<1> HIDE DEF row, next
<1>7. /\ writes \in TxRecord /\ writes.pc = next.pc /\ writes.wjob = next.wjob
      /\ writes.wrun = next.wrun /\ writes.snap = next.snap
  BY <1>2, <1>3, <1>4 DEF TxRecord
<1> HIDE DEF writes
<1>8. ASSUME NEW r \in TxRecord, tx' = [tx EXCEPT ![h] = r], r.wjob = tx[h].wjob,
             r.wrun = tx[h].wrun, r.snap = tx[h].snap, r.pc \in {"next", "job"}
      PROVE  IInv'
  <2>1. Quiet(h, r) BY <1>5, <1>8 DEF Quiet
  <2>2. Right(h)'
    <3>1. tx'[h] = r BY <1>8 DEF TypeInv, TypeOK
    <3>2. Mine(h)' = Mine(h) BY <1>5, <1>8, <3>1 DEF Mine, Over
    <3> QED BY <1>1, <1>5, <1>8, <3>1, <3>2
        DEF Right, SnapshotFresh, SumFresh, ReadsBoth, WroteRight, Writes
  <2> QED BY <2>1, <2>2, QuietKeeps
<1> QED BY <1>3, <1>5, <1>6, <1>7, <1>8

LEMMA CommitKeeps ==
  ASSUME TypeInv, Shaped, IInv, NEW h \in Server, Commit(h)
  PROVE  IInv'
<1>1. /\ tx[h] \in TxRecord /\ Shape(tx[h]) /\ Right(h) /\ tx[h].pc = "next" /\ ~Left(tx[h])
  BY DEF Tells, TypeInv, TypeOK, Shaped, IInv, Commit, At, Left
<1> DEFINE told == [Rest EXCEPT !.op = "report", !.pc = "notify", !.at = tx[h].at]
<1>2. PICK r \in TxRecord : /\ tx' = [tx EXCEPT ![h] = r] /\ r.pc \in {"idle", "notify"}
                           /\ r.snap = None /\ r.wrun = None
  <2>1. told \in TxRecord BY <1>1, RestType DEF TxRecord, Op, PC
  <2>2. told.pc = "notify" /\ told.snap = None /\ told.wrun = None BY DEF Rest
  <2>3. tx' = [tx EXCEPT ![h] = told] \/ tx' = [tx EXCEPT ![h] = Rest] BY DEF Tells, Commit
  <2> HIDE DEF told
  <2> QED BY <2>1, <2>2, <2>3, RestType, RestFields
<1>3. \A g \in Server : tx'[g] = IF g = h THEN r ELSE tx[g] BY <1>2 DEF TypeInv, TypeOK
<1>4. job' = Mine(h) /\ summed' = summed \ {h} BY DEF Tells, Commit, Mine
<1>5. RunLocked' BY <1>2, <1>3 DEF IInv, RunLocked
<1>6. Right(h)' BY <1>2, RightFresh
<1>7. CASE tx[h].wrun = None
  <2>1. run' = run /\ current' = current \ {h} /\ loose' = loose BY <1>7 DEF Tells, Commit
  <2>2. job' = job
    <3>1. Writes(tx[h]) = {} BY <1>1, <1>7 DEF Right, WroteRight
    <3> QED BY <1>4, <3>1 DEF Mine, Over, Writes, TypeInv, TypeOK
  <2>3. Quiet(h, r) BY <1>2, <1>4, <2>1, <2>2 DEF Quiet
  <2> QED BY <1>6, <2>3, QuietKeeps
<1>8. CASE tx[h].wrun # None
  <2>1. /\ run'.status = tx[h].wrun /\ current' = {} /\ loose' = (loose /\ h \notin summed)
    BY <1>8 DEF Tells, Commit
  <2>2. Writes(tx[h]) # {} BY <1>1, <1>8 DEF Shape
  <2>3. ASSUME NEW g \in Server PROVE Right(g)'
    <3>1. CASE g = h BY <1>6, <3>1
    <3>2. CASE g # h
      <4>1. tx'[g] = tx[g] /\ tx[g].wrun = None BY <1>3, <1>8, <3>2 DEF IInv, RunLocked
      <4>2. Writes(tx[g]) = {} \/ tx[g].pc \notin {"next", "task"}
        BY <4>1 DEF IInv, Right, WroteRight
      <4> QED BY <2>1, <4>1, <4>2 DEF Right, SnapshotFresh, SumFresh, ReadsBoth, WroteRight, Writes
    <3> QED BY <3>1, <3>2
  <2>4. RunAggregates'
    <3>1. ~loose' => tx[h].wrun = Aggregate(Mine(h))
      BY <1>1, <2>1, <2>2 DEF Right, WroteRight
    <3>2. Aggregate(job)' = Aggregate(Mine(h)) BY <1>4 DEF Aggregate
    <3> QED BY <2>1, <3>1, <3>2 DEF RunAggregates
  <2> QED BY <1>5, <2>3, <2>4 DEF IInv
<1> QED BY <1>7, <1>8

LEMMA StillKeeps ==
  ASSUME IInv, UNCHANGED << tx, job, run, loose, current, summed >>
  PROVE  IInv'
<1>1. RunLocked' /\ RunAggregates' BY DEF IInv, RunLocked, RunAggregates, Aggregate
<1>2. ASSUME NEW g \in Server PROVE Right(g)'
  <2>1. Mine(g)' = Mine(g) /\ Right(g) BY DEF Mine, Over, IInv
  <2>2. Aggregate(Mine(g))' = Aggregate(Mine(g)) BY <2>1 DEF Aggregate
  <2> QED BY <2>1, <2>2 DEF Right, SnapshotFresh, SumFresh, ReadsBoth, WroteRight, Writes
<1> QED BY <1>1, <1>2 DEF IInv

LEMMA QueueKeeps ==
  ASSUME TypeInv, IInv, NEW h \in Server, Emit(h) \/ Notify(h) \/ Victim(h)
  PROVE  IInv'
<1>1. CASE Emit(h)
  <2> DEFINE resolved == Resolve(job)
             S == {j \in Job : resolved[j] # job[j]}
  <2>1. resolved \in [Job -> JobRow] BY ResolveType DEF TypeInv, TypeOK
  <2>2. UNCHANGED tx \/ Keeps(h, "emit", S, resolved) BY <1>1 DEF Emit
  <2>3. UNCHANGED << job, run, loose, current, summed >> BY <1>1 DEF Emit, rows, history
  <2> HIDE DEF resolved
  <2>4. CASE UNCHANGED tx BY <2>3, <2>4, StillKeeps
  <2>5. CASE Keeps(h, "emit", S, resolved) BY <2>1, <2>3, <2>5, KeepsKeeps DEF Op
  <2> QED BY <2>2, <2>4, <2>5
<1>2. CASE Notify(h)
  <2>1. Quiet(h, Rest) BY <1>2, RestFields DEF Notify, Quiet, rows
  <2>2. Right(h)' BY <1>2, RestType, RestFields, RightFresh DEF Notify
  <2> QED BY <2>1, <2>2, RestType, QuietKeeps
<1>3. CASE Victim(h) BY <1>3, GiveUpKeeps DEF Victim
<1> QED BY <1>1, <1>2, <1>3

LEMMA InitKeeps == ASSUME Init PROVE IInv
<1>1. RunLocked BY RestFields DEF Init, RunLocked
<1>2. \A h \in Server : Right(h)
  BY RestFields DEF Init, Right, SnapshotFresh, SumFresh, ReadsBoth, WroteRight
<1> QED BY <1>1, <1>2 DEF Init, IInv, RunAggregates

LEMMA NextKeeps == ASSUME TypeInv, Shaped, IInv, Next PROVE IInv'
<1>1. PICK h \in Server : Intervene(h) \/ Request(h) \/ Handle(h) \/ Step(h) BY DEF Next
<1>2. CASE Intervene(h) BY <1>2, BeginKeeps, InterveneKeeps, ApproveKeeps DEF Intervene
<1>3. CASE Request(h) BY <1>3, BeginKeeps DEF Request
<1>4. CASE Handle(h) BY <1>4, QueueKeeps DEF Handle
<1>5. CASE Step(h)
  BY <1>5, ApproveKeeps, NextJobKeeps, UpdateJobKeeps, LoadKeeps, UpdateRunKeeps, UpdateTaskKeeps,
     CommitKeeps, QueueKeeps DEF Step
<1> QED BY <1>1, <1>2, <1>3, <1>4, <1>5

(* However the transactions that change the jobs overlap, under both       *)
(* isolation levels and with any of them rolled back, the status of the    *)
(* run is that of its jobs, unless CancelRunningJobs has written a job     *)
(* outside a transaction.                                                  *)
THEOREM RunStatusIsAggregate == Spec => []RunAggregates
<1> DEFINE Inv == TypeInv /\ Shaped /\ IInv
<1>1. Init => Inv BY InitType, ShapeInit, InitKeeps
<1>2. Inv /\ [Next]_vars => Inv'
  <2>1. CASE Next BY <2>1, NextType, ShapeNext, NextKeeps
  <2>2. Inv /\ UNCHANGED vars => Inv'
    <3> SUFFICES ASSUME Inv, UNCHANGED vars PROVE Inv' OBVIOUS
    <3> USE DEF vars
    <3>1. TypeInv' BY DEF TypeInv, TypeOK, AllStaged
    <3>2. Shaped' BY DEF Shaped, Placed, Shape, SnapTaken, Writes, Left
    <3>3. IInv' BY StillKeeps
    <3> QED BY <3>1, <3>2, <3>3
  <2> QED BY <2>1, <2>2
<1>3. Inv => RunAggregates BY DEF IInv
<1> HIDE DEF Inv
<1> QED BY <1>1, <1>2, <1>3, PTL DEF Spec

-----------------------------------------------------------------------------
(* What a goroutine knows of tasks: which are finished, and whose they are.*)

(* Task t has been inserted, for job j. *)
Knows(trows, t, j) == trows[t].status # "unused" /\ trows[t].job = j

HasTask(r) == \E t \in Task : r.wtask[t] # None

(* A row is written by one transaction at a time. *)
Locks ==
  \A g, h \in Server :
    \/ \E j \in Job : tx[g].wjob[j] # None /\ tx[h].wjob[j] # None
    \/ \E t \in Task : tx[g].wtask[t] # None /\ tx[h].wtask[t] # None
    => g = h

Linked == \A j \in Job : job[j].task # None => Knows(task, job[j].task, j)

(* The order of the statements: who has written a task writes the run      *)
(* before it commits; a runner's task is written with its job.             *)
Ordered(r) ==
  /\ r.op = "idle" => r.pc = "idle"
  /\ r.op = "supersede" => ~HasTask(r)
  /\ r.pc = "next" /\ HasTask(r) => r.wrun # None
  /\ r.pc = "task" => r.wrun # None \/ r.op = "supersede" \/ (r.op = "report" /\ ~HasTask(r))
  /\ r.pc \in {"next", "approve"} => r.t = None
  /\ r.op = "approve" => r.wrun # None \/ r.pc = "approve"
  /\ r.op \in {"approve", "rerun"} /\ r.pc = "job" => r.todo[r.at] # None
  /\ r.op \in {"pick", "report", "stop"} => ~Left(r)
  /\ r.op \in {"report", "stop"} /\ r.pc = "job" => r.t # None
  /\ r.op = "report" /\ r.pc # "task" /\ r.t # None =>
       r.wtask[r.t] # None /\ r.wtask[r.t].job = r.at
  /\ r.op = "rerun" => \A j \in Job : r.todo[j] # None => r.todo[j].status \in Done

(* The row of the task that a runner is given, and that of its job.        *)
Picked(r) ==
  r.op = "pick" =>
    /\ r.pc \in {"job", "loadRun", "loadJobs", "run", "next"}
    /\ r.pc = "job" => r.t # None /\ r.wtask[r.t] # None /\ r.to = "running"
    /\ \A t \in Task : r.wtask[t] # None =>
         /\ r.wtask[t] = [status |-> "running", job |-> r.at]
         /\ IF r.pc = "job" THEN r.t = t ELSE r.wjob[r.at] = [status |-> "running", task |-> t]

(* What the operations make of a job: only the emitter, a report and those *)
(* that stop jobs end one, and the emitter none that needs nothing.        *)
Outcome(r, j, s) ==
  /\ s # "blocked"
  /\ s = "running" => r.op = "pick"
  /\ r.op \in {"pick", "rerun", "approve"} => s \notin Done
  /\ r.op = "emit" /\ s \in Done => Needs[j] # {}
  /\ r.op = "report" => j = r.at
Outcomes(r) ==
  /\ \A j \in Job : r.wjob[j] # None => Outcome(r, j, r.wjob[j].status)
  /\ r.pc = "job" => Outcome(r, r.at, r.to)
  /\ r.op = "emit" => \A j \in Job : r.todo[j] # None => Outcome(r, j, r.todo[j].status)

(* fresh: it has read the version that the run still has.  Who has written *)
(* the run has; and then its snapshot shows the tasks as they are, but for *)
(* those finished outside a transaction.                                   *)
Versioned(r, fresh) ==
  /\ r.wrun # None => fresh
  /\ r.snap # None => isolation = "snapshot" /\ r.op # "supersede"
  /\ r.snap # None /\ fresh => \A t \in Task \ torn : r.snap.task[t] = task[t]

(* The snapshot shows unfinished whatever task is going to be finished.    *)
Unfinal(r) ==
  isolation = "snapshot" /\ r.op # "supersede" =>
    \A t \in Task : r.wtask[t] # None \/ r.t = t =>
      r.snap # None /\ r.snap.task[t].status \notin Done

(* The tasks held are those of the jobs they are held for.                 *)
Holds(r) ==
  /\ r.op \in {"cancel", "supersede"} =>
       \A j \in Job : r.todo[j] # None /\ r.todo[j].task # None => Knows(task, r.todo[j].task, j)
  /\ r.op # "pick" /\ r.t # None => Knows(task, r.t, r.at)
  /\ \A t \in Task : r.wtask[t] # None =>
       IF r.op = "pick" THEN task[t].status = "unused"
       ELSE Knows(task, t, r.wtask[t].job) /\ r.wtask[t].status \in Done
  /\ \A j \in Job : r.wjob[j] # None /\ r.wjob[j].task # None =>
       IF r.wtask[r.wjob[j].task] = None THEN Knows(task, r.wjob[j].task, j)
       ELSE r.wtask[r.wjob[j].task].job = j

(* What each operation has found of the job that it has written: only a    *)
(* transaction that finishes a task of the job writes a job that runs one. *)
Found(r, j) ==
  /\ r.op = "pick"    => job[j].task = None
  /\ r.op = "rerun"   => job[j].status \in Done
  /\ r.op = "emit"    => job[j].status = "blocked"
  /\ r.op = "approve" => job[j].status # "running"
  /\ r.op \in {"report", "stop", "cancel"} =>
       \/ job[j].task = None
       \/ r.t # None /\ r.at = j
       \/ \E t \in Task : r.wtask[t] # None /\ r.wtask[t].job = j
Based(r, fresh) ==
  /\ \A j \in Job : r.wjob[j] # None => Found(r, j)
  /\ r.op = "approve" /\ fresh => \A j \in Job : r.todo[j] # None => job[j].status # "running"

Steady(r)    == Ordered(r) /\ Picked(r) /\ Outcomes(r)
Own(r, fresh)    == Steady(r) /\ Versioned(r, fresh) /\ Unfinal(r) /\ Holds(r) /\ Based(r, fresh)
TaskInv == Locks /\ Linked /\ \A h \in Server : Own(tx[h], h \in current)

LEMMA OwnSame ==
  ASSUME UNCHANGED << isolation, job, task, torn >>, NEW g \in Server, Own(tx'[g], g \in current')
  PROVE  Own(tx[g], g \in current)'
<1>1. Steady(tx[g])'
  BY DEF Own, Steady, Ordered, Picked, Outcomes, Outcome, HasTask, Left
<1>2. Versioned(tx[g], g \in current)' BY DEF Own, Versioned
<1>3. Unfinal(tx[g])' BY DEF Own, Unfinal
<1>4. Holds(tx[g])' BY DEF Own, Holds, Knows
<1>5. Based(tx[g], g \in current)' BY DEF Own, Based, Found
<1> QED BY <1>1, <1>2, <1>3, <1>4, <1>5 DEF Own

(* Most steps change no committed row and nothing of other goroutines.     *)
Alone(h, r) ==
  /\ tx' = [tx EXCEPT ![h] = r]
  /\ UNCHANGED << isolation, job, task, torn >>
  /\ \A g \in Server \ {h} : /\ g \in current' => g \in current
                             /\ g \in current /\ tx[g].wrun # None => g \in current'
  /\ \A j \in Job : r.wjob[j] # None => tx[h].wjob[j] # None \/ JobFree(h, j)
  /\ \A t \in Task : r.wtask[t] # None => tx[h].wtask[t] # None \/ TaskFree(h, t)

LEMMA AloneLocks ==
  ASSUME TypeInv, Locks, NEW h \in Server, NEW r \in TxRecord, tx' = [tx EXCEPT ![h] = r],
         \A j \in Job : r.wjob[j] # None => tx[h].wjob[j] # None \/ JobFree(h, j),
         \A t \in Task : r.wtask[t] # None => tx[h].wtask[t] # None \/ TaskFree(h, t)
  PROVE  Locks'
<1>1. \A g \in Server : tx'[g] = IF g = h THEN r ELSE tx[g] BY DEF TypeInv, TypeOK
<1>2. ASSUME NEW f \in Server, NEW g \in Server, NEW j \in Job,
             tx'[f].wjob[j] # None, tx'[g].wjob[j] # None
      PROVE  f = g
  BY <1>1, <1>2 DEF Locks, JobFree
<1>3. ASSUME NEW f \in Server, NEW g \in Server, NEW t \in Task,
             tx'[f].wtask[t] # None, tx'[g].wtask[t] # None
      PROVE  f = g
  BY <1>1, <1>3 DEF Locks, TaskFree
<1> QED BY <1>2, <1>3 DEF Locks

LEMMA AloneKeeps ==
  ASSUME TypeInv, TaskInv, NEW h \in Server, NEW r \in TxRecord, Alone(h, r),
         Own(r, h \in current')
  PROVE  TaskInv'
<1>1. \A g \in Server : tx'[g] = IF g = h THEN r ELSE tx[g] BY DEF Alone, TypeInv, TypeOK
<1>2. Locks' BY AloneLocks DEF Alone, TaskInv
<1>3. Linked' BY DEF Alone, TaskInv, Linked, Knows
<1>4. ASSUME NEW g \in Server PROVE Own(tx[g], g \in current)'
  <2>1. CASE g = h BY <1>1, <2>1, OwnSame DEF Alone
  <2>2. CASE g # h
    <3>1. Own(tx[g], g \in current) /\ tx'[g] = tx[g] BY <1>1, <2>2 DEF TaskInv
    <3>2. /\ g \in current' => g \in current
          /\ tx[g].wrun # None => g \in current'
      BY <2>2, <3>1 DEF Alone, Own, Versioned
    <3>3. Own(tx[g], g \in current') BY <3>1, <3>2 DEF Own, Versioned, Based
    <3> QED BY <3>1, <3>3, OwnSame DEF Alone
  <2> QED BY <2>1, <2>2
<1> QED BY <1>2, <1>3, <1>4 DEF TaskInv

(* An operation that has written nothing and has no task in hand.          *)
LEMMA OwnRest ==
  ASSUME NEW r \in TxRecord, NEW h,
         r.wjob = Rest.wjob, r.wtask = Rest.wtask, r.wrun = None, r.t = None, r.snap = None,
         r.op # "pick", r.pc \in {"idle", "next", "notify"} \/ (r.pc = "approve" /\ r.op = "approve"),
         r.op = "approve" => r.pc = "approve", r.op = "idle" => r.pc = "idle",
         r.op \in {"report", "stop"} => ~Left(r),
         \A j \in Job : r.todo[j] # None =>
           /\ r.op = "rerun" => r.todo[j].status \in Done
           /\ r.op = "approve" => job[j].status # "running"
           /\ r.op = "emit" => Outcome(r, j, r.todo[j].status)
           /\ r.op \in {"cancel", "supersede"} /\ r.todo[j].task # None =>
                Knows(task, r.todo[j].task, j)
  PROVE  Own(r, h \in current')
<1>1. /\ ~HasTask(r) /\ \A t \in Task : r.wtask[t] = None /\ r.t # t
      /\ \A j \in Job : r.wjob[j] = None
  BY ConstantsAssumption DEF HasTask, Rest
<1>2. Steady(r) BY <1>1 DEF Steady, Ordered, Picked, Outcomes
<1>3. Versioned(r, h \in current') BY DEF Versioned
<1>4. Unfinal(r) BY <1>1 DEF Unfinal
<1>5. Holds(r) BY <1>1 DEF Holds
<1>6. Based(r, h \in current') BY <1>1 DEF Based
<1> QED BY <1>2, <1>3, <1>4, <1>5, <1>6 DEF Own

LEMMA OwnIdle == ASSUME NEW h PROVE Own(Rest, h \in current')
<1>1. /\ Rest \in TxRecord /\ Rest.wrun = None /\ Rest.t = None /\ Rest.snap = None
      /\ Rest.op = "idle" /\ Rest.pc = "idle" /\ \A j \in Job : Rest.todo[j] = None
  BY RestType DEF Rest
<1> QED BY <1>1, OwnRest DEF Left

LEMMA AloneRest ==
  ASSUME NEW h \in Server, NEW r \in TxRecord, r.wjob = Rest.wjob, r.wtask = Rest.wtask,
         tx' = [tx EXCEPT ![h] = r], UNCHANGED << isolation, job, task, torn >>,
         current' \subseteq current \cup {h}, current \subseteq current' \cup {h}
  PROVE  Alone(h, r)
BY DEF Alone, Rest

LEMMA OwnGiveUp ==
  ASSUME TypeInv, TaskInv, NEW h \in Server, GiveUp(h)
  PROVE  TaskInv'
<1>1. Alone(h, Rest) BY RestType, AloneRest DEF GiveUp, rows, history
<1> QED BY <1>1, OwnIdle, RestType, AloneKeeps

(* A read, which may take the snapshot. *)
LEMMA OwnReads ==
  ASSUME TypeInv, TaskInv, NEW h \in Server, NEW r \in TxRecord, Reads(h, r),
         UNCHANGED << rows, history >>,
         Steady(r), Holds(r), Based(r, TRUE),
         r.wrun # None => h \in current,
         r.snap # None => Versioned(r, h \in current) /\ Unfinal(r),
         isolation = "snapshot" /\ r.op # "supersede" /\ r.snap = None =>
           \A t \in Task : r.wtask[t] # None \/ r.t = t => task[t].status \notin Done,
         \A j \in Job : r.wjob[j] # None => tx[h].wjob[j] # None \/ JobFree(h, j),
         \A t \in Task : r.wtask[t] # None => tx[h].wtask[t] # None \/ TaskFree(h, t)
  PROVE  TaskInv'
<1> DEFINE snap == [job |-> job, task |-> task]
           q == [r EXCEPT !.snap = snap]
<1>1. CASE isolation = "snapshot" /\ r.op # "supersede" /\ r.snap = None
  <2>1. snap \in Snapshot /\ snap.task = task BY DEF TypeInv, TypeOK, Snapshot
  <2>2. snap # None BY ConstantsAssumption, <2>1
  <2>3. tx' = [tx EXCEPT ![h] = q] /\ current' = current \cup {h} BY <1>1 DEF Reads
  <2> HIDE DEF snap
  <2>4. /\ q \in TxRecord /\ q.snap = snap /\ q.op = r.op /\ q.pc = r.pc /\ q.todo = r.todo
        /\ q.at = r.at /\ q.t = r.t /\ q.to = r.to /\ q.wjob = r.wjob /\ q.wtask = r.wtask
        /\ q.wrun = r.wrun
    BY <2>1 DEF TxRecord
  <2> HIDE DEF q
  <2>5. Alone(h, q) BY <2>3, <2>4 DEF Alone, rows, history
  <2>6. Steady(q) BY <2>4 DEF Steady, Ordered, Picked, Outcomes, Outcome, HasTask, Left
  <2>7. Versioned(q, h \in current') BY <1>1, <2>1, <2>3, <2>4 DEF Versioned
  <2>8. Unfinal(q) BY <1>1, <2>1, <2>2, <2>4 DEF Unfinal
  <2>9. Holds(q) BY <2>4 DEF Holds, Knows
  <2>10. Based(q, h \in current') BY <2>4 DEF Based, Found
  <2> QED BY <2>4, <2>5, <2>6, <2>7, <2>8, <2>9, <2>10, AloneKeeps DEF Own
<1>2. CASE ~(isolation = "snapshot" /\ r.op # "supersede" /\ r.snap = None)
  <2>1. tx' = [tx EXCEPT ![h] = r] /\ current' = current BY <1>2 DEF Reads
  <2>2. Alone(h, r) BY <2>1 DEF Alone, rows, history
  <2>3. Versioned(r, h \in current') BY <2>1 DEF Versioned
  <2>4. Unfinal(r) BY <1>2 DEF Unfinal
  <2>5. Based(r, h \in current') BY DEF Based
  <2> QED BY <2>2, <2>3, <2>4, <2>5, AloneKeeps DEF Own
<1> QED BY <1>1, <1>2

LEMMA OwnPick ==
  ASSUME TypeInv, TaskInv, NEW h \in Server, Pick(h)
  PROVE  TaskInv'
<1>1. PICK j \in Job, t \in Task :
        /\ job[j] = [status |-> "waiting", task |-> None] /\ Unused(t)
        /\ Reads(h, [Rest EXCEPT !.op = "pick", !.pc = "job", !.at = j, !.t = t, !.to = "running",
                                !.wtask[t] = [status |-> "running", job |-> j]])
  BY DEF Pick
<1> DEFINE row == [status |-> "running", job |-> j]
           r == [Rest EXCEPT !.op = "pick", !.pc = "job", !.at = j, !.t = t, !.to = "running",
                             !.wtask[t] = row]
<1>2. r \in TxRecord BY RestType, StatusType DEF TxRecord, Op, PC, TaskRow
<1>3. row # None
  <2>1. row \in TaskRow BY DEF TaskRow
  <2> QED BY <2>1, ConstantsAssumption
<1>4. /\ r.op = "pick" /\ r.pc = "job" /\ r.at = j /\ r.t = t /\ r.to = "running"
      /\ r.snap = None /\ r.wrun = None /\ r.todo = Rest.todo /\ r.wjob = Rest.wjob
      /\ r.wtask[t] = row /\ \A s \in Task : s # t => r.wtask[s] = None
  BY DEF Rest
<1>5. Reads(h, r) BY <1>1
<1> HIDE DEF r
<1>6. ~Left(r) /\ \A k \in Job : r.wjob[k] = None BY <1>4 DEF Left, Rest
<1>7. r.t # None BY <1>4, ConstantsAssumption
<1>8. Steady(r)
  <2>1. Ordered(r) BY <1>4, <1>6 DEF Ordered
  <2>2. Picked(r) BY <1>3, <1>4, <1>7 DEF Picked
  <2>3. Outcomes(r) BY <1>4, <1>6 DEF Outcomes, Outcome, Done
  <2> QED BY <2>1, <2>2, <2>3 DEF Steady
<1>9. Holds(r) BY <1>1, <1>4, <1>6 DEF Holds, Unused
<1>10. Based(r, TRUE) BY <1>4, <1>6 DEF Based
<1>11. \A s \in Task : r.wtask[s] # None \/ r.t = s => s = t BY <1>4
<1>12. task[t].status \notin Done BY <1>1 DEF Unused, Done
<1>13. TaskFree(h, t) BY <1>1 DEF Unused, TaskFree
<1>14. UNCHANGED << rows, history >> BY DEF Pick
<1> QED BY <1>2, <1>4, <1>5, <1>6, <1>8, <1>9, <1>10, <1>11, <1>12, <1>13, <1>14, OwnReads

(* A task that runs is going to be finished. *)
LEMMA OwnFinish ==
  ASSUME TypeInv, Shaped, TaskInv, NEW h \in Server, NEW r \in TxRecord, NEW t \in Task,
         task[t].status = "running", Reads(h, r), UNCHANGED << rows, history >>,
         r.at = task[t].job, r.t = t, r.to \in Done, r.wjob = Rest.wjob, r.wtask = Rest.wtask,
         r.todo = Rest.todo, r.wrun = None, r.snap = None,
         \/ r.op = "report" /\ r.pc = "task"
         \/ r.op = "stop" /\ r.pc = "job"
  PROVE  TaskInv'
<1>1. /\ ~HasTask(r) /\ ~Left(r) /\ \A s \in Task : r.wtask[s] = None
      /\ \A j \in Job : r.wjob[j] = None
  BY DEF HasTask, Left, Rest
<1>2. Steady(r)
  <2>1. Ordered(r) BY <1>1, ConstantsAssumption DEF Ordered
  <2>2. Picked(r) BY DEF Picked
  <2>3. Outcomes(r) BY <1>1 DEF Outcomes, Outcome, Done
  <2> QED BY <2>1, <2>2, <2>3 DEF Steady
<1>3. Holds(r) BY <1>1 DEF Holds, Knows
<1>4. Based(r, TRUE) BY <1>1 DEF Based
<1>5. task[t].status \notin Done BY DEF Done
<1> QED BY <1>1, <1>2, <1>3, <1>4, <1>5, OwnReads

LEMMA OwnReport ==
  ASSUME TypeInv, Shaped, TaskInv, NEW h \in Server, Report(h)
  PROVE  TaskInv'
<1>1. ASSUME NEW t \in Task, task[t].status = "running", NEW result \in Result,
             Reads(h, [Rest EXCEPT !.op = "report", !.pc = "task",
                                  !.at = task[t].job, !.t = t, !.to = result])
      PROVE  TaskInv'
  <2> DEFINE r == [Rest EXCEPT !.op = "report", !.pc = "task",
                               !.at = task[t].job, !.t = t, !.to = result]
  <2>1. r \in TxRecord
    BY RestType, StatusType, ConstantsAssumption DEF TxRecord, Op, PC, TypeInv, TypeOK, TaskRow
  <2>2. /\ r.op = "report" /\ r.pc = "task" /\ r.at = task[t].job /\ r.t = t /\ r.to \in Done
        /\ r.wjob = Rest.wjob /\ r.wtask = Rest.wtask /\ r.todo = Rest.todo
        /\ r.wrun = None /\ r.snap = None
    BY ConstantsAssumption DEF Rest
  <2>3. Reads(h, r) /\ UNCHANGED << rows, history >> BY <1>1 DEF Report
  <2> HIDE DEF r
  <2> QED BY <1>1, <2>1, <2>2, <2>3, OwnFinish
<1>2. ASSUME NEW t \in Task, UNCHANGED << current, summed >>,
             tx' = [tx EXCEPT ![h] = [Rest EXCEPT !.op = "report", !.pc = "notify",
                                                 !.at = task[t].job]]
      PROVE  TaskInv'
  <2> DEFINE r == [Rest EXCEPT !.op = "report", !.pc = "notify", !.at = task[t].job]
  <2>1. r \in TxRecord BY RestType DEF TxRecord, Op, PC, TypeInv, TypeOK, TaskRow
  <2>2. /\ r.op = "report" /\ r.pc = "notify" /\ r.t = None /\ r.wjob = Rest.wjob
        /\ r.wtask = Rest.wtask /\ r.todo = Rest.todo /\ r.wrun = None /\ r.snap = None
    BY DEF Rest
  <2>3. tx' = [tx EXCEPT ![h] = r] BY <1>2
  <2>4. UNCHANGED << rows, history >> BY DEF Report
  <2> HIDE DEF r
  <2>5. \A j \in Job : r.todo[j] = None BY <2>2 DEF Rest
  <2>6. Own(r, h \in current') BY <2>1, <2>2, <2>5, OwnRest DEF Left
  <2>7. Alone(h, r) BY <1>2, <2>1, <2>2, <2>3, <2>4, AloneRest DEF rows, history
  <2> QED BY <2>1, <2>6, <2>7, AloneKeeps
<1> QED BY <1>1, <1>2 DEF Report, Reportable

LEMMA OwnStop ==
  ASSUME TypeInv, Shaped, TaskInv, NEW h \in Server, Stop(h)
  PROVE  TaskInv'
<1>1. PICK t \in Task :
        /\ task[t].status = "running"
        /\ Reads(h, [Rest EXCEPT !.op = "stop", !.pc = "job",
                                 !.at = task[t].job, !.t = t, !.to = "failure"])
  BY DEF Stop
<1> DEFINE r == [Rest EXCEPT !.op = "stop", !.pc = "job",
                             !.at = task[t].job, !.t = t, !.to = "failure"]
<1>2. r \in TxRecord BY RestType, StatusType DEF TxRecord, Op, PC, TypeInv, TypeOK, TaskRow, Done
<1>3. /\ r.op = "stop" /\ r.pc = "job" /\ r.at = task[t].job /\ r.t = t /\ r.to \in Done
      /\ r.wjob = Rest.wjob /\ r.wtask = Rest.wtask /\ r.todo = Rest.todo
      /\ r.wrun = None /\ r.snap = None
  BY DEF Rest, Done
<1>4. Reads(h, r) /\ UNCHANGED << rows, history >> BY <1>1 DEF Stop
<1> HIDE DEF r
<1> QED BY <1>1, <1>2, <1>3, <1>4, OwnFinish

LEMMA OwnKeeps ==
  ASSUME TypeInv, TaskInv, NEW h \in Server,
         NEW op \in {"cancel", "supersede", "abandon", "rerun", "emit"}, NEW S \in SUBSET Job,
         NEW read \in [Job -> JobRow], Keeps(h, op, S, read),
         UNCHANGED << isolation, job, task, torn, current >>,
         op \in {"cancel", "supersede"} => read = job,
         op = "rerun" => \A j \in S : read[j].status \in Done,
         op = "emit" => \A j \in S : read[j].status \in {"waiting", "skipped"} /\
                                     (read[j].status = "skipped" => Needs[j] # {})
  PROVE  TaskInv'
<1> DEFINE r == [Rest EXCEPT !.op = op, !.pc = "next",
                             !.todo = [j \in Job |-> IF j \in S THEN read[j] ELSE None]]
<1>1. r \in TxRecord BY RestType DEF TxRecord, Op, PC
<1>2. tx' = [tx EXCEPT ![h] = r] BY DEF Keeps
<1>3. /\ r.op = op /\ r.pc = "next" /\ r.t = None /\ r.wjob = Rest.wjob
      /\ r.wtask = Rest.wtask /\ r.wrun = None /\ r.snap = None
      /\ \A j \in Job : r.todo[j] = IF j \in S THEN read[j] ELSE None
  BY DEF Rest
<1> HIDE DEF r
<1>4. ASSUME NEW j \in Job, r.todo[j] # None
      PROVE  /\ r.op = "rerun" => r.todo[j].status \in Done
             /\ r.op = "approve" => job[j].status # "running"
             /\ r.op = "emit" => Outcome(r, j, r.todo[j].status)
             /\ r.op \in {"cancel", "supersede"} /\ r.todo[j].task # None =>
                  Knows(task, r.todo[j].task, j)
  <2>1. j \in S /\ r.todo[j] = read[j] BY <1>3, <1>4
  <2>2. r.op = "emit" => Outcome(r, j, r.todo[j].status) BY <1>3, <2>1 DEF Outcome, Done
  <2> QED BY <1>3, <2>1, <2>2 DEF TaskInv, Linked
<1>5. Own(r, h \in current') BY <1>1, <1>3, <1>4, OwnRest
<1>6. Alone(h, r) BY <1>1, <1>2, <1>3, AloneRest
<1> QED BY <1>1, <1>5, <1>6, AloneKeeps

LEMMA OwnIntervene ==
  ASSUME TypeInv, TaskInv, NEW h \in Server, Cancel(h) \/ Supersede(h) \/ Abandon(h) \/ Rerun(h)
  PROVE  TaskInv'
<1> USE DEF TypeInv, TypeOK, rows, history
<1>1. CASE Cancel(h) BY <1>1, OwnKeeps DEF Cancel, Unfinished
<1>2. CASE Supersede(h) BY <1>2, OwnKeeps DEF Supersede, Unfinished
<1>3. CASE Abandon(h) BY <1>3, OwnKeeps DEF Abandon
<1>4. CASE Rerun(h) BY <1>4, OwnKeeps DEF Rerun
<1> QED BY <1>1, <1>2, <1>3, <1>4

LEMMA OwnApprove ==
  ASSUME TypeInv, TaskInv, NEW h \in Server, Approve(h)
  PROVE  TaskInv'
<1> DEFINE S == {j \in Job : Needs[j] = {} /\ job[j].status = "blocked"}
           r == [Rest EXCEPT !.op = "approve", !.pc = "approve",
                             !.todo = [j \in Job |-> IF j \in S THEN job[j] ELSE None]]
<1>1. r \in TxRecord BY RestType DEF TxRecord, Op, PC, TypeInv, TypeOK
<1>2. /\ r.op = "approve" /\ r.pc = "approve" /\ r.t = None /\ r.wjob = Rest.wjob
      /\ r.wtask = Rest.wtask /\ r.wrun = None /\ r.snap = None
      /\ \A j \in Job : r.todo[j] # None => job[j].status = "blocked"
  BY DEF Rest
<1>3. tx' = [tx EXCEPT ![h] = r] BY DEF Approve
<1> HIDE DEF r
<1>4. Own(r, h \in current') BY <1>1, <1>2, OwnRest
<1>5. Alone(h, r) BY <1>1, <1>2, <1>3, AloneRest DEF Approve, rows, history
<1> QED BY <1>1, <1>4, <1>5, AloneKeeps

(* Operations go on: what a record says of rows stays true when only its   *)
(* statement, what it has aggregated and what it has written to the run    *)
(* change.                                                                 *)
Same(r, q) ==
  /\ r.op = q.op /\ r.todo = q.todo /\ r.snap = q.snap /\ r.wjob = q.wjob /\ r.wtask = q.wtask
  /\ r.at = q.at

LEMMA OwnSameRows ==
  ASSUME NEW q \in TxRecord, NEW r \in TxRecord, NEW h \in Server, Same(r, q),
         r.t = q.t \/ (r.t = None /\ (q.t # None => q.op \notin {"report", "stop", "cancel"} \/
            \E s \in Task : q.wtask[s] # None /\ q.wtask[s].job = q.at)),
         Own(q, h \in current), h \in current' => h \in current,
         r.wrun # None => h \in current', Steady(r)
  PROVE  Own(r, h \in current')
<1>1. Versioned(r, h \in current') BY DEF Own, Same, Versioned
<1>2. Unfinal(r) BY ConstantsAssumption DEF Own, Same, Unfinal, TxRecord
<1>3. Holds(r) BY DEF Own, Same, Holds
<1>4. Based(r, h \in current') BY DEF Own, Same, Based, Found
<1> QED BY <1>1, <1>2, <1>3, <1>4 DEF Own

LEMMA OwnApproveRun ==
  ASSUME TypeInv, Shaped, TaskInv, NEW h \in Server, ApproveRun(h)
  PROVE  TaskInv'
<1>1. CASE GiveUp(h) BY <1>1, OwnGiveUp
<1>2. CASE h \in current
  <2> DEFINE r == [tx[h] EXCEPT !.wrun = run.status, !.pc = "next"]
  <2>1. tx' = [tx EXCEPT ![h] = r] /\ UNCHANGED << rows, current, history >>
    BY <1>2 DEF ApproveRun, Unchanged
  <2>2. /\ tx[h] \in TxRecord /\ Own(tx[h], h \in current) /\ tx[h].pc = "approve"
        /\ Shape(tx[h]) /\ run.status \in JobStatus
    BY DEF TypeInv, TypeOK, TaskInv, ApproveRun, At, Shaped
  <2>3. r \in TxRecord BY <2>2 DEF TxRecord, PC
  <2>4. Same(r, tx[h]) /\ r.pc = "next" /\ r.t = tx[h].t /\ r.wrun # None /\ r.op = "approve"
    BY <2>2, ConstantsAssumption DEF Same, TxRecord, Shape
  <2> HIDE DEF r
  <2>5. Steady(r)
    <3>1. Steady(tx[h]) BY <2>2 DEF Own
    <3>2. Ordered(r) BY <2>2, <2>4, <3>1 DEF Steady, Ordered, Same
    <3>3. Outcomes(r) BY <2>2, <2>4, <3>1 DEF Steady, Outcomes, Outcome, Same
    <3> QED BY <2>4, <3>2, <3>3 DEF Steady, Picked
  <2>6. Own(r, h \in current') BY <1>2, <2>1, <2>2, <2>3, <2>4, <2>5, OwnSameRows
  <2>7. Alone(h, r) BY <2>1, <2>4 DEF Alone, Same, rows, history
  <2> QED BY <2>3, <2>6, <2>7, AloneKeeps
<1> QED BY <1>1, <1>2 DEF ApproveRun, Unchanged

LEMMA OwnNextJob ==
  ASSUME TypeInv, Shaped, TaskInv, NEW h \in Server, NextJob(h)
  PROVE  TaskInv'
<1>1. PICK j \in Job :
        LET read == tx[h].todo[j]
            op   == tx[h].op
        IN
        /\ read # None
        /\ IF op \in {"cancel", "supersede"} /\ read.task # None
           THEN Reads(h, IF TasksSeen(h)[read.task].status \in Done
                         THEN [tx[h] EXCEPT !.todo[j] = None]
                         ELSE [tx[h] EXCEPT !.pc = "job", !.at = j, !.t = read.task,
                                            !.to = "cancelled"])
           ELSE /\ tx' = [tx EXCEPT ![h].pc = "job", ![h].at = j, ![h].t = None,
                                    ![h].to = CASE op = "emit" -> read.status
                                                [] op \in {"rerun", "approve"} -> "waiting"
                                                [] OTHER -> "cancelled"]
                /\ UNCHANGED << current, summed >>
  BY DEF NextJob
<1> DEFINE read == tx[h].todo[j]
           skip == [tx[h] EXCEPT !.todo[j] = None]
           stop == [tx[h] EXCEPT !.pc = "job", !.at = j, !.t = read.task, !.to = "cancelled"]
           to   == CASE tx[h].op = "emit" -> read.status
                     [] tx[h].op \in {"rerun", "approve"} -> "waiting"
                     [] OTHER -> "cancelled"
           goes == [tx[h] EXCEPT !.pc = "job", !.at = j, !.t = None, !.to = to]
<1>2. /\ tx[h] \in TxRecord /\ tx[h].pc = "next" /\ Own(tx[h], h \in current)
      /\ UNCHANGED << rows, history >>
  BY DEF TypeInv, TypeOK, TaskInv, NextJob, At
<1>3. /\ Steady(tx[h]) /\ Ordered(tx[h]) /\ Picked(tx[h]) /\ Outcomes(tx[h]) /\ Holds(tx[h])
      /\ Unfinal(tx[h]) /\ Versioned(tx[h], h \in current) /\ Based(tx[h], h \in current)
      /\ tx[h].t = None
  BY <1>2 DEF Own, Steady, Ordered
<1>4. read \in JobRow /\ read # None BY <1>1, <1>2 DEF TxRecord
<1>5. tx[h].op \notin {"pick", "report", "stop"} BY <1>3, <1>4 DEF Ordered, Left
<1>6. isolation = "snapshot" /\ tx[h].op # "supersede" /\ tx[h].snap = None =>
        \A t \in Task : tx[h].wtask[t] = None
  BY <1>3 DEF Unfinal
<1>7. CASE Reads(h, skip) /\ tx[h].op \in {"cancel", "supersede"}
  <2>1. skip \in TxRecord BY <1>2 DEF TxRecord
  <2>2. /\ skip.op = tx[h].op /\ skip.pc = "next" /\ skip.wjob = tx[h].wjob
        /\ skip.wtask = tx[h].wtask /\ skip.wrun = tx[h].wrun /\ skip.snap = tx[h].snap
        /\ skip.t = None /\ skip.at = tx[h].at
        /\ \A k \in Job : skip.todo[k] # None => skip.todo[k] = tx[h].todo[k]
    BY <1>2, <1>3 DEF TxRecord
  <2> HIDE DEF skip
  <2>3. Steady(skip)
    <3>1. Ordered(skip) BY <1>2, <1>3, <1>7, <2>2 DEF Ordered, HasTask
    <3>2. Outcomes(skip) BY <1>3, <1>7, <2>2 DEF Outcomes, Outcome
    <3> QED BY <1>7, <2>2, <3>1, <3>2 DEF Steady, Picked
  <2>4. Holds(skip) BY <1>3, <1>7, <2>2 DEF Holds
  <2>5. Based(skip, TRUE) BY <1>3, <1>7, <2>2 DEF Based, Found
  <2>6. Versioned(skip, h \in current) /\ Unfinal(skip)
    BY <1>3, <2>2, ConstantsAssumption DEF Versioned, Unfinal
  <2>7. skip.wrun # None => h \in current BY <1>3, <2>2 DEF Versioned
  <2>8. \A t \in Task : skip.t # t BY <2>2, ConstantsAssumption
  <2> QED BY <1>2, <1>6, <1>7, <2>1, <2>2, <2>3, <2>4, <2>5, <2>6, <2>7, <2>8, OwnReads
<1>8. CASE /\ Reads(h, stop) /\ tx[h].op \in {"cancel", "supersede"}
           /\ TasksSeen(h)[read.task].status \notin Done /\ read.task # None
  <2>1. read.task \in Task BY <1>4, <1>8 DEF JobRow
  <2>2. stop \in TxRecord BY <1>2, <2>1, StatusType DEF TxRecord, PC, Done
  <2>3. /\ stop.op = tx[h].op /\ stop.pc = "job" /\ stop.wjob = tx[h].wjob
        /\ stop.wtask = tx[h].wtask /\ stop.wrun = tx[h].wrun /\ stop.snap = tx[h].snap
        /\ stop.todo = tx[h].todo /\ stop.t = read.task /\ stop.at = j /\ stop.to = "cancelled"
    BY <1>2 DEF TxRecord
  <2>4. /\ tx[h].snap = None /\ tx[h].wtask[read.task] = None => task[read.task].status \notin Done
        /\ tx[h].snap # None /\ tx[h].wtask[read.task] = None =>
             tx[h].snap.task[read.task].status \notin Done
    <3>1. DOMAIN task = Task /\ (tx[h].snap # None => DOMAIN tx[h].snap.task = Task)
      BY <1>2 DEF TypeInv, TypeOK, TxRecord, Snapshot
    <3> QED BY <1>8, <2>1, <3>1 DEF TasksSeen, Over
  <2> HIDE DEF stop, read
  <2>5. Steady(stop)
    <3>1. Ordered(stop) BY <1>3, <1>8, <2>3 DEF Ordered, HasTask
    <3>2. Outcomes(stop) BY <1>3, <1>8, <2>3 DEF Outcomes, Outcome
    <3> QED BY <1>8, <2>3, <3>1, <3>2 DEF Steady, Picked
  <2>6. Holds(stop) BY <1>3, <1>4, <1>8, <2>3 DEF Holds, read
  <2>7. Based(stop, TRUE) BY <1>3, <1>8, <2>3 DEF Based, Found
  <2>8. Versioned(stop, h \in current) BY <1>3, <2>3 DEF Versioned
  <2>9. stop.snap # None => Unfinal(stop) BY <1>3, <2>1, <2>3, <2>4 DEF Unfinal
  <2>10. stop.wrun # None => h \in current BY <1>3, <2>3 DEF Versioned
  <2>11. isolation = "snapshot" /\ stop.op # "supersede" /\ stop.snap = None =>
           \A t \in Task : stop.wtask[t] # None \/ stop.t = t => task[t].status \notin Done
    BY <1>6, <2>1, <2>3, <2>4
  <2> QED BY <1>2, <1>8, <2>2, <2>3, <2>5, <2>6, <2>7, <2>8, <2>9, <2>10, <2>11, OwnReads
<1>9. CASE tx' = [tx EXCEPT ![h] = goes] /\ UNCHANGED << current, summed >>
           /\ (tx[h].op \notin {"cancel", "supersede"} \/ read.task = None)
  <2>1. to \in JobStatus BY <1>4, StatusType DEF JobRow, Done
  <2>2. Outcome(tx[h], j, to)
    <3>1. CASE tx[h].op = "emit" BY <1>3, <1>4, <3>1 DEF Outcomes
    <3>2. CASE tx[h].op # "emit" BY <1>5, <3>2 DEF Outcome, Done
    <3> QED BY <3>1, <3>2
  <2> HIDE DEF to
  <2>3. goes \in TxRecord BY <1>2, <2>1 DEF TxRecord, PC
  <2>4. /\ goes.op = tx[h].op /\ goes.pc = "job" /\ goes.wjob = tx[h].wjob
        /\ goes.wtask = tx[h].wtask /\ goes.wrun = tx[h].wrun /\ goes.snap = tx[h].snap
        /\ goes.todo = tx[h].todo /\ goes.t = None /\ goes.at = j /\ goes.to = to
    BY <1>2 DEF TxRecord
  <2> HIDE DEF goes
  <2>5. Steady(goes)
    <3>1. Ordered(goes) BY <1>2, <1>3, <1>4, <1>5, <2>4 DEF Ordered, HasTask, Left
    <3>2. Outcomes(goes) BY <1>3, <1>5, <2>2, <2>4 DEF Outcomes, Outcome
    <3> QED BY <1>5, <2>4, <3>1, <3>2 DEF Steady, Picked
  <2>6. Holds(goes) BY <1>3, <2>4 DEF Holds
  <2>7. Based(goes, h \in current') BY <1>3, <1>9, <2>4 DEF Based, Found
  <2>8. Versioned(goes, h \in current') BY <1>3, <1>9, <2>4 DEF Versioned
  <2>9. Unfinal(goes) BY <1>3, <2>4, ConstantsAssumption DEF Unfinal
  <2>10. Alone(h, goes) BY <1>2, <1>9, <2>4 DEF Alone, rows, history
  <2> QED BY <2>3, <2>5, <2>6, <2>7, <2>8, <2>9, <2>10, AloneKeeps DEF Own
<1>10. \/ Reads(h, skip) /\ tx[h].op \in {"cancel", "supersede"}
       \/ /\ Reads(h, stop) /\ tx[h].op \in {"cancel", "supersede"}
          /\ TasksSeen(h)[read.task].status \notin Done /\ read.task # None
       \/ tx' = [tx EXCEPT ![h] = goes] /\ UNCHANGED << current, summed >>
          /\ (tx[h].op \notin {"cancel", "supersede"} \/ read.task = None)
  BY <1>1
<1> QED BY <1>7, <1>8, <1>9, <1>10

LEMMA OwnLoad ==
  ASSUME TypeInv, Shaped, TaskInv, NEW h \in Server, LoadRun(h) \/ LoadJobs(h)
  PROVE  TaskInv'
<1>1. /\ tx[h] \in TxRecord /\ Own(tx[h], h \in current) /\ Shape(tx[h])
      /\ Steady(tx[h]) /\ Holds(tx[h]) /\ Based(tx[h], h \in current)
      /\ Versioned(tx[h], h \in current) /\ Unfinal(tx[h])
  BY DEF TypeInv, TypeOK, TaskInv, Shaped, Own
<1>2. CASE LoadRun(h)
  <2> DEFINE r == [tx[h] EXCEPT !.pc = "loadJobs"]
  <2>1. r \in TxRecord BY <1>1 DEF TxRecord, PC
  <2>2. /\ Same(r, tx[h]) /\ r.pc = "loadJobs" /\ r.t = tx[h].t /\ r.wrun = tx[h].wrun
        /\ r.to = tx[h].to /\ tx[h].pc = "loadRun" /\ r.snap = None
    BY <1>1, <1>2 DEF Same, TxRecord, LoadRun, At, Shape
  <2>3. UNCHANGED << rows, history >> BY <1>2 DEF LoadRun
  <2>4. \/ Reads(h, r)
        \/ /\ tx' = [tx EXCEPT ![h] = r] /\ current' = current \cup {h}
           /\ ~(isolation = "snapshot" /\ InTx(h))
    BY <1>2 DEF LoadRun
  <2> HIDE DEF r
  <2>5. Steady(r)
    <3>1. Ordered(r) BY <1>1, <2>2 DEF Steady, Ordered, Same, HasTask, Left
    <3>2. Picked(r) BY <1>1, <2>2 DEF Steady, Picked, Same
    <3>3. Outcomes(r) BY <1>1, <2>2 DEF Steady, Outcomes, Outcome, Same
    <3> QED BY <3>1, <3>2, <3>3 DEF Steady
  <2>6. Holds(r) BY <1>1, <2>2 DEF Same, Holds
  <2>7. Based(r, TRUE)
    <3>1. tx[h].op = "approve" => h \in current
      BY <1>1, <2>2 DEF Steady, Ordered, Versioned
    <3> QED BY <1>1, <2>2, <3>1 DEF Same, Based, Found
  <2>8. r.wrun # None => h \in current BY <1>1, <2>2 DEF Versioned
  <2>9. isolation = "snapshot" /\ r.op # "supersede" =>
           \A t \in Task : ~(r.wtask[t] # None \/ r.t = t)
    BY <1>1, <2>2 DEF Unfinal, Same
  <2>10. CASE Reads(h, r)
    <3>1. /\ \A j \in Job : r.wjob[j] # None => tx[h].wjob[j] # None
          /\ \A t \in Task : r.wtask[t] # None => tx[h].wtask[t] # None
      BY <2>2 DEF Same
    <3> QED BY <2>1, <2>2, <2>3, <2>5, <2>6, <2>7, <2>8, <2>9, <2>10, <3>1, OwnReads
  <2>11. CASE /\ tx' = [tx EXCEPT ![h] = r] /\ current' = current \cup {h}
              /\ ~(isolation = "snapshot" /\ InTx(h))
    <3>1. Alone(h, r) BY <2>2, <2>3, <2>11 DEF Alone, Same, rows, history
    <3>2. Versioned(r, h \in current') BY <2>2, <2>11 DEF Versioned
    <3>3. Unfinal(r) BY <2>2, <2>11 DEF Unfinal, InTx, Same
    <3>4. Based(r, h \in current') BY <2>7 DEF Based
    <3> QED BY <2>1, <2>5, <2>6, <3>1, <3>2, <3>3, <3>4, AloneKeeps DEF Own
  <2> QED BY <2>4, <2>10, <2>11
<1>3. CASE LoadJobs(h)
  <2> DEFINE sum == Aggregate(JobsSeen(h))
             r   == [tx[h] EXCEPT !.pc = "run", !.sum = sum]
  <2>1. sum \in JobStatus BY AggregateType
  <2>2. /\ tx' = [tx EXCEPT ![h] = r] /\ UNCHANGED << rows, current, history >>
        /\ tx[h].pc = "loadJobs"
    BY <1>3 DEF LoadJobs, At
  <2> HIDE DEF sum
  <2>3. r \in TxRecord BY <1>1, <2>1 DEF TxRecord, PC
  <2>4. /\ Same(r, tx[h]) /\ r.pc = "run" /\ r.t = tx[h].t /\ r.wrun = tx[h].wrun
        /\ r.to = tx[h].to
    BY <1>1 DEF Same, TxRecord
  <2> HIDE DEF r
  <2>5. Steady(r)
    <3>1. Ordered(r) BY <1>1, <2>2, <2>4 DEF Steady, Ordered, Same, HasTask, Left
    <3>2. Picked(r) BY <1>1, <2>2, <2>4 DEF Steady, Picked, Same
    <3>3. Outcomes(r) BY <1>1, <2>2, <2>4 DEF Steady, Outcomes, Outcome, Same
    <3> QED BY <3>1, <3>2, <3>3 DEF Steady
  <2>6. r.wrun # None => h \in current' BY <1>1, <2>2, <2>4 DEF Versioned
  <2>7. Own(r, h \in current') BY <1>1, <2>2, <2>3, <2>4, <2>5, <2>6, OwnSameRows
  <2>8. Alone(h, r) BY <2>2, <2>4 DEF Alone, Same, rows, history
  <2> QED BY <2>3, <2>7, <2>8, AloneKeeps
<1> QED BY <1>2, <1>3

LEMMA OwnUpdateRun ==
  ASSUME TypeInv, Shaped, TaskInv, NEW h \in Server, UpdateRun(h)
  PROVE  TaskInv'
<1> DEFINE stops == tx[h].op \in {"stop", "cancel", "supersede"} /\ tx[h].t # None
           next  == IF stops THEN [tx[h] EXCEPT !.sum = None, !.pc = "task"]
                    ELSE [tx[h] EXCEPT !.sum = None, !.pc = "next", !.t = None, !.to = None]
           writes == [next EXCEPT !.wrun = tx[h].sum]
<1>1. CASE GiveUp(h) BY <1>1, OwnGiveUp
<1>2. CASE ~GiveUp(h)
  <2>1. /\ tx[h] \in TxRecord /\ Staged(tx[h]) /\ Shape(tx[h]) /\ tx[h].pc = "run"
        /\ Own(tx[h], h \in current) /\ Steady(tx[h]) /\ Ordered(tx[h]) /\ Picked(tx[h])
        /\ Outcomes(tx[h]) /\ RunFree(h) /\ h \in current
    BY <1>2 DEF Unchanged, TypeInv, TypeOK, AllStaged, Shaped, TaskInv, Own, Steady, UpdateRun, At
  <2>2. next \in TxRecord BY <2>1 DEF TxRecord, PC
  <2>3. tx[h].sum \in JobStatus /\ tx[h].sum # None BY <2>1 DEF Staged, TxRecord
  <2>4. /\ UNCHANGED << isolation, job, task, torn >>
        /\ \/ tx' = [tx EXCEPT ![h] = writes] /\ current' = current /\ tx[h].op # "supersede"
           \/ tx' = [tx EXCEPT ![h] = next] /\ current' = {} /\ tx[h].op = "supersede"
    BY <1>2 DEF Unchanged, UpdateRun, InTx
  <2>5. /\ Same(next, tx[h]) /\ next.wrun = tx[h].wrun
        /\ \/ stops /\ next.pc = "task" /\ next.t = tx[h].t
           \/ ~stops /\ next.pc = "next" /\ next.t = None
    BY <2>1 DEF TxRecord, Same
  <2> HIDE DEF next
  <2>6. /\ writes \in TxRecord /\ Same(writes, next) /\ writes.wrun = tx[h].sum
        /\ writes.pc = next.pc /\ writes.t = next.t
    BY <2>2, <2>3 DEF TxRecord, Same
  <2> HIDE DEF writes
  <2>7. ASSUME NEW r \in TxRecord, Same(r, tx[h]),
               \/ stops /\ r.pc = "task" /\ r.t = tx[h].t
               \/ ~stops /\ r.pc = "next" /\ r.t = None,
               r.wrun # None \/ r.op = "supersede", r.wrun # None => h \in current',
               tx' = [tx EXCEPT ![h] = r]
        PROVE  TaskInv'
    <3>1. HasTask(r) <=> HasTask(tx[h]) BY <2>7 DEF HasTask, Same
    <3>2. Left(r) <=> Left(tx[h]) BY <2>7 DEF Left, Same
    <3>3. Ordered(r) BY <2>1, <2>7, <3>1, <3>2 DEF Ordered, Same
    <3>4. Picked(r) BY <2>1, <2>7 DEF Picked, Same
    <3>5. Outcomes(r) BY <2>1, <2>7 DEF Outcomes, Outcome, Same
    <3>6. r.t = tx[h].t \/ (r.t = None /\ (tx[h].t # None =>
             tx[h].op \notin {"report", "stop", "cancel"} \/
             \E s \in Task : tx[h].wtask[s] # None /\ tx[h].wtask[s].job = tx[h].at))
      <4>1. tx[h].op = "report" /\ tx[h].t # None =>
              \E s \in Task : tx[h].wtask[s] # None /\ tx[h].wtask[s].job = tx[h].at
        BY <2>1 DEF Ordered, TxRecord
      <4> QED BY <2>7, <4>1
    <3>7. Own(r, h \in current') BY <2>1, <2>4, <2>7, <3>3, <3>4, <3>5, <3>6, OwnSameRows DEF Steady
    <3>8. Alone(h, r) BY <2>1, <2>4, <2>7 DEF Alone, Same, RunFree
    <3> QED BY <3>7, <3>8, AloneKeeps
  <2>8. Same(writes, tx[h]) BY <2>5, <2>6 DEF Same
  <2>9. tx[h].op = "supersede" => next.wrun = None /\ next.op = "supersede"
    BY <2>1, <2>5 DEF Shape, Same
  <2> HIDE DEF stops
  <2>10. CASE tx' = [tx EXCEPT ![h] = writes] /\ current' = current
    <3>1. \/ stops /\ writes.pc = "task" /\ writes.t = tx[h].t
          \/ ~stops /\ writes.pc = "next" /\ writes.t = None
      BY <2>5, <2>6
    <3>2. writes.wrun # None /\ h \in current' BY <2>1, <2>3, <2>6, <2>10
    <3> QED BY <2>6, <2>7, <2>8, <2>10, <3>1, <3>2
  <2>11. CASE tx' = [tx EXCEPT ![h] = next] /\ tx[h].op = "supersede"
    <3>1. \/ stops /\ next.pc = "task" /\ next.t = tx[h].t
          \/ ~stops /\ next.pc = "next" /\ next.t = None
      BY <2>5
    <3>2. next.wrun = None /\ next.op = "supersede" /\ Same(next, tx[h]) BY <2>5, <2>9, <2>11
    <3> QED BY <2>2, <2>7, <2>11, <3>1, <3>2
  <2> QED BY <2>4, <2>10, <2>11
<1> QED BY <1>1, <1>2

LEMMA ResolveMoves ==
  ASSUME NEW jobs \in [Job -> JobRow], NEW j \in Job, Resolve(jobs)[j] # jobs[j]
  PROVE  /\ Resolve(jobs)[j].status \in {"waiting", "skipped"}
         /\ Resolve(jobs)[j].status = "skipped" => Needs[j] # {}
<1> DEFINE row == jobs[j]
<1>1. row = [status |-> row.status, task |-> row.task] BY DEF JobRow
<1>2. /\ [row EXCEPT !.status = "skipped"].status = "skipped"
      /\ [row EXCEPT !.status = "waiting"].status = "waiting"
  BY <1>1
<1>3. j \in Skipped(jobs) => Needs[j] # {}
  <2> DEFINE S == {k \in Job : Needs[k] # {}}
  <2>1. \A k \in Job : Skips(jobs, S, k) => k \in S BY DEF Skips
  <2> QED BY <2>1 DEF Skipped
<1> QED BY <1>2, <1>3 DEF Resolve

LEMMA OwnQueue ==
  ASSUME TypeInv, Shaped, TaskInv, NEW h \in Server, Emit(h) \/ Notify(h) \/ Victim(h)
  PROVE  TaskInv'
<1>1. CASE Emit(h)
  <2> DEFINE resolved == Resolve(job)
             S == {j \in Job : resolved[j] # job[j]}
  <2>1. resolved \in [Job -> JobRow] BY ResolveType DEF TypeInv, TypeOK
  <2>2. UNCHANGED tx \/ Keeps(h, "emit", S, resolved) BY <1>1 DEF Emit
  <2>3. UNCHANGED << isolation, job, task, torn, current >> BY <1>1 DEF Emit, rows, history
  <2>4. \A j \in S : resolved[j].status \in {"waiting", "skipped"} /\
                     (resolved[j].status = "skipped" => Needs[j] # {})
    BY ResolveMoves DEF TypeInv, TypeOK
  <2> HIDE DEF resolved
  <2>5. CASE UNCHANGED tx
    <3>1. Locks' /\ Linked' BY <2>3, <2>5 DEF TaskInv, Locks, Linked, Knows
    <3>2. ASSUME NEW g \in Server PROVE Own(tx[g], g \in current)'
      BY <2>3, <2>5, OwnSame DEF TaskInv
    <3> QED BY <3>1, <3>2 DEF TaskInv
  <2>6. CASE Keeps(h, "emit", S, resolved) BY <2>1, <2>3, <2>4, <2>6, OwnKeeps
  <2> QED BY <2>2, <2>5, <2>6
<1>2. CASE Notify(h)
  <2>1. Alone(h, Rest) BY <1>2, RestType, AloneRest DEF Notify, rows
  <2> QED BY <2>1, OwnIdle, RestType, AloneKeeps
<1>3. CASE Victim(h) BY <1>3, OwnGiveUp DEF Victim
<1> QED BY <1>1, <1>2, <1>3

LEMMA OwnInit == ASSUME Init PROVE TaskInv
<1>1. /\ Rest.wrun = None /\ Rest.t = None /\ Rest.snap = None
      /\ Rest.op = "idle" /\ Rest.pc = "idle" /\ \A j \in Job : Rest.todo[j] = None
      /\ \A j \in Job : Rest.wjob[j] = None
      /\ \A t \in Task : Rest.wtask[t] = None /\ Rest.t # t
  BY ConstantsAssumption DEF Rest
<1>2. ~HasTask(Rest) /\ ~Left(Rest) BY <1>1 DEF HasTask, Left
<1>3. Steady(Rest) BY <1>1, <1>2 DEF Steady, Ordered, Picked, Outcomes
<1>4. \A h \in Server : Own(Rest, h \in current)
  BY <1>1, <1>3 DEF Own, Versioned, Unfinal, Holds, Based
<1>5. Locks /\ Linked BY <1>1 DEF Init, Locks, Linked
<1>6. \A h \in Server : tx[h] = Rest BY DEF Init
<1> QED BY <1>4, <1>5, <1>6 DEF TaskInv

(* A step of another goroutine that changes rows, but none that g has      *)
(* written, and the version g has read unless no task changes.             *)
LEMMA OwnOther ==
  ASSUME TypeInv, TypeInv', NEW g \in Server, Own(tx[g], g \in current), tx'[g] = tx[g],
         UNCHANGED isolation,
         \A t \in Task : task[t].status # "unused" => Knows(task', t, task[t].job),
         \A t \in Task : tx[g].wtask[t] # None /\ task[t].status = "unused" => task'[t] = task[t],
         \A j \in Job : tx[g].wjob[j] # None => job'[j] = job[j],
         g \in current' =>
           /\ g \in current
           /\ \A t \in Task \ torn' : t \notin torn /\ task'[t] = task[t]
           /\ \A j \in Job : job'[j].status = "running" => job[j].status = "running",
         tx[g].wrun # None => g \in current'
  PROVE  Own(tx[g], g \in current)'
<1> DEFINE r == tx[g]
<1>1. /\ r \in TxRecord /\ Steady(r) /\ Versioned(r, g \in current) /\ Unfinal(r) /\ Holds(r)
      /\ Based(r, g \in current)
  BY DEF TypeInv, TypeOK, Own
<1>2. Steady(tx[g])'
  <2>1. Steady(tx'[g]) BY <1>1
  <2> QED BY <2>1 DEF Steady, Ordered, Picked, Outcomes, Outcome, HasTask, Left
<1>3. Versioned(tx[g], g \in current)' BY <1>1 DEF Versioned
<1>4. Unfinal(tx[g])' BY <1>1 DEF Unfinal
<1>5. Holds(tx[g])'
  <2>1. \A j \in Job : r.todo[j] # None /\ r.todo[j].task # None => r.todo[j].task \in Task
    BY <1>1 DEF TxRecord, JobRow
  <2>2. r.op \in {"cancel", "supersede"} =>
          \A j \in Job : r.todo[j] # None /\ r.todo[j].task # None =>
            Knows(task', r.todo[j].task, j)
    BY <1>1, <2>1 DEF Holds, Knows
  <2>3. r.op # "pick" /\ r.t # None => Knows(task', r.t, r.at)
    BY <1>1 DEF Holds, Knows, TxRecord
  <2>4. \A t \in Task : r.wtask[t] # None =>
          IF r.op = "pick" THEN task'[t].status = "unused"
          ELSE Knows(task', t, r.wtask[t].job) /\ r.wtask[t].status \in Done
    BY <1>1 DEF Holds, Knows
  <2>5. ASSUME NEW j \in Job, r.wjob[j] # None, r.wjob[j].task # None
        PROVE  IF r.wtask[r.wjob[j].task] = None THEN Knows(task', r.wjob[j].task, j)
               ELSE r.wtask[r.wjob[j].task].job = j
    <3>1. r.wjob[j].task \in Task BY <1>1, <2>5 DEF TxRecord, JobRow
    <3> QED BY <1>1, <2>5, <3>1 DEF Holds, Knows
  <2> QED BY <2>2, <2>3, <2>4, <2>5 DEF Holds, Knows
<1>6. Based(tx[g], g \in current)' BY <1>1 DEF Based, Found
<1> QED BY <1>2, <1>3, <1>4, <1>5, <1>6 DEF Own

(* CancelRunningJobs writes a job. *)
LEMMA OwnLooseJob ==
  ASSUME TypeInv, TypeInv', TaskInv, NEW h \in Server, NEW r \in TxRecord, NEW j \in Job, NEW row,
         tx' = [tx EXCEPT ![h] = r], JobFree(h, j), job' = [job EXCEPT ![j] = row],
         row.task = job[j].task, row.status # "running",
         UNCHANGED << isolation, task, torn, current >>, Own(r, h \in current),
         r.wtask = tx[h].wtask, r.op = "supersede", \A k \in Job : r.wjob[k] = None
  PROVE  TaskInv'
<1>1. \A g \in Server : tx'[g] = IF g = h THEN r ELSE tx[g] BY DEF TypeInv, TypeOK
<1>2. \A k \in Job : job'[k] = IF k = j THEN row ELSE job[k] BY DEF TypeInv, TypeOK
<1>3. Locks' BY AloneLocks DEF TaskInv
<1>5. Linked' BY <1>2 DEF TaskInv, Linked, Knows
<1>6. ASSUME NEW g \in Server PROVE Own(tx[g], g \in current)'
  <2>1. CASE g = h
    <3>1. Own(tx'[g], g \in current) BY <1>1, <2>1
    <3>2. tx'[g].op = "supersede" /\ \A k \in Job : tx'[g].wjob[k] = None BY <1>1, <2>1
    <3>3. Steady(tx[g])'
      BY <3>1 DEF Own, Steady, Ordered, Picked, Outcomes, Outcome, HasTask, Left
    <3>4. Versioned(tx[g], g \in current)' BY <3>1 DEF Own, Versioned
    <3>5. Unfinal(tx[g])' BY <3>1 DEF Own, Unfinal
    <3>6. Holds(tx[g])' BY <3>1 DEF Own, Holds, Knows
    <3>7. Based(tx[g], g \in current)' BY <3>2 DEF Based
    <3> QED BY <3>3, <3>4, <3>5, <3>6, <3>7 DEF Own
  <2>2. CASE g # h
    <3>1. \A k \in Job : tx[g].wjob[k] # None => k # j BY <2>2 DEF JobFree
    <3>2. \A t \in Task : task[t].status # "unused" => Knows(task', t, task[t].job) BY DEF Knows
    <3>3. Own(tx[g], g \in current) BY DEF TaskInv
    <3>4. tx[g].wrun # None => g \in current BY <3>3 DEF Own, Versioned
    <3> QED BY <1>1, <1>2, <2>2, <3>1, <3>2, <3>3, <3>4, OwnOther
  <2> QED BY <2>1, <2>2
<1> QED BY <1>3, <1>5, <1>6 DEF TaskInv

LEMMA OwnUpdateJob ==
  ASSUME TypeInv, TypeInv', Shaped, TaskInv, NEW h \in Server, UpdateJob(h)
  PROVE  TaskInv'
<1> DEFINE j == tx[h].at
           row == Over(job, tx[h].wjob)[j]
           next == [tx[h] EXCEPT !.todo[j] = None,
                                 !.pc = IF tx[h].snap = None THEN "loadRun" ELSE "loadJobs"]
           new == NewRow(h, row)
           writes == [next EXCEPT !.wjob[j] = new]
<1>1. CASE GiveUp(h) BY <1>1, OwnGiveUp
<1>2. CASE ~GiveUp(h)
  <2>1. /\ tx[h] \in TxRecord /\ Shape(tx[h]) /\ tx[h].pc = "job" /\ j \in Job /\ JobFree(h, j)
        /\ Own(tx[h], h \in current) /\ Affected(h, row)
    BY <1>2 DEF TypeInv, TypeOK, TaskInv, Shaped, Shape, UpdateJob, At
  <2>2. /\ Steady(tx[h]) /\ Ordered(tx[h]) /\ Picked(tx[h]) /\ Outcomes(tx[h]) /\ Holds(tx[h])
        /\ Unfinal(tx[h]) /\ Versioned(tx[h], h \in current) /\ Based(tx[h], h \in current)
    BY <2>1 DEF Own, Steady
  <2>3. next \in TxRecord BY <2>1 DEF TxRecord, PC
  <2>4. row \in JobRow BY <2>1, OverJobs DEF TypeInv, TypeOK, TxRecord
  <2>5. row = IF tx[h].wjob[j] = None THEN job[j] ELSE tx[h].wjob[j]
    BY <2>1 DEF Over, TypeInv, TypeOK
  <2>6. /\ new \in JobRow /\ new # None /\ new.status = tx[h].to
        /\ tx[h].op = "pick" => new.task = tx[h].t
        /\ tx[h].op = "rerun" => new.task = None
        /\ tx[h].op \notin {"pick", "rerun"} => new.task = row.task
    <3>1. new \in JobRow
      <4> HIDE DEF row
      <4> QED BY <2>4, NewRowType DEF UpdateJob
    <3>2. new # None BY <3>1, ConstantsAssumption
    <3> QED BY <3>1, <3>2 DEF NewRow
  <2>7. /\ UNCHANGED << isolation, task, torn, current >>
        /\ \/ InTx(h) /\ tx' = [tx EXCEPT ![h] = writes] /\ UNCHANGED job
           \/ ~InTx(h) /\ tx' = [tx EXCEPT ![h] = next] /\ job' = [job EXCEPT ![j] = new]
    BY <1>2 DEF UpdateJob
  <2>8. /\ next.op = tx[h].op /\ next.at = j /\ next.wjob = tx[h].wjob /\ next.wtask = tx[h].wtask
        /\ next.wrun = tx[h].wrun /\ next.snap = tx[h].snap /\ next.t = tx[h].t
        /\ next.to = tx[h].to /\ next.pc \in {"loadRun", "loadJobs"}
        /\ \A k \in Job : next.todo[k] = IF k = j THEN None ELSE tx[h].todo[k]
    BY <2>1 DEF TxRecord
  <2> HIDE DEF next, new, row
  <2>9. CASE InTx(h) /\ tx' = [tx EXCEPT ![h] = writes] /\ UNCHANGED job
    <3>1. /\ writes \in TxRecord /\ writes.op = tx[h].op /\ writes.at = j
          /\ writes.wtask = tx[h].wtask /\ writes.wrun = tx[h].wrun /\ writes.snap = tx[h].snap
          /\ writes.t = tx[h].t /\ writes.pc = next.pc /\ writes.todo = next.todo
          /\ \A k \in Job : writes.wjob[k] = IF k = j THEN new ELSE tx[h].wjob[k]
      BY <2>1, <2>3, <2>6, <2>8 DEF TxRecord
    <3> HIDE DEF writes, j
    <3>2. Ordered(writes) BY <2>1, <2>2, <2>8, <3>1 DEF Ordered, HasTask, Left, j
    <3>3. Picked(writes)
      <4>1. tx[h].op = "pick" => new = [status |-> "running", task |-> tx[h].t]
        BY <2>1, <2>2, <2>6 DEF Picked, JobRow
      <4> QED BY <2>1, <2>2, <2>8, <3>1, <4>1 DEF Picked, j
    <3>4. Outcomes(writes) BY <2>1, <2>2, <2>6, <2>8, <3>1 DEF Outcomes, Outcome, j
    <3>5. Holds(writes)
      <4>1. ASSUME new.task # None
            PROVE  IF tx[h].wtask[new.task] = None THEN Knows(task, new.task, j)
                   ELSE tx[h].wtask[new.task].job = j
        <5>1. new.task \in Task BY <2>6, <4>1 DEF JobRow
        <5>2. CASE tx[h].op = "pick" BY <2>1, <2>2, <2>6, <5>1, <5>2 DEF Picked, j
        <5>3. CASE tx[h].op # "pick" /\ tx[h].wjob[j] = None
          <6>1. Knows(task, new.task, j) BY <2>1, <2>5, <2>6, <4>1, <5>3 DEF TaskInv, Linked
          <6>2. tx[h].wtask[new.task] # None => Knows(task, new.task, tx[h].wtask[new.task].job)
            BY <2>2, <5>1, <5>3 DEF Holds
          <6> QED BY <6>1, <6>2 DEF Knows
        <5>4. CASE tx[h].op # "pick" /\ tx[h].wjob[j] # None
          BY <2>1, <2>2, <2>5, <2>6, <4>1, <5>4 DEF Holds
        <5> QED BY <5>2, <5>3, <5>4
      <4> QED BY <2>2, <2>8, <3>1, <4>1 DEF Holds, j
    <3>6. Based(writes, h \in current')
      <4>1. Found(writes, j)
        <5>1. CASE tx[h].wjob[j] # None BY <2>1, <2>2, <3>1, <5>1 DEF Based, Found
        <5>2. CASE tx[h].wjob[j] = None
          <6>1. tx[h].op = "rerun" => tx[h].todo[j].status \in Done
            BY <2>1, <2>2 DEF Ordered, j
          <6>2. tx[h].op = "approve" => job[j].status # "running"
            BY <2>1, <2>2 DEF Ordered, Versioned, Based, j
          <6>3. tx[h].op \in {"report", "stop"} => tx[h].t # None BY <2>1, <2>2 DEF Ordered
          <6> QED BY <2>1, <2>5, <3>1, <5>2, <6>1, <6>2, <6>3 DEF Found, Affected, j
        <5> QED BY <5>1, <5>2
      <4> QED BY <2>2, <2>7, <2>8, <3>1, <4>1 DEF Based, Found, j
    <3>7. Versioned(writes, h \in current') BY <2>2, <2>7, <3>1 DEF Versioned
    <3>8. Unfinal(writes) BY <2>2, <3>1 DEF Unfinal
    <3>9. Alone(h, writes) BY <2>1, <2>7, <2>9, <3>1 DEF Alone
    <3> QED BY <3>1, <3>2, <3>3, <3>4, <3>5, <3>6, <3>7, <3>8, <3>9, AloneKeeps DEF Own, Steady
  <2>10. CASE ~InTx(h) /\ tx' = [tx EXCEPT ![h] = next] /\ job' = [job EXCEPT ![j] = new]
    <3>1. next.op = "supersede" /\ \A k \in Job : tx[h].wjob[k] = None
      BY <2>1, <2>8, <2>10 DEF InTx, Shape, Writes
    <3>2. new.task = job[j].task BY <2>1, <2>5, <2>6, <2>8, <3>1
    <3>3. new.status # "running" BY <2>1, <2>2, <2>6, <2>8, <3>1 DEF Outcomes, Outcome
    <3>4. Ordered(next) BY <2>1, <2>2, <2>8, <3>1 DEF Ordered, HasTask
    <3>5. Outcomes(next) BY <2>1, <2>2, <2>8, <3>1 DEF Outcomes
    <3>6. Holds(next) BY <2>2, <2>8, <3>1 DEF Holds
    <3>7. /\ Picked(next) /\ Versioned(next, h \in current) /\ Unfinal(next)
          /\ Based(next, h \in current)
      BY <2>2, <2>8, <3>1 DEF Picked, Versioned, Unfinal, Based
    <3>8. Own(next, h \in current) BY <3>4, <3>5, <3>6, <3>7 DEF Own, Steady
    <3> HIDE DEF j
    <3>9. UNCHANGED << isolation, task, torn, current >> BY <2>7
    <3>10. next.wtask = tx[h].wtask /\ \A k \in Job : next.wjob[k] = None BY <2>8, <3>1
    <3> QED BY <2>1, <2>3, <2>10, <3>1, <3>2, <3>3, <3>8, <3>9, <3>10, OwnLooseJob
  <2> QED BY <2>7, <2>9, <2>10
<1> QED BY <1>1, <1>2

LEMMA OwnUpdateTask ==
  ASSUME TypeInv, TypeInv', Shaped, TaskInv, NEW h \in Server, UpdateTask(h)
  PROVE  TaskInv'
<1> DEFINE t == tx[h].t
           row == [Over(task, tx[h].wtask)[t] EXCEPT !.status = tx[h].to]
           next == IF tx[h].op = "report" THEN [tx[h] EXCEPT !.pc = "job"]
                   ELSE [tx[h] EXCEPT !.pc = "next", !.t = None, !.to = None]
           writes == [next EXCEPT !.wtask[t] = row]
<1>1. /\ tx[h] \in TxRecord /\ Staged(tx[h]) /\ Shape(tx[h]) /\ tx[h].pc = "task"
      /\ Own(tx[h], h \in current) /\ TaskFree(h, t)
  BY DEF TypeInv, TypeOK, AllStaged, TaskInv, Shaped, UpdateTask, At
<1>2. /\ t \in Task /\ tx[h].to \in Done /\ tx[h].op # "pick"
      /\ Steady(tx[h]) /\ Ordered(tx[h]) /\ Outcomes(tx[h]) /\ Holds(tx[h]) /\ Unfinal(tx[h])
      /\ Versioned(tx[h], h \in current) /\ Based(tx[h], h \in current)
  BY <1>1 DEF Staged, TxRecord, Own, Steady
<1>3. next \in TxRecord BY <1>1 DEF TxRecord, PC
<1>4. Knows(task, t, tx[h].at) BY <1>1, <1>2, ConstantsAssumption DEF Holds
<1>5. /\ row \in TaskRow /\ row # None /\ row.status = tx[h].to /\ row.job = tx[h].at
      /\ tx[h].wtask[t] = None => row = [task[t] EXCEPT !.status = tx[h].to]
  <2>1. Over(task, tx[h].wtask)[t] \in TaskRow
    <3>1. task \in [Task -> TaskRow] /\ tx[h].wtask \in [Task -> TaskRow \cup {None}]
      BY <1>1 DEF TypeInv, TypeOK, TxRecord
    <3>2. Over(task, tx[h].wtask) \in [Task -> TaskRow] BY <3>1, OverTasks
    <3> QED BY <1>2, <3>2
  <2>2. Over(task, tx[h].wtask)[t] = IF tx[h].wtask[t] = None THEN task[t] ELSE tx[h].wtask[t]
    BY <1>2 DEF Over, TypeInv, TypeOK
  <2>3. Over(task, tx[h].wtask)[t].job = tx[h].at BY <1>2, <1>4, <2>2 DEF Holds, Knows
  <2>4. row \in TaskRow BY <1>2, <2>1 DEF TaskRow
  <2>5. row.status = tx[h].to /\ row.job = tx[h].at BY <2>1, <2>3 DEF TaskRow
  <2> QED BY <2>2, <2>4, <2>5, ConstantsAssumption
<1>6. /\ UNCHANGED << isolation, job, current >>
      /\ \/ InTx(h) /\ tx' = [tx EXCEPT ![h] = writes] /\ UNCHANGED << task, torn >>
         \/ ~InTx(h) /\ tx' = [tx EXCEPT ![h] = next] /\ task' = [task EXCEPT ![t] = row]
            /\ torn' = torn \cup {t}
  BY DEF UpdateTask
<1>7. /\ next.op = tx[h].op /\ next.at = tx[h].at /\ next.wjob = tx[h].wjob
      /\ next.wtask = tx[h].wtask /\ next.wrun = tx[h].wrun /\ next.snap = tx[h].snap
      /\ next.todo = tx[h].todo
      /\ \/ next.op = "report" /\ next.pc = "job" /\ next.t = t /\ next.to = tx[h].to
         \/ next.op # "report" /\ next.pc = "next" /\ next.t = None
  BY <1>1 DEF TxRecord
<1>8. t # None BY <1>1 DEF Staged
<1> HIDE DEF row, next
<1>9. CASE InTx(h) /\ tx' = [tx EXCEPT ![h] = writes] /\ UNCHANGED << task, torn >>
  <2>1. /\ writes \in TxRecord /\ writes.op = tx[h].op /\ writes.at = tx[h].at
        /\ writes.wjob = tx[h].wjob /\ writes.wrun = tx[h].wrun /\ writes.snap = tx[h].snap
        /\ writes.todo = tx[h].todo /\ writes.pc = next.pc /\ writes.t = next.t
        /\ writes.to = next.to
        /\ \A s \in Task : writes.wtask[s] = IF s = t THEN row ELSE tx[h].wtask[s]
    BY <1>2, <1>3, <1>5, <1>7 DEF TxRecord
  <2> HIDE DEF writes, t
  <2>2. Ordered(writes)
    <3>1. writes.pc = "next" => writes.wrun # None
      BY <1>1, <1>2, <1>7, <1>9, <2>1 DEF Ordered, InTx
    <3>2. writes.op # "supersede" /\ (writes.op = "approve" => writes.wrun # None)
      BY <1>1, <1>2, <1>9, <2>1 DEF Ordered, InTx
    <3>3. writes.op = "rerun" => \A j \in Job : writes.todo[j] # None => writes.todo[j].status \in Done
      BY <1>2, <2>1 DEF Ordered
    <3>4. Left(writes) <=> Left(tx[h]) BY <2>1 DEF Left
    <3>5. writes.op # "idle" BY <1>1, <1>2, <2>1 DEF Ordered
    <3> QED BY <1>2, <1>5, <1>7, <1>8, <2>1, <3>1, <3>2, <3>3, <3>4, <3>5 DEF Ordered
  <2>3. Outcomes(writes)
    <3>1. writes.pc = "job" => Outcome(writes, writes.at, writes.to)
      BY <1>2, <1>7, <2>1 DEF Outcome, Done, t
    <3> QED BY <1>2, <2>1, <3>1 DEF Outcomes, Outcome
  <2>4. Picked(writes) BY <1>2, <2>1 DEF Picked
  <2>5. Holds(writes)
    <3>1. Knows(task, t, row.job) BY <1>4, <1>5
    <3>2. writes.t # None => Knows(task, writes.t, writes.at) BY <1>4, <1>7, <2>1
    <3>3. \A s \in Task : writes.wtask[s] # None =>
            Knows(task, s, writes.wtask[s].job) /\ writes.wtask[s].status \in Done
      BY <1>2, <1>5, <2>1, <3>1 DEF Holds, t
    <3>4. ASSUME NEW j \in Job, writes.wjob[j] # None, writes.wjob[j].task # None
          PROVE  IF writes.wtask[writes.wjob[j].task] = None THEN Knows(task, writes.wjob[j].task, j)
                 ELSE writes.wtask[writes.wjob[j].task].job = j
      <4>1. writes.wjob[j].task \in Task BY <2>1, <3>4 DEF TxRecord, JobRow
      <4> QED BY <1>2, <1>5, <2>1, <3>1, <3>4, <4>1 DEF Holds, Knows
    <3> QED BY <1>2, <2>1, <3>2, <3>3, <3>4 DEF Holds
  <2>6. Based(writes, h \in current')
    <3>1. writes.wtask[t] # None /\ writes.wtask[t].job = writes.at /\ t \in Task
      BY <1>2, <1>5, <2>1 DEF t
    <3>2. ASSUME NEW j \in Job, writes.wjob[j] # None PROVE Found(writes, j)
      <4>1. Found(tx[h], j) BY <1>2, <2>1, <3>2 DEF Based
      <4>2. \A s \in Task : tx[h].wtask[s] # None =>
              writes.wtask[s] # None /\ writes.wtask[s].job = tx[h].wtask[s].job
        BY <1>2, <1>4, <1>5, <2>1 DEF Holds, Knows
      <4> QED BY <2>1, <3>1, <4>1, <4>2 DEF Found
    <3> QED BY <1>2, <1>6, <2>1, <3>2 DEF Based
  <2>7. Versioned(writes, h \in current') BY <1>2, <1>6, <2>1 DEF Versioned
  <2>8. Unfinal(writes) BY <1>2, <1>7, <2>1, ConstantsAssumption DEF Unfinal, t
  <2>9. Alone(h, writes) BY <1>1, <1>6, <1>9, <2>1 DEF Alone
  <2> QED BY <2>1, <2>2, <2>3, <2>4, <2>5, <2>6, <2>7, <2>8, <2>9, AloneKeeps DEF Own, Steady
<1>10. CASE ~InTx(h) /\ tx' = [tx EXCEPT ![h] = next] /\ task' = [task EXCEPT ![t] = row]
            /\ torn' = torn \cup {t}
  <2>1. /\ next.op = "supersede" /\ next.snap = None /\ next.wrun = None /\ next.t = None
        /\ next.pc = "next" /\ (\A j \in Job : next.wjob[j] = None)
        /\ (\A s \in Task : next.wtask[s] = None) /\ ~HasTask(next)
    BY <1>1, <1>2, <1>7, <1>10 DEF InTx, Shape, Writes, Ordered, HasTask
  <2>2. \A g \in Server : tx'[g] = IF g = h THEN next ELSE tx[g] BY <1>10 DEF TypeInv, TypeOK
  <2>3. \A s \in Task : task'[s] = IF s = t THEN row ELSE task[s] BY <1>10 DEF TypeInv, TypeOK
  <2>4. \A s \in Task : task[s].status # "unused" => Knows(task', s, task[s].job)
    BY <1>2, <1>4, <1>5, <2>3 DEF Knows, Done
  <2>5. Locks' BY <1>3, <1>7, <1>10, AloneLocks DEF TaskInv
  <2>6. Linked'
    <3>1. \A j \in Job : job[j].task # None => job[j].task \in Task BY DEF TypeInv, TypeOK, JobRow
    <3> QED BY <1>6, <2>4, <3>1 DEF TaskInv, Linked, Knows
  <2>7. ASSUME NEW g \in Server PROVE Own(tx[g], g \in current)'
    <3>1. CASE g = h
      <4>1. tx'[g] = next BY <2>2, <3>1
      <4>2. Ordered(next) BY <2>1 DEF Ordered
      <4>3. Outcomes(next) BY <2>1 DEF Outcomes
      <4>4. Steady(tx[g])'
        <5>1. Steady(tx'[g]) BY <2>1, <4>1, <4>2, <4>3 DEF Steady, Picked
        <5> QED BY <5>1 DEF Steady, Ordered, Picked, Outcomes, Outcome, HasTask, Left
      <4>5. Versioned(tx[g], g \in current)' BY <2>1, <4>1 DEF Versioned
      <4>6. Unfinal(tx[g])' BY <2>1, <4>1 DEF Unfinal
      <4>7. \A j \in Job : next.todo[j] # None /\ next.todo[j].task # None =>
              Knows(task', next.todo[j].task, j)
        <5>1. \A j \in Job : next.todo[j] # None /\ next.todo[j].task # None =>
                next.todo[j].task \in Task
          BY <1>3 DEF TxRecord, JobRow
        <5>2. \A j \in Job : next.todo[j] # None /\ next.todo[j].task # None =>
                Knows(task, next.todo[j].task, j)
          BY <1>2, <1>7, <2>1 DEF Holds
        <5> QED BY <2>4, <5>1, <5>2 DEF Knows
      <4>8. Holds(tx[g])' BY <2>1, <4>1, <4>7 DEF Holds, Knows
      <4>9. Based(tx[g], g \in current)' BY <2>1, <4>1 DEF Based
      <4> QED BY <4>4, <4>5, <4>6, <4>8, <4>9 DEF Own
    <3>2. CASE g # h
      <4>1. \A s \in Task : tx[g].wtask[s] # None => s # t BY <3>2, <1>1 DEF TaskFree
      <4>2. Own(tx[g], g \in current) BY DEF TaskInv
      <4>3. tx[g].wrun # None => g \in current BY <4>2 DEF Own, Versioned
      <4>4. tx'[g] = tx[g] BY <2>2, <3>2
      <4>5. \A s \in Task : tx[g].wtask[s] # None => task'[s] = task[s] BY <2>3, <4>1
      <4>6. \A s \in Task \ torn' : s \notin torn /\ task'[s] = task[s] BY <1>10, <2>3
      <4> HIDE DEF t
      <4> QED BY <1>6, <2>4, <4>2, <4>3, <4>4, <4>5, <4>6, OwnOther
    <3> QED BY <3>1, <3>2
  <2> QED BY <2>5, <2>6, <2>7 DEF TaskInv
<1> QED BY <1>6, <1>9, <1>10

(* What a commit leaves behind of a goroutine. *)
LEMMA OwnDone ==
  ASSUME TypeInv', NEW h \in Server, tx'[h].wjob = Rest.wjob, tx'[h].wtask = Rest.wtask,
         tx'[h].todo = Rest.todo, tx'[h].wrun = None, tx'[h].snap = None, tx'[h].t = None,
         tx'[h].op = "report" \/ tx'[h].op = tx'[h].pc, tx'[h].pc \in {"idle", "notify"}
  PROVE  Own(tx[h], h \in current)'
<1>1. /\ \A j \in Job : tx'[h].wjob[j] = None /\ tx'[h].todo[j] = None
      /\ \A t \in Task : tx'[h].wtask[t] = None /\ tx'[h].t # t
  BY ConstantsAssumption DEF Rest
<1>2. ~HasTask(tx'[h]) /\ ~Left(tx'[h]) BY <1>1 DEF HasTask, Left
<1>3. Steady(tx'[h]) BY <1>1, <1>2 DEF Steady, Ordered, Picked, Outcomes
<1>4. Steady(tx[h])' BY <1>3 DEF Steady, Ordered, Picked, Outcomes, Outcome, HasTask, Left
<1>5. Versioned(tx[h], h \in current)' BY DEF Versioned
<1>6. Unfinal(tx[h])' BY <1>1 DEF Unfinal
<1>7. Holds(tx[h])' BY <1>1 DEF Holds
<1>8. Based(tx[h], h \in current)' BY <1>1 DEF Based
<1> QED BY <1>4, <1>5, <1>6, <1>7, <1>8 DEF Own

(* The rows after a commit. *)
LEMMA CommitRows ==
  ASSUME TypeInv, TaskInv, IInv, NEW h \in Server, Commit(h)
  PROVE  /\ \A t \in Task : task'[t] = IF tx[h].wtask[t] = None THEN task[t] ELSE tx[h].wtask[t]
         /\ \A j \in Job : job'[j] = IF tx[h].wjob[j] = None THEN job[j] ELSE tx[h].wjob[j]
         /\ \A t \in Task : task[t].status # "unused" => Knows(task', t, task[t].job)
         /\ tx[h].wrun = None => (\A j \in Job : tx[h].wjob[j] = None) /\ ~HasTask(tx[h])
         /\ tx'[h] # tx[h]
<1>1. /\ tx[h] \in TxRecord /\ tx[h].pc = "next" /\ Right(h)
      /\ Holds(tx[h]) /\ Ordered(tx[h])
  BY DEF TypeInv, TypeOK, Commit, At, IInv, TaskInv, Own, Steady
<1>2. \A t \in Task : task'[t] = IF tx[h].wtask[t] = None THEN task[t] ELSE tx[h].wtask[t]
  BY DEF Commit, Over, TypeInv, TypeOK
<1>3. \A j \in Job : job'[j] = IF tx[h].wjob[j] = None THEN job[j] ELSE tx[h].wjob[j]
  BY DEF Commit, Over, TypeInv, TypeOK
<1>4. \A t \in Task : task[t].status # "unused" => Knows(task', t, task[t].job)
  BY <1>1, <1>2 DEF Holds, Knows, Done
<1>5. tx[h].wrun = None => (\A j \in Job : tx[h].wjob[j] = None) /\ ~HasTask(tx[h])
  BY <1>1 DEF Right, WroteRight, Writes, Ordered
<1>6. tx'[h] # tx[h]
  <2> DEFINE told == [Rest EXCEPT !.op = "report", !.pc = "notify", !.at = tx[h].at]
  <2>1. told.pc = "notify" /\ Rest.pc = "idle" BY DEF Rest
  <2>2. tx'[h] = told \/ tx'[h] = Rest BY DEF Commit, TypeInv, TypeOK
  <2> HIDE DEF told
  <2> QED BY <1>1, <2>1, <2>2
<1> QED BY <1>2, <1>3, <1>4, <1>5, <1>6

LEMMA OwnCommit ==
  ASSUME TypeInv, TypeInv', Shaped, IInv, TaskInv, NEW h \in Server, Commit(h)
  PROVE  TaskInv'
<1>1. tx[h] \in TxRecord /\ Own(tx[h], h \in current) /\ Holds(tx[h]) /\ Picked(tx[h])
  BY DEF TypeInv, TypeOK, TaskInv, Own, Steady
<1>2. /\ \A t \in Task : task'[t] = IF tx[h].wtask[t] = None THEN task[t] ELSE tx[h].wtask[t]
      /\ \A j \in Job : job'[j] = IF tx[h].wjob[j] = None THEN job[j] ELSE tx[h].wjob[j]
      /\ \A t \in Task : task[t].status # "unused" => Knows(task', t, task[t].job)
      /\ tx[h].wrun = None => (\A j \in Job : tx[h].wjob[j] = None) /\ ~HasTask(tx[h])
  BY CommitRows
<1> DEFINE told == [Rest EXCEPT !.op = "report", !.pc = "notify", !.at = tx[h].at]
<1>3. PICK r \in TxRecord :
        /\ tx' = [tx EXCEPT ![h] = r] /\ (r.op = "report" \/ r.op = r.pc) /\ r.pc \in {"idle", "notify"}
        /\ r.wjob = Rest.wjob /\ r.wtask = Rest.wtask /\ r.todo = Rest.todo /\ r.t = None
        /\ r.wrun = None /\ r.snap = None
  <2>1. told \in TxRecord BY <1>1, RestType DEF TxRecord, Op, PC
  <2>2. /\ told.op = "report" /\ told.pc = "notify" /\ told.wjob = Rest.wjob
        /\ told.wtask = Rest.wtask /\ told.todo = Rest.todo /\ told.t = None
        /\ told.wrun = None /\ told.snap = None
    BY DEF Rest
  <2>3. /\ Rest.op = "idle" /\ Rest.pc = "idle" /\ Rest.t = None /\ Rest.wrun = None
        /\ Rest.snap = None
    BY DEF Rest
  <2>4. tx' = [tx EXCEPT ![h] = told] \/ tx' = [tx EXCEPT ![h] = Rest] BY DEF Commit
  <2> HIDE DEF told
  <2> QED BY <2>1, <2>2, <2>3, <2>4, RestType
<1>4. \A g \in Server : tx'[g] = IF g = h THEN r ELSE tx[g] BY <1>3 DEF TypeInv, TypeOK
<1>5. Locks'
  <2>1. (\A j \in Job : r.wjob[j] = None) /\ (\A t \in Task : r.wtask[t] = None)
    BY <1>3 DEF Rest
  <2> QED BY <1>3, <2>1, AloneLocks DEF TaskInv
<1>6. Linked'
  <2>1. ASSUME NEW j \in Job, job'[j].task # None PROVE Knows(task', job'[j].task, j)
    <3>1. job'[j].task \in Task BY <2>1 DEF TypeInv, TypeOK, JobRow
    <3>2. CASE tx[h].wjob[j] = None BY <1>2, <2>1, <3>1, <3>2 DEF TaskInv, Linked, Knows
    <3>3. CASE tx[h].wjob[j] # None
      <4> DEFINE t == tx[h].wjob[j].task
      <4>1. job'[j].task = t /\ t # None /\ t \in Task BY <1>2, <2>1, <3>1, <3>3
      <4>2. IF tx[h].wtask[t] = None THEN Knows(task, t, j) ELSE tx[h].wtask[t].job = j
        BY <1>1, <3>3, <4>1 DEF Holds
      <4>3. ASSUME NEW x \in Task, tx[h].wtask[x] # None PROVE tx[h].wtask[x].status # "unused"
        <5>1. CASE tx[h].op = "pick"
          <6>1. tx[h].wtask[x] = [status |-> "running", job |-> tx[h].at]
            BY <1>1, <4>3, <5>1 DEF Picked
          <6> QED BY <6>1
        <5>2. CASE tx[h].op # "pick"
          <6>1. tx[h].wtask[x].status \in Done BY <1>1, <4>3, <5>2 DEF Holds
          <6> QED BY <6>1 DEF Done
        <5> QED BY <5>1, <5>2
      <4> QED BY <1>2, <4>1, <4>2, <4>3 DEF Knows
    <3> QED BY <3>2, <3>3
  <2> QED BY <2>1 DEF Linked, Knows
<1>7. ASSUME NEW g \in Server PROVE Own(tx[g], g \in current)'
  <2>1. CASE g = h BY <1>3, <1>4, <2>1, OwnDone
  <2>2. CASE g # h
    <3>1. tx'[g] = tx[g] /\ Own(tx[g], g \in current) BY <1>4, <2>2 DEF TaskInv
    <3>2. /\ \A t \in Task : tx[g].wtask[t] # None => task'[t] = task[t]
          /\ \A j \in Job : tx[g].wjob[j] # None => job'[j] = job[j]
      BY <1>2, <2>2 DEF TaskInv, Locks
    <3>3. UNCHANGED isolation /\ torn' = torn BY DEF Commit
    <3>4. CASE tx[h].wrun = None
      <4>1. /\ current' = current \ {h} /\ \A t \in Task : task'[t] = task[t]
            /\ \A j \in Job : job'[j] = job[j]
        BY <1>2, <3>4 DEF Commit, HasTask
      <4>2. tx[g].wrun # None => g \in current BY <3>1 DEF Own, Versioned
      <4> QED BY <1>2, <2>2, <3>1, <3>2, <3>3, <4>1, <4>2, OwnOther
    <3>5. CASE tx[h].wrun # None
      <4>1. current' = {} BY <3>5 DEF Commit
      <4>2. tx[g].wrun = None BY <2>2, <3>5 DEF IInv, RunLocked
      <4> QED BY <1>2, <3>1, <3>2, <3>3, <4>1, <4>2, OwnOther
    <3> QED BY <3>4, <3>5
  <2> QED BY <2>1, <2>2
<1> QED BY <1>5, <1>6, <1>7 DEF TaskInv

LEMMA OwnNext == ASSUME TypeInv, Shaped, IInv, TaskInv, Next PROVE TaskInv'
<1>1. PICK h \in Server : Intervene(h) \/ Request(h) \/ Handle(h) \/ Step(h) BY DEF Next
<1>2. TypeInv' BY NextType
<1>3. CASE Intervene(h) BY <1>3, OwnStop, OwnIntervene, OwnApprove DEF Intervene
<1>4. CASE Request(h) BY <1>4, OwnPick, OwnReport DEF Request
<1>5. CASE Handle(h) BY <1>5, OwnQueue DEF Handle
<1>6. CASE Step(h)
  BY <1>2, <1>6, OwnApproveRun, OwnNextJob, OwnUpdateJob, OwnLoad, OwnUpdateRun, OwnUpdateTask,
     OwnCommit, OwnQueue DEF Step
<1> QED BY <1>1, <1>3, <1>4, <1>5, <1>6

AllInv == TypeInv /\ Shaped /\ IInv /\ TaskInv

LEMMA AllSafe == Spec => []AllInv
<1>1. Init => AllInv BY InitType, ShapeInit, InitKeeps, OwnInit DEF AllInv
<1>2. AllInv /\ [Next]_vars => AllInv'
  <2>1. AllInv /\ Next => AllInv' BY NextType, ShapeNext, NextKeeps, OwnNext DEF AllInv
  <2>2. AllInv /\ UNCHANGED vars => AllInv'
    <3> SUFFICES ASSUME AllInv, UNCHANGED vars PROVE AllInv' OBVIOUS
    <3> USE DEF vars, AllInv
    <3>1. TypeInv' BY DEF TypeInv, TypeOK, AllStaged
    <3>2. Shaped' BY DEF Shaped, Placed, Shape, SnapTaken, Writes, Left
    <3>3. IInv' BY StillKeeps
    <3>4. Locks' /\ Linked' BY DEF TaskInv, Locks, Linked, Knows
    <3>5. ASSUME NEW g \in Server PROVE Own(tx[g], g \in current)' BY OwnSame DEF TaskInv
    <3> QED BY <3>1, <3>2, <3>3, <3>4, <3>5 DEF TaskInv
  <2> QED BY <2>1, <2>2
<1> QED BY <1>1, <1>2, PTL DEF Spec

(* A task that is written back although it has been finished: the snapshot *)
(* would have shown it finished, and the version would be another.         *)
LEMMA RewritesOverwrite ==
  ASSUME AllInv, NEW h \in Server, Commit(h), NEW t \in Task,
         tx[h].wtask[t] # None, task[t].status \in Done
  PROVE  Overwrites(h)
<1>1. Own(tx[h], h \in current) /\ tx[h].pc = "next" BY DEF AllInv, TaskInv, Commit, At
<1>2. tx'[h] # tx[h] BY CommitRows DEF AllInv
<1>3. h \in current /\ tx[h].op # "supersede"
  BY <1>1 DEF Own, Steady, Ordered, HasTask, Versioned
<1>4. CASE isolation = "committed" \/ t \in torn BY <1>2, <1>4 DEF Overwrites
<1>5. CASE isolation = "snapshot" /\ t \notin torn
  <2>1. tx[h].snap # None /\ tx[h].snap.task[t].status \notin Done
    BY <1>1, <1>3, <1>5 DEF Own, Unfinal
  <2>2. tx[h].snap.task[t] = task[t] BY <1>1, <1>3, <1>5, <2>1 DEF Own, Versioned
  <2> QED BY <2>1, <2>2
<1> QED BY <1>4, <1>5 DEF AllInv, TypeInv, TypeOK

(* Steps that leave the rows as they are. *)
LEMMA RowsChange ==
  ASSUME AllInv, Next, job' # job \/ task' # task
  PROVE  \E h \in Server : Commit(h) \/ (tx'[h] # tx[h] /\ tx[h].op = "supersede")
<1>1. PICK h \in Server : Intervene(h) \/ Request(h) \/ Handle(h) \/ Step(h) BY DEF Next
<1>2. ~Intervene(h)
  BY DEF Intervene, Stop, Cancel, Supersede, Abandon, Rerun, Approve, rows
<1>3. ~Request(h) /\ ~Handle(h) BY DEF Request, Handle, Pick, Report, Emit, rows
<1>4. \/ Commit(h)
      \/ UpdateJob(h) /\ ~GiveUp(h) /\ ~InTx(h)
      \/ UpdateTask(h) /\ ~InTx(h)
  <2>1. ~GiveUp(h) BY DEF GiveUp, rows
  <2>2. ~ApproveRun(h) /\ ~NextJob(h) /\ ~LoadRun(h) /\ ~LoadJobs(h) /\ ~Notify(h) /\ ~Victim(h)
    BY <2>1 DEF ApproveRun, NextJob, LoadRun, LoadJobs, Notify, Victim, rows
  <2>3. ~UpdateRun(h) BY <2>1 DEF UpdateRun
  <2>4. UpdateJob(h) => ~InTx(h) BY <2>1 DEF UpdateJob
  <2>5. UpdateTask(h) => ~InTx(h) BY DEF UpdateTask
  <2> QED BY <1>1, <1>2, <1>3, <2>1, <2>2, <2>3, <2>4, <2>5 DEF Step
<1>5. tx[h] \in TxRecord BY DEF AllInv, TypeInv, TypeOK
<1>6. CASE UpdateJob(h) /\ ~GiveUp(h) /\ ~InTx(h)
  <2> DEFINE next == [tx[h] EXCEPT !.todo[tx[h].at] = None,
                                   !.pc = IF tx[h].snap = None THEN "loadRun" ELSE "loadJobs"]
  <2>1. next.pc # "job" BY <1>5 DEF TxRecord
  <2>2. tx' = [tx EXCEPT ![h] = next] /\ tx[h].pc = "job" BY <1>6 DEF UpdateJob, At
  <2> HIDE DEF next
  <2>3. tx'[h] = next BY <2>2 DEF AllInv, TypeInv, TypeOK
  <2> QED BY <1>6, <2>1, <2>2, <2>3 DEF InTx
<1>7. CASE UpdateTask(h) /\ ~InTx(h)
  <2> DEFINE next == [tx[h] EXCEPT !.pc = "next", !.t = None, !.to = None]
  <2>1. next.pc = "next" BY <1>5 DEF TxRecord
  <2>2. tx' = [tx EXCEPT ![h] = next] /\ tx[h].pc = "task" BY <1>7 DEF UpdateTask, At, InTx
  <2> HIDE DEF next
  <2>3. tx'[h] = next BY <2>2 DEF AllInv, TypeInv, TypeOK
  <2> QED BY <1>7, <2>1, <2>2, <2>3 DEF InTx
<1> QED BY <1>4, <1>6, <1>7

(* However reports, cancellations and reruns overlap, a finished task      *)
(* keeps its result, but for the overwriting that reads of committed rows, *)
(* or CancelRunningJobs outside a transaction, allow.                      *)
THEOREM FinishedStays == Spec => FinalIsFinal
<1> DEFINE A == \A t \in Task : task[t].status \in Done /\ task'[t] # task[t] =>
                  \E h \in Server : Overwrites(h)
<1>1. AllInv /\ [Next]_vars => [A]_vars
  <2> SUFFICES ASSUME AllInv, Next, NEW t \in Task, task[t].status \in Done, task'[t] # task[t]
               PROVE  \E h \in Server : Overwrites(h)
    OBVIOUS
  <2>1. PICK h \in Server : Commit(h) \/ (tx'[h] # tx[h] /\ tx[h].op = "supersede")
    BY RowsChange
  <2>2. CASE tx'[h] # tx[h] /\ tx[h].op = "supersede" BY <2>2 DEF Overwrites
  <2>3. CASE Commit(h)
    <3>1. tx[h].wtask[t] # None BY <2>3, CommitRows DEF AllInv
    <3> QED BY <2>3, <3>1, RewritesOverwrite
  <2> QED BY <2>1, <2>2, <2>3
<1> HIDE DEF A
<1>2. Spec => [][A]_vars BY <1>1, AllSafe, PTL DEF Spec
<1> QED BY <1>2 DEF A, FinalIsFinal

(* Of two runners that pick a job one wins and the other leaves no task    *)
(* behind; a rerun, a release or an approval starts no second task beside  *)
(* a first one: only an overwriting, a cancellation of abandoned jobs and  *)
(* the end of a task that was a stray already leave a running task whose   *)
(* job has ended or runs another one.                                      *)
THEOREM TasksKeptByJobs == Spec => TasksBelong
<1> DEFINE A == \A t \in Task : Stray(t)' =>
                  \/ Stray(t)
                  \/ \E h \in Server :
                       \/ Overwrites(h)
                       \/ tx'[h] # tx[h] /\ tx[h].op = "abandon"
                       \/ tx'[h] # tx[h] /\ \E s \in Task : tx[h].wtask[s] # None /\ Stray(s)
<1>1. AllInv /\ [Next]_vars => [A]_vars
  <2> SUFFICES ASSUME AllInv, Next, NEW t \in Task, Stray(t)', ~Stray(t)
               PROVE  \E h \in Server :
                        \/ Overwrites(h)
                        \/ tx'[h] # tx[h] /\ tx[h].op = "abandon"
                        \/ tx'[h] # tx[h] /\ \E s \in Task : tx[h].wtask[s] # None /\ Stray(s)
    OBVIOUS
  <2>1. job' # job \/ task' # task BY DEF Stray
  <2>2. PICK h \in Server : Commit(h) \/ (tx'[h] # tx[h] /\ tx[h].op = "supersede")
    BY <2>1, RowsChange
  <2>3. CASE tx'[h] # tx[h] /\ tx[h].op = "supersede" BY <2>3 DEF Overwrites
  <2>4. CASE Commit(h)
    <3>1. /\ \A s \in Task : task'[s] = IF tx[h].wtask[s] = None THEN task[s] ELSE tx[h].wtask[s]
          /\ \A j \in Job : job'[j] = IF tx[h].wjob[j] = None THEN job[j] ELSE tx[h].wjob[j]
          /\ tx'[h] # tx[h]
      BY <2>4, CommitRows DEF AllInv
    <3>2. /\ Own(tx[h], h \in current) /\ tx[h].pc = "next" /\ tx[h] \in TxRecord
          /\ Shape(tx[h])
      BY <2>4 DEF AllInv, TaskInv, Commit, At, TypeInv, TypeOK, Shaped
    <3>3. /\ Ordered(tx[h]) /\ Picked(tx[h]) /\ Holds(tx[h]) /\ Based(tx[h], h \in current)
          /\ Versioned(tx[h], h \in current)
      BY <3>2 DEF Own, Steady
    <3>4. task'[t].status = "running" /\ job'[task'[t].job] # [status |-> "running", task |-> t]
      BY DEF Stray
    <3>5. tx[h].wtask[t] = None
      <4> SUFFICES ASSUME tx[h].wtask[t] # None PROVE FALSE OBVIOUS
      <4>1. task'[t] = tx[h].wtask[t] BY <3>1
      <4>2. tx[h].op = "pick" BY <3>3, <3>4, <4>1 DEF Holds, Done
      <4>3. /\ tx[h].wtask[t] = [status |-> "running", job |-> tx[h].at]
            /\ tx[h].wjob[tx[h].at] = [status |-> "running", task |-> t]
        BY <3>2, <3>3, <4>2 DEF Picked
      <4>4. tx[h].at \in Job /\ task'[t].job = tx[h].at
        BY <3>2, <3>4, <4>1, <4>3 DEF Shape
      <4>5. [status |-> "running", task |-> t] # None
        <5>1. [status |-> "running", task |-> t] \in JobRow BY StatusType DEF JobRow
        <5> QED BY <5>1, ConstantsAssumption
      <4> QED BY <3>1, <3>4, <4>3, <4>4, <4>5
    <3> DEFINE j == task[t].job
    <3>6. /\ task[t].status = "running" /\ j \in Job
          /\ job[j] = [status |-> "running", task |-> t] /\ tx[h].wjob[j] # None
      <4>1. task'[t] = task[t] BY <3>1, <3>5
      <4>2. j \in Job BY <3>4, <4>1 DEF AllInv, Shaped, Placed
      <4> QED BY <3>1, <3>4, <4>1, <4>2 DEF Stray
    <3>7. job[j].status = "running" /\ job[j].task = t /\ t # None
      BY <3>6, ConstantsAssumption
    <3>8. Found(tx[h], j) /\ tx[h].t = None BY <3>2, <3>3, <3>6 DEF Based, Ordered
    <3>9. tx[h].op \in {"report", "stop", "cancel", "abandon", "supersede"}
      BY <3>2, <3>3, <3>7, <3>8 DEF Ordered, Found, Done, TxRecord, Op
    <3>10. CASE tx[h].op = "abandon" BY <3>1, <3>10
    <3>11. CASE tx[h].op = "supersede" BY <3>1, <3>11 DEF Overwrites
    <3>12. CASE tx[h].op \in {"report", "stop", "cancel"}
      <4>1. PICK s \in Task : tx[h].wtask[s] # None /\ tx[h].wtask[s].job = j
        BY <3>7, <3>8, <3>12 DEF Found
      <4>2. Knows(task, s, j) BY <3>3, <3>12, <4>1 DEF Holds
      <4>3. s # t BY <3>5, <4>1
      <4>4. task[s].status \in Done \/ task[s].status = "running"
        BY <4>2 DEF Knows, AllInv, TypeInv, TypeOK, TaskRow
      <4>5. CASE task[s].status \in Done BY <2>4, <4>1, <4>5, RewritesOverwrite
      <4>6. CASE task[s].status = "running"
        <5>1. Stray(s) BY <3>7, <4>2, <4>3, <4>6 DEF Stray, Knows
        <5> QED BY <3>1, <4>1, <5>1
      <4> QED BY <4>4, <4>5, <4>6
    <3> QED BY <3>9, <3>10, <3>11, <3>12
  <2> QED BY <2>2, <2>3, <2>4
<1> HIDE DEF A
<1>2. Spec => [][A]_vars BY <1>1, AllSafe, PTL DEF Spec
<1> QED BY <1>2 DEF A, TasksBelong

-----------------------------------------------------------------------------
(* The emitter: what it is about to release, and who may end a job.        *)

Emits(h, r) ==
  r.op = "emit" => h \in Worker /\ r.pc \in {"next", "job", "loadRun", "loadJobs", "run"}

Carries(r, j) == r.op = "emit" /\ (r.todo[j] # None \/ r.wjob[j] # None)

OwedInv == (\A h \in Server : Emits(h, tx[h])) /\ BlockedIsOwed

(* A step that changes no job, and after which the emitter is as far, or   *)
(* has the run in its queue again.                                         *)
LEMMA OwedMoves ==
  ASSUME TypeInv, OwedInv, NEW h \in Server, NEW r, tx' = [tx EXCEPT ![h] = r],
         job' = job, unheard' = unheard, queued => queued', tx[h].pc # "notify", Emits(h, r),
         \A j \in Job : Carries(tx[h], j) => queued' \/ Carries(r, j)
  PROVE  OwedInv'
<1>1. \A g \in Server : tx'[g] = IF g = h THEN r ELSE tx[g] BY DEF TypeInv, TypeOK
<1>2. \A g \in Server : Emits(g, tx'[g]) BY <1>1 DEF OwedInv
<1>3. ASSUME NEW j \in Direct, Ready(j)' PROVE Owed(j)'
  <2>1. j \in Job /\ Ready(j) BY <1>3 DEF Direct, Ready
  <2>2. Owed(j) BY <1>3, <2>1 DEF OwedInv, BlockedIsOwed
  <2>3. ASSUME NEW g \in Server, At(g, "notify"), tx[g].at \in Needs[j] PROVE Owed(j)'
    <3>1. g # h BY <2>3 DEF At
    <3>2. tx'[g] = tx[g] BY <1>1, <3>1
    <3> QED BY <2>3, <3>2 DEF Owed, At
  <2>4. ASSUME NEW w \in Worker, Carries(tx[w], j) PROVE Owed(j)'
    <3>1. w \in Server BY ConstantsAssumption
    <3>2. queued' \/ Carries(tx'[w], j) BY <1>1, <2>1, <2>4, <3>1
    <3> QED BY <2>4, <3>2 DEF Owed, Carries
  <2> QED BY <2>2, <2>3, <2>4 DEF Owed, Carries
<1> QED BY <1>2, <1>3 DEF OwedInv, BlockedIsOwed, Emits, Direct

LEMMA OwedReads ==
  ASSUME TypeInv, OwedInv, NEW h \in Server, NEW r \in TxRecord, Reads(h, r),
         job' = job, unheard' = unheard, queued' = queued, tx[h].pc # "notify", Emits(h, r),
         \A j \in Job : Carries(tx[h], j) => Carries(r, j)
  PROVE  OwedInv'
<1> DEFINE q == [r EXCEPT !.snap = [job |-> job, task |-> task]]
<1>1. q.op = r.op /\ q.pc = r.pc /\ q.todo = r.todo /\ q.wjob = r.wjob BY DEF TxRecord
<1>2. tx' = [tx EXCEPT ![h] = q] \/ tx' = [tx EXCEPT ![h] = r] BY DEF Reads
<1> HIDE DEF q
<1>3. Emits(h, q) /\ \A j \in Job : Carries(r, j) => Carries(q, j) BY <1>1 DEF Emits, Carries
<1>4. CASE tx' = [tx EXCEPT ![h] = q] BY <1>3, <1>4, OwedMoves
<1>5. CASE tx' = [tx EXCEPT ![h] = r] BY <1>5, OwedMoves
<1> QED BY <1>2, <1>4, <1>5

LEMMA OwedGiveUp ==
  ASSUME TypeInv, OwedInv, NEW h \in Server, GiveUp(h), tx[h].pc # "notify"
  PROVE  OwedInv'
<1>1. Emits(h, Rest) BY DEF Emits, Rest
<1>2. /\ tx' = [tx EXCEPT ![h] = Rest] /\ queued' = (queued \/ tx[h].op = "emit")
      /\ job' = job /\ unheard' = unheard
  BY DEF GiveUp, rows, history
<1> QED BY <1>1, <1>2, OwedMoves DEF Carries

(* A goroutine that is at rest begins. *)
LEMMA OwedBegins ==
  ASSUME TypeInv, OwedInv, NEW h \in Server, Idle(h)
  PROVE  tx[h].pc # "notify" /\ \A j \in Job : ~Carries(tx[h], j)
BY DEF Idle, At, OwedInv, Emits, Carries

LEMMA OwedStarts ==
  ASSUME TypeInv, OwedInv, NEW h \in Server,
         \/ Pick(h) \/ Report(h) \/ Stop(h) \/ Cancel(h) \/ Supersede(h) \/ Abandon(h)
         \/ Rerun(h) \/ Approve(h)
  PROVE  OwedInv'
<1>1. tx[h].pc # "notify" /\ \A j \in Job : ~Carries(tx[h], j)
  BY OwedBegins DEF Pick, Report, Stop, Cancel, Supersede, Abandon, Rerun, Approve
<1>2. job' = job /\ unheard' = unheard /\ queued' = queued
  BY DEF Pick, Report, Stop, Cancel, Supersede, Abandon, Rerun, Approve, rows, history
<1>3. ASSUME NEW r \in TxRecord, r.op # "emit", Reads(h, r) PROVE OwedInv'
  BY <1>1, <1>2, <1>3, OwedReads DEF Emits
<1>4. ASSUME NEW r, r.op # "emit", tx' = [tx EXCEPT ![h] = r] PROVE OwedInv'
  BY <1>1, <1>2, <1>4, OwedMoves DEF Emits
<1>5. CASE Pick(h)
  <2>1. PICK j \in Job, t \in Task :
          Reads(h, [Rest EXCEPT !.op = "pick", !.pc = "job", !.at = j, !.t = t, !.to = "running",
                                !.wtask[t] = [status |-> "running", job |-> j]])
    BY <1>5 DEF Pick
  <2> DEFINE r == [Rest EXCEPT !.op = "pick", !.pc = "job", !.at = j, !.t = t, !.to = "running",
                               !.wtask[t] = [status |-> "running", job |-> j]]
  <2>2. r \in TxRecord BY RestType, StatusType DEF TxRecord, Op, PC, TaskRow
  <2>3. r.op # "emit" BY DEF Rest
  <2>4. Reads(h, r) BY <2>1
  <2> HIDE DEF r
  <2> QED BY <1>3, <2>2, <2>3, <2>4
<1>6. CASE Report(h)
  <2>1. ASSUME NEW t \in Task, NEW result \in Result,
               Reads(h, [Rest EXCEPT !.op = "report", !.pc = "task",
                                    !.at = task[t].job, !.t = t, !.to = result])
        PROVE  OwedInv'
    <3> DEFINE r == [Rest EXCEPT !.op = "report", !.pc = "task",
                                 !.at = task[t].job, !.t = t, !.to = result]
    <3>1. r \in TxRecord
      BY RestType, StatusType, ConstantsAssumption DEF TxRecord, Op, PC, TypeInv, TypeOK, TaskRow
    <3>2. r.op # "emit" BY DEF Rest
    <3>3. Reads(h, r) BY <2>1
    <3> HIDE DEF r
    <3> QED BY <1>3, <3>1, <3>2, <3>3
  <2>2. ASSUME NEW t \in Task,
               tx' = [tx EXCEPT ![h] = [Rest EXCEPT !.op = "report", !.pc = "notify",
                                                   !.at = task[t].job]]
        PROVE  OwedInv'
    <3>1. [Rest EXCEPT !.op = "report", !.pc = "notify", !.at = task[t].job].op # "emit"
      BY DEF Rest
    <3> QED BY <1>4, <2>2, <3>1
  <2> QED BY <1>6, <2>1, <2>2 DEF Report
<1>7. CASE Stop(h)
  <2>1. PICK t \in Task :
          Reads(h, [Rest EXCEPT !.op = "stop", !.pc = "job",
                                !.at = task[t].job, !.t = t, !.to = "failure"])
    BY <1>7 DEF Stop
  <2> DEFINE r == [Rest EXCEPT !.op = "stop", !.pc = "job",
                               !.at = task[t].job, !.t = t, !.to = "failure"]
  <2>2. r \in TxRecord BY RestType, StatusType DEF TxRecord, Op, PC, TypeInv, TypeOK, TaskRow, Done
  <2>3. r.op # "emit" BY DEF Rest
  <2>4. Reads(h, r) BY <2>1
  <2> HIDE DEF r
  <2> QED BY <1>3, <2>2, <2>3, <2>4
<1>8. ASSUME NEW op, op # "emit", NEW S, NEW read, Keeps(h, op, S, read) PROVE OwedInv'
  <2> DEFINE r == [Rest EXCEPT !.op = op, !.pc = "next",
                               !.todo = [j \in Job |-> IF j \in S THEN read[j] ELSE None]]
  <2>1. r.op = op BY DEF Rest
  <2>2. tx' = [tx EXCEPT ![h] = r] BY <1>8 DEF Keeps
  <2> HIDE DEF r
  <2> QED BY <1>4, <1>8, <2>1, <2>2
<1>9. CASE Cancel(h) \/ Supersede(h) \/ Abandon(h) \/ Rerun(h)
  <2>1. CASE Cancel(h) BY <1>8, <2>1 DEF Cancel
  <2>2. CASE Supersede(h) BY <1>8, <2>2 DEF Supersede
  <2>3. CASE Abandon(h) BY <1>8, <2>3 DEF Abandon
  <2>4. CASE Rerun(h) BY <1>8, <2>4 DEF Rerun
  <2> QED BY <1>9, <2>1, <2>2, <2>3, <2>4
<1>10. CASE Approve(h)
  <2> DEFINE S == {j \in Job : Needs[j] = {} /\ job[j].status = "blocked"}
             r == [Rest EXCEPT !.op = "approve", !.pc = "approve",
                               !.todo = [j \in Job |-> IF j \in S THEN job[j] ELSE None]]
  <2>1. r.op # "emit" BY DEF Rest
  <2>2. tx' = [tx EXCEPT ![h] = r] BY <1>10 DEF Approve
  <2> HIDE DEF r
  <2> QED BY <1>4, <2>1, <2>2
<1> QED BY <1>5, <1>6, <1>7, <1>9, <1>10

(* A goroutine that goes on without writing jobs keeps what it carries. *)
LEMMA OwedGoes ==
  ASSUME TypeInv, OwedInv, NEW h \in Server,
         \/ ApproveRun(h) \/ NextJob(h) \/ LoadRun(h) \/ LoadJobs(h) \/ UpdateRun(h)
         \/ UpdateTask(h)
  PROVE  OwedInv'
<1>1. /\ tx[h] \in TxRecord /\ Emits(h, tx[h])
      /\ tx[h].pc \in {"approve", "next", "loadRun", "loadJobs", "run", "task"}
  BY DEF TypeInv, TypeOK, OwedInv, ApproveRun, NextJob, LoadRun, LoadJobs, UpdateRun, UpdateTask, At
<1>2. CASE GiveUp(h) BY <1>1, <1>2, OwedGiveUp
<1>3. CASE ~GiveUp(h)
  <2>1. job' = job /\ unheard' = unheard /\ queued' = queued
    BY <1>3 DEF ApproveRun, NextJob, LoadRun, LoadJobs, UpdateRun, UpdateTask, rows, history
  <2>2. ASSUME NEW r \in TxRecord, r.op = tx[h].op, r.wjob = tx[h].wjob,
               r.todo = tx[h].todo \/ tx[h].op # "emit",
               tx[h].op = "emit" => r.pc \in {"next", "job", "loadJobs", "run"},
               Reads(h, r) \/ tx' = [tx EXCEPT ![h] = r]
        PROVE  OwedInv'
    <3>1. Emits(h, r) /\ \A j \in Job : Carries(tx[h], j) => Carries(r, j)
      BY <1>1, <2>2 DEF Emits, Carries
    <3> QED BY <1>1, <2>1, <2>2, <3>1, OwedReads, OwedMoves
  <2>3. CASE ApproveRun(h)
    <3> DEFINE r == [tx[h] EXCEPT !.wrun = run.status, !.pc = "next"]
    <3>1. tx' = [tx EXCEPT ![h] = r] BY <1>3, <2>3 DEF ApproveRun
    <3>2. r \in TxRecord BY <1>1 DEF TxRecord, PC, TypeInv, TypeOK
    <3>3. r.op = tx[h].op /\ r.wjob = tx[h].wjob /\ r.todo = tx[h].todo /\ r.pc = "next"
      BY <1>1 DEF TxRecord
    <3> HIDE DEF r
    <3> QED BY <2>2, <3>1, <3>2, <3>3
  <2>4. CASE NextJob(h)
    <3>1. PICK r \in TxRecord : Staged(r) /\ Continues(h, r) BY <2>4, NextJobForms
    <3> QED BY <2>2, <3>1 DEF Continues
  <2>5. CASE LoadRun(h)
    <3> DEFINE r == [tx[h] EXCEPT !.pc = "loadJobs"]
    <3>1. Reads(h, r) \/ tx' = [tx EXCEPT ![h] = r] BY <2>5 DEF LoadRun
    <3>2. r \in TxRecord BY <1>1 DEF TxRecord, PC
    <3>3. r.op = tx[h].op /\ r.wjob = tx[h].wjob /\ r.todo = tx[h].todo /\ r.pc = "loadJobs"
      BY <1>1 DEF TxRecord
    <3> HIDE DEF r
    <3> QED BY <2>2, <3>1, <3>2, <3>3
  <2>6. CASE LoadJobs(h)
    <3> DEFINE r == [tx[h] EXCEPT !.pc = "run", !.sum = Aggregate(JobsSeen(h))]
    <3>1. tx' = [tx EXCEPT ![h] = r] BY <2>6 DEF LoadJobs
    <3>2. r \in TxRecord BY <1>1, AggregateType DEF TxRecord, PC
    <3>3. r.op = tx[h].op /\ r.wjob = tx[h].wjob /\ r.todo = tx[h].todo /\ r.pc = "run"
      BY <1>1 DEF TxRecord
    <3> HIDE DEF r
    <3> QED BY <2>2, <3>1, <3>2, <3>3
  <2>7. CASE UpdateRun(h)
    <3> DEFINE stops == tx[h].op \in {"stop", "cancel", "supersede"} /\ tx[h].t # None
               next  == IF stops THEN [tx[h] EXCEPT !.sum = None, !.pc = "task"]
                        ELSE [tx[h] EXCEPT !.sum = None, !.pc = "next", !.t = None, !.to = None]
               writes == [next EXCEPT !.wrun = tx[h].sum]
    <3>1. tx' = [tx EXCEPT ![h] = writes] \/ tx' = [tx EXCEPT ![h] = next]
      BY <1>3, <2>7 DEF UpdateRun
    <3>2. next \in TxRecord BY <1>1 DEF TxRecord, PC
    <3>3. /\ next.op = tx[h].op /\ next.wjob = tx[h].wjob /\ next.todo = tx[h].todo
          /\ tx[h].op = "emit" => next.pc = "next"
      BY <1>1 DEF TxRecord
    <3> HIDE DEF next
    <3>4. /\ writes \in TxRecord /\ writes.op = next.op /\ writes.wjob = next.wjob
          /\ writes.todo = next.todo /\ writes.pc = next.pc
      BY <1>1, <3>2 DEF TxRecord
    <3> HIDE DEF writes
    <3> QED BY <2>2, <3>1, <3>2, <3>3, <3>4
  <2>8. CASE UpdateTask(h)
    <3> DEFINE row == [Over(task, tx[h].wtask)[tx[h].t] EXCEPT !.status = tx[h].to]
               next == IF tx[h].op = "report" THEN [tx[h] EXCEPT !.pc = "job"]
                       ELSE [tx[h] EXCEPT !.pc = "next", !.t = None, !.to = None]
               writes == [next EXCEPT !.wtask[tx[h].t] = row]
    <3>1. tx' = [tx EXCEPT ![h] = writes] \/ tx' = [tx EXCEPT ![h] = next]
      BY <2>8 DEF UpdateTask
    <3>2. tx[h].op # "emit" /\ tx[h].pc = "task" BY <1>1, <2>8 DEF Emits, UpdateTask, At
    <3>3. next \in TxRecord BY <1>1 DEF TxRecord, PC
    <3>4. next.op # "emit" BY <1>1, <3>2 DEF TxRecord
    <3> HIDE DEF next, row
    <3>5. writes.op # "emit" BY <3>3, <3>4 DEF TxRecord
    <3> HIDE DEF writes
    <3>6. \A j \in Job : ~Carries(tx[h], j) BY <3>2 DEF Carries
    <3> QED BY <2>1, <3>1, <3>2, <3>4, <3>5, <3>6, OwedMoves DEF Emits
  <2> QED BY <2>3, <2>4, <2>5, <2>6, <2>7, <2>8
<1> QED BY <1>2, <1>3

(* Resolve finds something to do with a job whose needs have all ended. *)
LEMMA ResolveReady ==
  ASSUME TypeInv, NEW j \in Job, Ready(j)
  PROVE  Resolve(job)[j] # job[j]
<1> DEFINE row == job[j]
<1>1. row = [status |-> row.status, task |-> row.task] /\ row.status = "blocked"
  BY DEF TypeInv, TypeOK, JobRow, Ready
<1>2. /\ [row EXCEPT !.status = "skipped"].status = "skipped"
      /\ [row EXCEPT !.status = "waiting"].status = "waiting"
  BY <1>1
<1>3. CASE \A n \in Needs[j] : job[n].status = "success"
  BY <1>1, <1>2, <1>3 DEF Resolve
<1>4. CASE \E n \in Needs[j] : job[n].status # "success"
  <2>1. \A S \in SUBSET Job : Skips(job, S, j) BY <1>4 DEF Skips, Ready
  <2>2. j \in Skipped(job) BY <2>1 DEF Skipped
  <2> QED BY <1>1, <1>2, <2>2 DEF Resolve
<1> QED BY <1>3, <1>4

LEMMA OwedEmit ==
  ASSUME TypeInv, OwedInv, NEW h \in Server, Emit(h)
  PROVE  OwedInv'
<1> DEFINE resolved == Resolve(job)
           S == {j \in Job : resolved[j] # job[j]}
           r == [Rest EXCEPT !.op = "emit", !.pc = "next",
                             !.todo = [j \in Job |-> IF j \in S THEN resolved[j] ELSE None]]
<1>1. /\ h \in Worker /\ Idle(h) /\ job' = job /\ unheard' = unheard
      /\ \/ S = {} /\ UNCHANGED tx
         \/ tx' = [tx EXCEPT ![h] = r]
  BY DEF Emit, Keeps, rows, history
<1>2. resolved \in [Job -> JobRow] BY ResolveType DEF TypeInv, TypeOK
<1>3. /\ r.op = "emit" /\ r.pc = "next"
      /\ \A j \in Job : r.todo[j] = IF j \in S THEN resolved[j] ELSE None
  BY RestType DEF Rest
<1>4. \A j \in S : r.todo[j] # None BY <1>2, <1>3, ConstantsAssumption
<1> HIDE DEF r, resolved
<1>5. \A g \in Server : tx'[g] = tx[g] \/ (g = h /\ tx'[g] = r /\ tx' = [tx EXCEPT ![h] = r])
  BY <1>1 DEF TypeInv, TypeOK
<1>6. \A g \in Server : Emits(g, tx'[g]) BY <1>1, <1>3, <1>5 DEF OwedInv, Emits
<1>7. ASSUME NEW j \in Direct, Ready(j)' PROVE Owed(j)'
  <2>1. j \in Job /\ Ready(j) BY <1>1, <1>7 DEF Direct, Ready
  <2>2. j \in S BY <2>1, ResolveReady DEF resolved
  <2>3. tx' = [tx EXCEPT ![h] = r] BY <1>1, <2>2
  <2>4. tx'[h] = r BY <2>3 DEF TypeInv, TypeOK
  <2> QED BY <1>1, <1>3, <1>4, <2>2, <2>4 DEF Owed
<1> QED BY <1>6, <1>7 DEF OwedInv, BlockedIsOwed, Emits, Direct

(* Awaited forgets no need of a job that is still blocked. *)
LEMMA StillAwaited ==
  ASSUME NEW j \in Job, job[j].status = "blocked", NEW S, NEW n \in Needs[j] \cap S
  PROVE  n \in Awaited(S)
BY ConstantsAssumption DEF Awaited

LEMMA OwedNotify ==
  ASSUME TypeInv, OwedInv, NEW h \in Server, Notify(h)
  PROVE  OwedInv'
<1>1. /\ tx' = [tx EXCEPT ![h] = Rest] /\ job' = job /\ tx[h].pc = "notify"
      /\ \/ queued' = TRUE
         \/ /\ queued' = queued
            /\ unheard' = Awaited(unheard \cup {j \in {tx[h].at} : job[j].status \in Done})
  BY DEF Notify, rows, At
<1>2. \A g \in Server : tx'[g] = IF g = h THEN Rest ELSE tx[g] BY <1>1 DEF TypeInv, TypeOK
<1>3. \A g \in Server : Emits(g, tx'[g]) BY <1>2 DEF OwedInv, Emits, Rest
<1>4. ASSUME NEW j \in Direct, Ready(j)' PROVE Owed(j)'
  <2>1. j \in Job /\ Ready(j) BY <1>1, <1>4 DEF Direct, Ready
  <2>2. Owed(j) BY <1>4, <2>1 DEF OwedInv, BlockedIsOwed
  <2>3. CASE queued' = TRUE BY <2>3 DEF Owed
  <2>4. CASE /\ queued' = queued
             /\ unheard' = Awaited(unheard \cup {k \in {tx[h].at} : job[k].status \in Done})
    <3>1. Needs[j] \cap unheard # {} => Owed(j)'
      BY <2>1, <2>4, StillAwaited DEF Owed, Ready
    <3>2. ASSUME NEW g \in Server, At(g, "notify"), tx[g].at \in Needs[j] PROVE Owed(j)'
      <4>1. CASE g = h
        <5>1. job[tx[h].at].status \in Done BY <2>1, <3>2, <4>1 DEF Ready
        <5> QED BY <2>1, <2>4, <3>2, <4>1, <5>1, StillAwaited DEF Owed, Ready
      <4>2. CASE g # h BY <1>2, <3>2, <4>2 DEF Owed, At
      <4> QED BY <4>1, <4>2
    <3>3. ASSUME NEW w \in Worker, Carries(tx[w], j) PROVE Owed(j)'
      <4>1. w \in Server /\ w # h BY <1>1, <3>3, ConstantsAssumption DEF OwedInv, Emits, Carries
      <4> QED BY <1>2, <3>3, <4>1 DEF Owed, Carries
    <3> QED BY <2>2, <2>4, <3>1, <3>2, <3>3 DEF Owed, Carries
  <2> QED BY <1>1, <2>3, <2>4
<1> QED BY <1>3, <1>4 DEF OwedInv, BlockedIsOwed, Emits, Direct

(* A job written outside a transaction: the need has ended unheard.        *)
LEMMA OwedLoose ==
  ASSUME TypeInv, OwedInv, NEW h \in Server, NEW k \in Job, NEW r, NEW new,
         tx' = [tx EXCEPT ![h] = r], job' = [job EXCEPT ![k] = new], new.status # "blocked",
         queued' = queued, unheard' = Awaited(unheard \cup {k}),
         r.op # "emit", tx[h].op # "emit", tx[h].pc # "notify"
  PROVE  OwedInv'
<1>1. \A g \in Server : tx'[g] = IF g = h THEN r ELSE tx[g] BY DEF TypeInv, TypeOK
<1>2. \A g \in Server : Emits(g, tx'[g]) BY <1>1 DEF OwedInv, Emits
<1>3. \A j \in Job : job'[j] = IF j = k THEN new ELSE job[j] BY DEF TypeInv, TypeOK
<1>4. ASSUME NEW j \in Direct, Ready(j)' PROVE Owed(j)'
  <2>1. j \in Job /\ Needs[j] \subseteq Job BY ConstantsAssumption DEF Direct
  <2>2. job[j].status = "blocked" BY <1>3, <1>4, <2>1 DEF Ready
  <2>3. CASE Ready(j)
    <3>1. Owed(j) BY <1>4, <2>3 DEF OwedInv, BlockedIsOwed
    <3>2. Needs[j] \cap unheard # {} => Owed(j)' BY <2>1, <2>2, StillAwaited DEF Owed
    <3>3. ASSUME NEW g \in Server, At(g, "notify"), tx[g].at \in Needs[j] PROVE Owed(j)'
      BY <1>1, <3>3 DEF Owed, At
    <3>4. ASSUME NEW w \in Worker, Carries(tx[w], j) PROVE Owed(j)'
      <4>1. w \in Server /\ w # h BY <3>4, ConstantsAssumption DEF Carries
      <4> QED BY <1>1, <3>4, <4>1 DEF Owed, Carries
    <3> QED BY <3>1, <3>2, <3>3, <3>4 DEF Owed, Carries
  <2>4. CASE ~Ready(j)
    <3>1. k \in Needs[j] BY <1>3, <1>4, <2>1, <2>2, <2>4 DEF Ready
    <3> QED BY <2>1, <2>2, <3>1, StillAwaited DEF Owed
  <2> QED BY <2>3, <2>4
<1> QED BY <1>2, <1>4 DEF OwedInv, BlockedIsOwed, Emits, Direct

LEMMA OwedUpdateJob ==
  ASSUME TypeInv, Shaped, TaskInv, OwedInv, NEW h \in Server, UpdateJob(h)
  PROVE  OwedInv'
<1> DEFINE j == tx[h].at
           row == Over(job, tx[h].wjob)[j]
           next == [tx[h] EXCEPT !.todo[j] = None,
                                 !.pc = IF tx[h].snap = None THEN "loadRun" ELSE "loadJobs"]
           new == NewRow(h, row)
           writes == [next EXCEPT !.wjob[j] = new]
<1>1. /\ tx[h] \in TxRecord /\ Shape(tx[h]) /\ tx[h].pc = "job" /\ j \in Job
      /\ Emits(h, tx[h]) /\ Outcomes(tx[h])
  BY DEF TypeInv, TypeOK, TaskInv, Own, Steady, Shaped, Shape, OwedInv, UpdateJob, At
<1>2. CASE GiveUp(h) BY <1>1, <1>2, OwedGiveUp
<1>3. CASE ~GiveUp(h)
  <2>1. \/ InTx(h) /\ tx' = [tx EXCEPT ![h] = writes] /\ UNCHANGED << job, unheard, queued >>
        \/ /\ ~InTx(h) /\ tx' = [tx EXCEPT ![h] = next] /\ job' = [job EXCEPT ![j] = new]
           /\ unheard' = Awaited(unheard \cup {j}) /\ queued' = queued
    BY <1>3 DEF UpdateJob
  <2>2. next \in TxRecord BY <1>1 DEF TxRecord, PC
  <2>3. /\ next.op = tx[h].op /\ next.wjob = tx[h].wjob /\ next.pc \in {"loadRun", "loadJobs"}
        /\ \A k \in Job : next.todo[k] = IF k = j THEN None ELSE tx[h].todo[k]
    BY <1>1 DEF TxRecord
  <2>4. row \in JobRow BY <1>1, OverJobs DEF TypeInv, TypeOK, TxRecord
  <2>5. new.status = tx[h].to /\ tx[h].to # "blocked"
    BY <1>1 DEF NewRow, Outcomes, Outcome
  <2>6. new \in JobRow /\ new # None
    <3>1. new \in JobRow
      <4> HIDE DEF row
      <4> QED BY <2>4, NewRowType DEF UpdateJob
    <3> QED BY <3>1, ConstantsAssumption
  <2> HIDE DEF next, new, row
  <2>7. CASE InTx(h) /\ tx' = [tx EXCEPT ![h] = writes] /\ UNCHANGED << job, unheard, queued >>
    <3>1. /\ writes.op = tx[h].op /\ writes.pc = next.pc /\ writes.todo = next.todo
          /\ \A k \in Job : writes.wjob[k] = IF k = j THEN new ELSE tx[h].wjob[k]
      BY <1>1, <2>2, <2>3 DEF TxRecord
    <3> HIDE DEF writes
    <3>2. Emits(h, writes) BY <1>1, <2>3, <3>1 DEF Emits
    <3>3. \A k \in Job : Carries(tx[h], k) => Carries(writes, k)
      BY <2>3, <2>6, <3>1 DEF Carries
    <3> QED BY <1>1, <2>7, <3>2, <3>3, OwedMoves
  <2>8. CASE /\ ~InTx(h) /\ tx' = [tx EXCEPT ![h] = next] /\ job' = [job EXCEPT ![j] = new]
             /\ unheard' = Awaited(unheard \cup {j}) /\ queued' = queued
    <3>1. tx[h].op = "supersede" BY <2>8 DEF InTx
    <3>2. /\ j \in Job /\ new.status # "blocked" /\ tx[h].pc # "notify"
          /\ next.op # "emit" /\ tx[h].op # "emit"
      BY <1>1, <2>3, <2>5, <3>1
    <3>3. /\ tx' = [tx EXCEPT ![h] = next] /\ job' = [job EXCEPT ![j] = new]
          /\ queued' = queued /\ unheard' = Awaited(unheard \cup {j})
      BY <2>8
    <3>4. TypeInv /\ OwedInv OBVIOUS
    <3> HIDE DEF j
    <3> QED BY <3>2, <3>3, <3>4, OwedLoose
  <2> QED BY <2>1, <2>7, <2>8
<1> QED BY <1>2, <1>3

(* Who ends a need of a blocked job tells the emitter, or is one of those  *)
(* that do not and leave it unheard; the emitter itself ends none that     *)
(* needs nothing.                                                          *)
LEMMA OwedCommit ==
  ASSUME AllInv, OwedInv, NEW h \in Server, Commit(h)
  PROVE  OwedInv'
<1> DEFINE told == [Rest EXCEPT !.op = "report", !.pc = "notify", !.at = tx[h].at]
           r == IF Tells(h) THEN told ELSE Rest
<1>1. /\ tx[h] \in TxRecord /\ tx[h].pc = "next" /\ Outcomes(tx[h]) /\ TypeInv
      /\ Shape(tx[h]) /\ \A j \in Job : tx[h].todo[j] = None
  BY DEF AllInv, TypeInv, TypeOK, TaskInv, Own, Steady, Shaped, Commit, At
<1>2. \A j \in Job : job'[j] = IF tx[h].wjob[j] = None THEN job[j] ELSE tx[h].wjob[j]
  BY CommitRows DEF AllInv
<1>3. /\ tx' = [tx EXCEPT ![h] = r] /\ queued' = queued
      /\ unheard' = IF tx[h].op \in {"stop", "cancel", "abandon"}
                    THEN Awaited(unheard \cup Ended(h)) ELSE Awaited(unheard \ Written(h))
  BY DEF Commit
<1>4. /\ r.op # "emit"
      /\ tx[h].op = "report" => r.pc = "notify" /\ r.at = tx[h].at
  BY DEF Tells, Rest
<1> HIDE DEF r
<1>5. \A g \in Server : tx'[g] = IF g = h THEN r ELSE tx[g] BY <1>1, <1>3 DEF TypeInv, TypeOK
<1>6. \A g \in Server : Emits(g, tx'[g]) BY <1>4, <1>5 DEF OwedInv, Emits
<1>7. ASSUME NEW j \in Direct, Ready(j)' PROVE Owed(j)'
  <2>1. j \in Job /\ Needs[j] \subseteq Job /\ \A n \in Needs[j] : Needs[n] = {}
    BY ConstantsAssumption DEF Direct
  <2>2. tx[h].wjob[j] = None /\ job[j].status = "blocked"
    BY <1>1, <1>2, <1>7, <2>1 DEF Ready, Outcomes, Outcome
  <2>3. ASSUME NEW n \in Needs[j], tx[h].wjob[n] # None PROVE Owed(j)'
    <3>1. tx[h].wjob[n].status \in Done BY <1>2, <1>7, <2>1, <2>3 DEF Ready
    <3>2. Outcome(tx[h], n, tx[h].wjob[n].status) BY <1>1, <2>1, <2>3 DEF Outcomes
    <3>3. tx[h].op \notin {"pick", "rerun", "approve", "emit"} BY <2>1, <3>1, <3>2 DEF Outcome
    <3>4. CASE tx[h].op = "report"
      BY <1>4, <1>5, <2>3, <3>2, <3>4 DEF Outcome, Owed, At
    <3>5. CASE tx[h].op \in {"stop", "cancel", "abandon"}
      <4>1. n \in Ended(h) BY <2>1, <2>3, <3>1 DEF Ended, Written
      <4> QED BY <1>3, <2>1, <2>2, <3>5, <4>1, StillAwaited DEF Owed
    <3>6. tx[h].op \notin {"idle", "supersede"}
      BY <1>1, <2>1, <2>3 DEF AllInv, TaskInv, Own, Steady, Ordered, Shape, Writes
    <3> QED BY <1>1, <3>3, <3>4, <3>5, <3>6 DEF TxRecord, Op
  <2>4. CASE \A n \in Needs[j] : tx[h].wjob[n] = None
    <3>1. Ready(j) BY <1>2, <1>7, <2>1, <2>2, <2>4 DEF Ready
    <3>2. Owed(j) BY <1>7, <3>1 DEF OwedInv, BlockedIsOwed
    <3>3. ASSUME NEW n \in Needs[j] \cap unheard PROVE Owed(j)'
      <4>1. n \notin Written(h) BY <2>4 DEF Written
      <4>2. n \in unheard' BY <1>3, <2>1, <2>2, <3>3, <4>1, StillAwaited
      <4> QED BY <3>3, <4>2 DEF Owed
    <3>4. ASSUME NEW g \in Server, At(g, "notify"), tx[g].at \in Needs[j] PROVE Owed(j)'
      <4>1. g # h BY <1>1, <3>4 DEF At
      <4> QED BY <1>5, <3>4, <4>1 DEF Owed, At
    <3>5. ASSUME NEW w \in Worker, Carries(tx[w], j) PROVE Owed(j)'
      <4>1. w \in Server /\ w # h BY <1>1, <2>1, <2>2, <3>5, ConstantsAssumption DEF Carries
      <4> QED BY <1>5, <3>5, <4>1 DEF Owed, Carries
    <3> QED BY <1>3, <3>2, <3>3, <3>4, <3>5 DEF Owed, Carries
  <2> QED BY <2>3, <2>4
<1> QED BY <1>6, <1>7 DEF OwedInv, BlockedIsOwed, Emits, Direct

LEMMA OwedInit == ASSUME Init PROVE OwedInv
<1>1. \A h \in Server : tx[h].op = "idle" BY DEF Init, Rest
<1>2. ASSUME NEW j \in Direct, Ready(j) PROVE FALSE
  <2>1. PICK n \in Needs[j] : n \in Job /\ job[n].status \in Done
    BY <1>2, ConstantsAssumption DEF Ready, Direct
  <2>2. job[n].status \in {"blocked", "waiting"} BY <2>1 DEF Init
  <2> QED BY <2>1, <2>2 DEF Done
<1> QED BY <1>1, <1>2 DEF OwedInv, Emits, BlockedIsOwed

LEMMA OwedNext == ASSUME AllInv, OwedInv, Next PROVE OwedInv'
<1>1. PICK h \in Server : Intervene(h) \/ Request(h) \/ Handle(h) \/ Step(h) BY DEF Next
<1>2. TypeInv /\ Shaped /\ TaskInv BY DEF AllInv
<1>3. CASE Intervene(h) BY <1>2, <1>3, OwedStarts DEF Intervene
<1>4. CASE Request(h) BY <1>2, <1>4, OwedStarts DEF Request
<1>5. CASE Handle(h) BY <1>2, <1>5, OwedEmit DEF Handle
<1>6. CASE Step(h)
  <2>1. CASE Victim(h)
    <3>1. tx[h].pc # "notify" BY <2>1 DEF Victim, Waits, At
    <3> QED BY <1>2, <2>1, <3>1, OwedGiveUp DEF Victim
  <2> QED BY <1>2, <1>6, <2>1, OwedGoes, OwedUpdateJob, OwedCommit, OwedNotify DEF Step
<1> QED BY <1>1, <1>3, <1>4, <1>5, <1>6

(* For every graph of needs and any number of workers of the emitter: a    *)
(* blocked job whose needs have ended, and need nothing themselves, is not *)
(* forgotten, unless one of them ended without the emitter being told.     *)
THEOREM BlockedAreOwed == Spec => []BlockedIsOwed
<1>1. Init => OwedInv BY OwedInit
<1>2. AllInv /\ OwedInv /\ [Next]_vars => OwedInv'
  <2>1. AllInv /\ OwedInv /\ Next => OwedInv' BY OwedNext
  <2>2. OwedInv /\ UNCHANGED vars => OwedInv'
    BY DEF vars, OwedInv, Emits, BlockedIsOwed, Direct, Ready, Owed, At
  <2> QED BY <2>1, <2>2
<1>3. OwedInv => BlockedIsOwed BY DEF OwedInv
<1> QED BY <1>1, <1>2, <1>3, AllSafe, PTL DEF Spec
=============================================================================
