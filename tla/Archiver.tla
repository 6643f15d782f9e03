------------------------------ MODULE Archiver ------------------------------
(***************************************************************************)
(* services/repository/archiver: requests for an archive of a commit, the  *)
(* unique queue "repo-archive" with its workers, the table of archives,    *)
(* the files in the storage, the two cron tasks that remove archives, and  *)
(* the doctor.  A row and its file are two things: a row is written in a   *)
(* transaction that is open while the file is made, and deleted before the *)
(* file is.  A committed row always says ArchiverReady, since the status   *)
(* ArchiverGenerating is inserted and replaced in one transaction.         *)
(***************************************************************************)
EXTENDS Naturals, Sequences

CONSTANTS
  Archive,       \* what is asked for: a repository, a commit and a type
  Worker,        \* the workers of the queue
  Request,       \* requests that download archives
  Cleanups,      \* bound: runs of the cron tasks
  Disturbances,  \* bound: failures of git, storage, queue or database, and crashes
  None

ASSUME ConstantsAssumption ==
  Cleanups \in Nat /\ Disturbances \in Nat /\ None \notin Archive

VARIABLES
  row,           \* the archives that have a row in the repo_archiver table
  file,          \* the archives that have a file in storage.RepoArchives
  avatar,        \* the file in storage.RepoAvatars that the repository's row names is there
  queue,         \* the archives in the queue
  stale,         \* those that the queue's set has, but the queue has not
  g,             \* doArchive of each worker
  r,             \* Await and the download of each request
  cleanup,       \* archive_cleanup
  delete,        \* delete_repo_archives
  cleanups,
  disturbances,
  missed,        \* history: requests that wait although an attempt for them has ended without a row
  overtaken,     \* history: archives whose file was removed when somebody relied on it
  leaked         \* history: archives whose file was left behind

crons   == << cleanup, delete >>
bounds  == << cleanups, disturbances >>
history == << missed, overtaken, leaked >>
vars    == << row, file, avatar, queue, stale, g, r, crons, bounds, history >>

Work   == [pc : {"idle", "get", "insert", "stat", "save", "commit"},
           a : Archive \cup {None}, new : BOOLEAN]
Idle   == [pc |-> "idle", a |-> None, new |-> FALSE]
Quiet  == [pc |-> "idle", a |-> None]
Asleep == [pc |-> "idle", a |-> None, todo |-> {}, same |-> {}]

Init ==
  /\ row = {} /\ file = {} /\ avatar = TRUE /\ queue = {} /\ stale = {}
  /\ g = [w \in Worker |-> Idle]
  /\ r = [q \in Request |-> Quiet]
  /\ cleanup = Asleep
  /\ delete = {}
  /\ cleanups = 0 /\ disturbances = 0
  /\ missed = {} /\ overtaken = {} /\ leaked = {}

-----------------------------------------------------------------------------
(* Building blocks. *)

Disturb == disturbances < Disturbances /\ disturbances' = disturbances + 1

Waiting(S) == {q \in Request : r[q].pc = "poll" /\ r[q].a \in S}

(* A transaction that inserts the row of an archive has its unique key.    *)
Inserting(a) == \E w \in Worker : g[w].a = a /\ g[w].new

(* A row is there that promises the file, or is about to be committed.     *)
Relied(a) == a \in row \/ \E w \in Worker : g[w].a = a /\ g[w].pc = "commit" /\ g[w].new

(* The unique queue refuses and reports what its set has, whether or not   *)
(* the queue has it: its entries may outlive the items (StaleNeedsRace of  *)
(* ChannelQueue, StaleNeedsInterruption of RedisQueue).                    *)
InSet == queue \cup stale

At(w, pc)   == g[w].pc = pc
Goto(w, pc) == g' = [g EXCEPT ![w].pc = pc]
End(w)      == g' = [g EXCEPT ![w] = Idle]

-----------------------------------------------------------------------------
(* doArchive. *)

Take_Dropped(w, a) ==
  /\ g[w] = Idle
  /\ a \in queue
  /\ queue' = queue \ {a}
  /\ stale' = stale
  /\ UNCHANGED << row, file, avatar, g, r, crons, bounds, history >>

(* The popper may come between the push and its entry in the set.          *)
Take(w, a) ==
  /\ g[w] = Idle
  /\ a \in queue
  /\ queue' = queue \ {a}
  /\ stale' \in {stale, stale \cup {a}}
  /\ g' = [g EXCEPT ![w] = [Idle EXCEPT !.pc = "get", !.a = a]]
  /\ UNCHANGED << row, file, avatar, r, crons, bounds, history >>

(* LPOP has taken the item, but its answer is lost, and PopItem tries again. *)
PopFails(a) ==
  /\ a \in queue
  /\ Disturb
  /\ queue' = queue \ {a}
  /\ stale' = stale \cup {a}
  /\ UNCHANGED << row, file, avatar, g, r, crons, cleanups, history >>

GetRepoArchiver(w) ==
  /\ At(w, "get")
  /\ Goto(w, IF g[w].a \in row THEN "stat" ELSE "insert")
  /\ UNCHANGED << row, file, avatar, queue, stale, r, crons, bounds, history >>

(* It waits for another transaction that inserts the same, and fails if    *)
(* that has committed.                                                     *)
AddRepoArchiver(w) ==
  /\ At(w, "insert")
  /\ ~Inserting(g[w].a)
  /\ IF g[w].a \in row THEN End(w)
     ELSE g' = [g EXCEPT ![w].pc = "stat", ![w].new = TRUE]
  /\ UNCHANGED << row, file, avatar, queue, stale, r, crons, bounds, history >>

Stat(w) ==
  /\ At(w, "stat")
  /\ Goto(w, IF g[w].a \in file THEN "commit" ELSE "save")
  /\ UNCHANGED << row, file, avatar, queue, stale, r, crons, bounds, history >>

Save_Unchecked(w) ==
  /\ At(w, "save")
  /\ Goto(w, "commit")
  /\ UNCHANGED << row, file, avatar, queue, stale, r, crons, bounds, history >>

(* git archive writes to a temporary file that is renamed at the end.      *)
Save(w) ==
  /\ At(w, "save")
  /\ file' = file \cup {g[w].a}
  /\ overtaken' = overtaken \ {g[w].a}
  /\ Goto(w, "commit")
  /\ UNCHANGED << row, avatar, queue, stale, r, crons, bounds, missed, leaked >>

(* A row that was there when the transaction read it is not written.       *)
Commit(w) ==
  LET a == g[w].a IN
  /\ At(w, "commit")
  /\ row' = IF g[w].new THEN row \cup {a} ELSE row
  /\ missed' = IF a \in row' THEN missed ELSE missed \cup Waiting({a})
  /\ leaked' = IF a \in row' THEN leaked \ {a} ELSE leaked \cup ({a} \cap file)
  /\ End(w)
  /\ UNCHANGED << file, avatar, queue, stale, r, crons, bounds, overtaken >>

(* A statement, git or the storage fails: the transaction is rolled back.  *)
Fail(w) ==
  LET a == g[w].a IN
  /\ g[w] # Idle
  /\ Disturb
  /\ missed' = IF a \in row THEN missed ELSE missed \cup Waiting({a})
  /\ leaked' = IF a \in row THEN leaked ELSE leaked \cup ({a} \cap file)
  /\ End(w)
  /\ UNCHANGED << row, file, avatar, queue, stale, r, crons, cleanups, overtaken >>

-----------------------------------------------------------------------------
(* Await, with StartArchive, unless the archive is ready.  InitiateDownload *)
(* is an Await that does not wait.                                         *)

Reply(q)   == r' = [r EXCEPT ![q] = Quiet] /\ missed' = missed \ {q}
Ask(q, pc) == r' = [r EXCEPT ![q].pc = pc] /\ UNCHANGED missed

NewRequest(q, a) ==
  /\ r[q] = Quiet
  /\ a \notin row
  /\ r' = [r EXCEPT ![q] = [pc |-> "has", a |-> a]]
  /\ UNCHANGED << row, file, avatar, queue, stale, g, crons, bounds, history >>

Has(q) ==
  /\ r[q].pc = "has"
  /\ Ask(q, IF r[q].a \in InSet THEN "poll" ELSE "push")
  /\ UNCHANGED << row, file, avatar, queue, stale, g, crons, bounds, overtaken, leaked >>

(* What has been pushed in the meantime is an error of the unique queue.   *)
Push(q) ==
  /\ r[q].pc = "push"
  /\ IF r[q].a \in InSet
     THEN Reply(q) /\ UNCHANGED queue
     ELSE Ask(q, "poll") /\ queue' = queue \cup {r[q].a}
  /\ UNCHANGED << stale, row, file, avatar, g, crons, bounds, overtaken, leaked >>

(* A queue in redis may fail between the set and the list.                 *)
PushFails(q) ==
  /\ r[q].pc = "push"
  /\ Disturb
  /\ stale' \in {stale, stale \cup ({r[q].a} \ queue)}
  /\ Reply(q)
  /\ UNCHANGED << row, file, avatar, queue, g, crons, cleanups, overtaken, leaked >>

Poll(q) ==
  /\ r[q].pc = "poll"
  /\ r[q].a \in row
  /\ Reply(q)
  /\ UNCHANGED << row, file, avatar, queue, stale, g, crons, bounds, overtaken, leaked >>

(* The client has gone. *)
GiveUp(q) ==
  /\ r[q].pc = "poll"
  /\ Reply(q)
  /\ UNCHANGED << row, file, avatar, queue, stale, g, crons, bounds, overtaken, leaked >>

-----------------------------------------------------------------------------
(* Cron. *)

Cleanup == cleanups < Cleanups /\ cleanups' = cleanups + 1

(* DeleteOldRepositoryArchives, whatever is old. *)
FindRepoArchives ==
  /\ cleanup = Asleep
  /\ Cleanup
  /\ \E S \in SUBSET row \ {{}} : cleanup' = [pc |-> "row", a |-> None, todo |-> S, same |-> S]
  /\ UNCHANGED << row, file, avatar, queue, stale, g, r, delete, disturbances, history >>

GoOn(c) == IF c.todo = {} THEN Asleep ELSE [c EXCEPT !.pc = "row", !.a = None]

DeleteRepoArchiver_RowOnly ==
  /\ cleanup.pc = "row"
  /\ \E a \in cleanup.todo :
       /\ row' = IF a \in cleanup.same THEN row \ {a} ELSE row
       /\ missed' = IF a \in row' THEN missed ELSE missed \cup Waiting({a})
       /\ cleanup' = GoOn([cleanup EXCEPT !.todo = @ \ {a}])
  /\ UNCHANGED << file, avatar, queue, stale, g, r, delete, bounds, overtaken, leaked >>

(* The row with the ID that was listed, not one that has replaced it.      *)
DeleteRepoArchiver ==
  /\ cleanup.pc = "row"
  /\ \E a \in cleanup.todo :
       /\ row' = IF a \in cleanup.same THEN row \ {a} ELSE row
       /\ missed' = IF a \in row' THEN missed ELSE missed \cup Waiting({a})
       /\ cleanup' = [cleanup EXCEPT !.pc = "file", !.a = a, !.todo = @ \ {a}]
  /\ UNCHANGED << file, avatar, queue, stale, g, r, delete, bounds, overtaken, leaked >>

Remove(S) ==
  /\ file' = file \ S
  /\ overtaken' = overtaken \cup {a \in S \cap file : Relied(a)}
  /\ leaked' = leaked \ S

(* An error of the storage is logged. *)
DeleteFile ==
  /\ cleanup.pc = "file"
  /\ \/ Remove({cleanup.a}) /\ UNCHANGED disturbances
     \/ /\ Disturb
        /\ leaked' = leaked \cup ({cleanup.a} \cap (file \ row))
        /\ UNCHANGED << file, overtaken >>
  /\ cleanup' = GoOn(cleanup)
  /\ UNCHANGED << row, avatar, queue, stale, g, r, delete, cleanups, missed >>

DeleteFails ==
  /\ cleanup.pc = "row"
  /\ Disturb
  /\ cleanup' = Asleep
  /\ UNCHANGED << row, file, avatar, queue, stale, g, r, delete, cleanups, history >>

(* DeleteRepositoryArchives: all rows in one statement, then the files as  *)
(* the walk comes to them.                                                 *)
DeleteAllRepoArchives ==
  /\ delete = {}
  /\ Cleanup
  /\ row' = {}
  /\ missed' = missed \cup Waiting(row)
  /\ cleanup' = [cleanup EXCEPT !.same = {}]
  /\ delete' = Archive
  /\ UNCHANGED << file, avatar, queue, stale, g, r, disturbances, overtaken, leaked >>

Clean ==
  /\ \/ \E a \in delete : Remove({a}) /\ delete' = delete \ {a} /\ UNCHANGED disturbances
     \/ /\ delete \cap file # {}
        /\ Disturb
        /\ leaked' = leaked \cup (delete \cap (file \ row))
        /\ delete' = {}
        /\ UNCHANGED << file, overtaken >>
  /\ UNCHANGED << row, avatar, queue, stale, g, r, cleanup, cleanups, missed >>

-----------------------------------------------------------------------------
(* The doctor's check "storage-archives", with --fix.                      *)

CommitID(a)     == << "ab", a >>
RelativePath(a) == << << "repository" >>, << "ab" >>, CommitID(a) >>
AvatarPath      == << << "avatar" >> >>

(* repoArchiverForRelativePath puts the directory before the name. *)
ExistsRepoArchiverWithStoragePath(p) ==
  Len(p) = 3 /\ \E a \in row : CommitID(a) = p[2] \o p[3]

Objects(storage) ==
  CASE storage = "RepoAvatars"  -> IF avatar THEN {AvatarPath} ELSE {}
    [] storage = "RepoArchives" -> {RelativePath(a) : a \in file}

Storer == "RepoAvatars"

CheckStorage ==
  LET orphans == {p \in Objects(Storer) : ~ExistsRepoArchiverWithStoragePath(p)} IN
  /\ orphans # {}
  /\ avatar' = (avatar /\ AvatarPath \notin orphans)
  /\ file' = {a \in file : RelativePath(a) \notin orphans}
  /\ UNCHANGED << row, queue, stale, g, r, crons, bounds, history >>

-----------------------------------------------------------------------------
(* The process dies and is started again: transactions are rolled back,    *)
(* and the queue is lost unless its type is persistent.  A call of redis   *)
(* that was under way leaves its item in the set alone.                    *)
Interrupted == queue \cup {r[q].a : q \in {q \in Request : r[q].pc = "push"}}

Crash ==
  /\ Disturb
  /\ leaked' = leaked \cup {a \in file \ row : \/ \E w \in Worker : g[w].a = a
                                               \/ cleanup.a = a \/ a \in delete}
  /\ \/ queue' = {} /\ stale' = {}
     \/ UNCHANGED << queue, stale >>
     \/ \E a \in Interrupted : queue' = queue \ {a} /\ stale' = stale \cup {a}
  /\ g' = [w \in Worker |-> Idle]
  /\ r' = [q \in Request |-> Quiet]
  /\ cleanup' = Asleep
  /\ delete' = {}
  /\ missed' = {}
  /\ UNCHANGED << row, file, avatar, cleanups, overtaken >>

-----------------------------------------------------------------------------
DoArchive(w) ==
  \/ GetRepoArchiver(w) \/ AddRepoArchiver(w) \/ Stat(w) \/ Save(w) \/ Commit(w)
Await(q) == Has(q) \/ Push(q) \/ Poll(q)

Next ==
  \/ \E w \in Worker : DoArchive(w) \/ Fail(w) \/ \E a \in Archive : Take(w, a)
  \/ \E q \in Request : Await(q) \/ PushFails(q) \/ GiveUp(q) \/ \E a \in Archive : NewRequest(q, a)
  \/ FindRepoArchives \/ DeleteRepoArchiver \/ DeleteFile \/ DeleteFails
  \/ DeleteAllRepoArchives \/ Clean
  \/ CheckStorage \/ Crash \/ \E a \in Archive : PopFails(a)

Spec == Init /\ [][Next]_vars

(* The goroutines of requests and workers run, and the queue, first in     *)
(* first out, comes to each of its items.                                  *)
Fairness ==
  /\ \A w \in Worker : WF_vars(DoArchive(w))
  /\ \A a \in Archive : SF_vars(\E w \in Worker : Take(w, a))
  /\ \A q \in Request : WF_vars(Await(q))

LiveSpec == Spec /\ Fairness

-----------------------------------------------------------------------------
(* Properties. *)

(* Every variable keeps its type, and whoever works has an archive.        *)
TypeOK ==
  /\ row \subseteq Archive /\ file \subseteq Archive /\ queue \subseteq Archive /\ stale \subseteq Archive
  /\ avatar \in BOOLEAN
  /\ g \in [Worker -> Work]
  /\ \A w \in Worker : g[w] = Idle \/ (g[w].pc # "idle" /\ g[w].a # None)
  /\ r \in [Request -> [pc : {"idle", "has", "push", "poll"}, a : Archive \cup {None}]]
  /\ \A q \in Request : r[q].pc = "idle" <=> r[q].a = None
  /\ cleanup \in [pc : {"idle", "row", "file"}, a : Archive \cup {None},
                  todo : SUBSET Archive, same : SUBSET Archive]
  /\ delete \subseteq Archive
  /\ cleanups \in 0 .. Cleanups /\ disturbances \in 0 .. Disturbances
  /\ missed \subseteq Request /\ overtaken \subseteq Archive /\ leaked \subseteq Archive

(* A row that says the archive is ready has its file, however requests,    *)
(* workers, failures and crashes meet, unless a cron task removed the file *)
(* of a row it had deleted before when a new row, or a transaction that    *)
(* had found or made the file, relied on it (archiver.go:189-217, 333-342, *)
(* 376-381).                                                               *)
BrokenNeedsCleaner == \A a \in row : a \in file \/ a \in overtaken

(* A file without a row is being worked on, or will be removed, or was     *)
(* left by a failure, a crash, or an attempt that began with a row that a  *)
(* cron task has deleted since (archiver.go:269-285, 333-342).             *)
LeftoverNeedsInterruption ==
  \A a \in file \ row :
    \/ a \in leaked \/ a \in delete \/ cleanup.a = a
    \/ \E w \in Worker : g[w].a = a

(* Who waits for an archive finds its row, or it is in the queue or being  *)
(* made, or the wait has been let down: by an attempt that failed, or by a *)
(* queue that says it has what it has not.  The safety half of AwaitEnds.  *)
PolledIsServed ==
  \A q \in Request : r[q].pc = "poll" =>
    \/ r[q].a \in row \cup queue \cup stale
    \/ \E w \in Worker : g[w].a = r[q].a
    \/ q \in missed

(* The inductive invariant of the proofs: a row has its file, or has been  *)
(* overtaken, already when a transaction is about to commit it, and the    *)
(* cron task has an archive in hand only between its row and its file.     *)
ReliedHaveFile == \A a \in Archive : Relied(a) => a \in file \cup overtaken
InHand         == cleanup.pc # "file" => cleanup.a = None

ArchiverInv ==
  /\ TypeOK /\ InHand
  /\ ReliedHaveFile /\ LeftoverNeedsInterruption /\ PolledIsServed

(* "an archiver process will be started and its completion awaited": who   *)
(* waits is answered, or has been let down by an attempt that left no row, *)
(* which is not tried again, or by a stale entry of the unique queue; the  *)
(* attempts of others do not matter, though two of them may insert the     *)
(* same row (archiver.go:132-173, 321-331).                                *)
AwaitEnds ==
  \A q \in Request :
    r[q].pc = "poll" ~> r[q].pc # "poll" \/ q \in missed \/ r[q].a \in stale

(* "check the requested storage types for "orphaned" stored object/files   *)
(* and optionally delete them" (modules/doctor/storage.go:92): the avatar  *)
(* of a repository is none.                                                *)
AvatarKept == avatar
=============================================================================
