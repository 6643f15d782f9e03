---------------------------- MODULE HookDelivery ----------------------------
(***************************************************************************)
(* services/webhook: the hook tasks in the database, the requests that     *)
(* create them, the queue "webhook_sender" of each process, its workers    *)
(* that deliver them, the goroutine that fills it at the start, the cron   *)
(* task that cleans the table, and processes that are restarted, hammered  *)
(* or killed.  A database statement is one step, a transaction too; what a *)
(* goroutine has read it keeps.  The queue is a set of accepted tasks,     *)
(* lost with the process unless it is persistent, and those that the       *)
(* unique queue believes to have and has not.                              *)
(***************************************************************************)
EXTENDS Integers, FiniteSets

CONSTANTS
  MaxTask,      \* bound: the hook tasks ever created
  Hook,         \* the webhooks
  Edited,       \* those whose settings are edited
  Processes,    \* bound: processes that run one after the other, or overlap in a graceful restart;
                \* the last does not end
  Worker,       \* the workers of all processes
  Home,         \* the process of a worker
  Requester,    \* requests that trigger webhooks
  BatchSize,    \* of FindUndeliveredHookTaskIDs
  NumberToKeep, \* of the clean-up per webhook
  Persistence,  \* whether the queue outlives the process
  Disturbances, \* bound: crashes, failed pushes and updates, entries of the queue left behind,
                \* changes of webhooks and clean-ups
  None

Task    == 1 .. MaxTask
Process == 1 .. Processes
Outcome == {"none", "succeed", "fail"}
Row     == [hook : Hook, delivered : BOOLEAN, stamp : Nat, outcome : Outcome]

ASSUME ConstantsAssumption ==
  /\ MaxTask \in Nat /\ Processes \in Nat \ {0} /\ Disturbances \in Nat
  /\ BatchSize \in Nat \ {0} /\ NumberToKeep \in Nat
  /\ Home \in [Worker -> Process] /\ Edited \subseteq Hook
  /\ Persistence \subseteq BOOLEAN
  /\ None \notin Row \cup Outcome

VARIABLES
  persistent,  \* the type of the queue
  hook,        \* the webhook table: "active", "inactive" or "deleted"
  last,        \* Webhook.LastStatus
  edit,        \* a request that edits a webhook: the status it has read, or None
  row,         \* the hook_task table
  nextId,      \* its next ID
  phase,       \* of each process
  queue,       \* what the queue of each process holds; that of the first, if it is persistent
  stale,       \* the tasks that its set has, but it has not
  populate,    \* populateWebhookSendingQueue of each process
  g,           \* what each worker is doing
  r,           \* what each request is doing
  disturbances,
  sent,        \* history: the requests sent for each task
  dropped,     \* history: tasks given up undelivered since the last start
  torn         \* history: tasks whose outcome was lost with the process, or not stored

tables  == << hook, last, edit, row, nextId >>
process == << phase, queue, stale, populate >>
history == << sent, dropped, torn >>
vars    == << persistent, tables, process, g, r, disturbances, history >>

Idle     == [pc |-> "idle", batch |-> {}, t |-> 0, h |-> None, active |-> FALSE, ok |-> FALSE]
NotBegun == [todo |-> {}, lower |-> 0, ended |-> FALSE]
Quiet    == [pc |-> "idle", p |-> 1, todo |-> {}, t |-> 0]

Init ==
  /\ persistent \in Persistence
  /\ hook = [h \in Hook |-> "active"]
  /\ last = [h \in Hook |-> "none"]
  /\ edit = [h \in Hook |-> None]
  /\ row = [t \in Task |-> None]
  /\ nextId = 1
  /\ phase = [p \in Process |-> IF p = 1 THEN "up" ELSE "new"]
  /\ queue = [p \in Process |-> {}]
  /\ stale = [p \in Process |-> {}]
  /\ populate = [p \in Process |-> NotBegun]
  /\ g = [w \in Worker |-> Idle]
  /\ r = [q \in Requester |-> Quiet]
  /\ disturbances = 0
  /\ sent = [t \in Task |-> 0]
  /\ dropped = {}
  /\ torn = {}

-----------------------------------------------------------------------------
(* Building blocks. *)

Store(p) == IF persistent THEN 1 ELSE p

(* The unique queue refuses what its set has, and enqueueHookTask takes    *)
(* that for success: a task whose entry has outlived the item is given up. *)
Enqueue(p, t) ==
  IF t \in stale[Store(p)]
    THEN dropped' = dropped \cup {t} /\ UNCHANGED queue
    ELSE queue' = [queue EXCEPT ![Store(p)] = @ \cup {t}] /\ UNCHANGED dropped

Disturb  == disturbances < Disturbances /\ disturbances' = disturbances + 1

(* A push that fails in redis may leave its entry in the set.              *)
LeftBehind(p, t) ==
  \/ UNCHANGED stale
  \/ persistent /\ t \notin queue[Store(p)] /\ stale' = [stale EXCEPT ![Store(p)] = @ \cup {t}]

Hammered(w) == phase[Home[w]] = "hammered"
Alive(p) == phase[p] \in {"up", "stopping", "hammered"}
Exists(t) == row[t] # None
Undelivered(t) == Exists(t) /\ ~row[t].delivered

(* The time, as far as the stamps in the table tell it apart: one value.   *)
Stamps == {0} \cup {row[t].stamp : t \in {s \in Task : Exists(s)}}
Clock  == {n + 1 : n \in {m \in Stamps : \A k \in Stamps : k <= m}}

At(w, pc)   == g[w].pc = pc /\ Alive(Home[w])
Goto(w, pc) == g' = [g EXCEPT ![w].pc = pc]

(* The worker goes on with the next task of its batch. *)
NextTask(w) == g' = [g EXCEPT ![w] = [Idle EXCEPT !.batch = g[w].batch]]
GiveUp(w)   == NextTask(w) /\ dropped' = dropped \cup {g[w].t}

-----------------------------------------------------------------------------
(* Requests. *)

(* PrepareWebhooks lists the active webhooks; S are those the event is for. *)
PrepareWebhooks(q, p) ==
  /\ r[q] = Quiet
  /\ phase[p] \in {"up", "stopping"}
  /\ \E S \in SUBSET {h \in Hook : hook[h] = "active"} :
       S # {} /\ r' = [r EXCEPT ![q] = [pc |-> "create", p |-> p, todo |-> S, t |-> 0]]
  /\ UNCHANGED << persistent, tables, process, g, disturbances, history >>

(* A test delivery, or ReplayHookTask: of one webhook, active or not. *)
TestWebhook(q, p) ==
  /\ r[q] = Quiet
  /\ phase[p] \in {"up", "stopping"}
  /\ \E h \in Hook :
       hook[h] # "deleted" /\ r' = [r EXCEPT ![q] = [pc |-> "create", p |-> p, todo |-> {h}, t |-> 0]]
  /\ UNCHANGED << persistent, tables, process, g, disturbances, history >>

NewTask(h, now) == [hook |-> h, delivered |-> FALSE, stamp |-> now, outcome |-> "none"]

CreateHookTask(q) ==
  /\ r[q].pc = "create"
  /\ nextId \in Task
  /\ \E h \in r[q].todo, now \in Clock :
       /\ row' = [row EXCEPT ![nextId] = NewTask(h, now)]
       /\ r' = [r EXCEPT ![q].pc = "push", ![q].todo = @ \ {h}, ![q].t = nextId]
  /\ nextId' = nextId + 1
  /\ UNCHANGED << persistent, hook, last, edit, process, g, disturbances, history >>

(* enqueueHookTask; its error ends PrepareWebhooks before the other webhooks. *)
EnqueueHookTask(q) ==
  /\ r[q].pc = "push"
  /\ Enqueue(r[q].p, r[q].t)
  /\ r' = [r EXCEPT ![q] = IF @.todo = {} THEN Quiet ELSE [@ EXCEPT !.pc = "create", !.t = 0]]
  /\ UNCHANGED << persistent, tables, phase, stale, populate, g, disturbances, sent, torn >>

EnqueueFails(q) ==
  /\ r[q].pc = "push"
  /\ IF phase[r[q].p] = "up" THEN Disturb ELSE UNCHANGED disturbances
  /\ LeftBehind(r[q].p, r[q].t)
  /\ dropped' = dropped \cup {r[q].t}
  /\ r' = [r EXCEPT ![q] = Quiet]
  /\ UNCHANGED << persistent, tables, phase, queue, populate, g, sent, torn >>

-----------------------------------------------------------------------------
(* populateWebhookSendingQueue. *)

Populating(p) == phase[p] = "up" /\ ~populate[p].ended

FindUndelivered_OffByOne(lower) ==
  LET all == {t \in Task : Undelivered(t) /\ t > lower + 1} IN
  {t \in all : Cardinality({s \in all : s < t}) < BatchSize}

(* The next BatchSize undelivered tasks above lowerID. *)
FindUndelivered(lower) ==
  LET all == {t \in Task : Undelivered(t) /\ t > lower} IN
  {t \in all : Cardinality({s \in all : s < t}) < BatchSize}

(* What it has not pushed yet. *)
Unpushed(p) ==
  IF Populating(p) THEN {t \in Task : Undelivered(t) /\ (t \in populate[p].todo \/ t > populate[p].lower)} ELSE {}

PopulateFinds(p) ==
  LET ids == FindUndelivered(populate[p].lower) IN
  /\ Populating(p)
  /\ populate[p].todo = {}
  /\ \/ ids = {} /\ populate' = [populate EXCEPT ![p] = [NotBegun EXCEPT !.ended = TRUE]]
     \/ \E top \in ids :
          /\ \A t \in ids : t <= top
          /\ populate' = [populate EXCEPT ![p].todo = ids, ![p].lower = top]
  /\ UNCHANGED << persistent, tables, phase, queue, stale, g, r, disturbances, history >>

FindFails(p) ==
  /\ Populating(p)
  /\ populate[p].todo = {}
  /\ Disturb
  /\ populate' = [populate EXCEPT ![p] = [NotBegun EXCEPT !.ended = TRUE]]
  /\ dropped' = dropped \cup Unpushed(p)
  /\ UNCHANGED << persistent, tables, phase, queue, stale, g, r, sent, torn >>

PopulatePushes(p) ==
  /\ Populating(p)
  /\ \E t \in populate[p].todo :
       /\ \A s \in populate[p].todo : t <= s
       /\ populate' = [populate EXCEPT ![p].todo = @ \ {t}]
       /\ \/ Enqueue(p, t) /\ UNCHANGED << disturbances, stale >>
          \/ Disturb /\ LeftBehind(p, t) /\ dropped' = dropped \cup {t} /\ UNCHANGED queue
  /\ UNCHANGED << persistent, tables, phase, g, r, sent, torn >>

-----------------------------------------------------------------------------
(* The handler of the queue, and Deliver. *)

(* The popper takes a task from the list and then from the set: it may fail *)
(* in between, or come before the push has made the entry.                  *)
HandlerTakes(w) ==
  /\ g[w] = Idle
  /\ phase[Home[w]] \in {"up", "stopping"}
  /\ \E S \in SUBSET queue[Store(Home[w])] :
       /\ S # {}
       /\ g' = [g EXCEPT ![w].batch = S]
       /\ queue' = [queue EXCEPT ![Store(Home[w])] = @ \ S]
       /\ \/ UNCHANGED << stale, disturbances >>
          \/ Disturb /\ \E t \in S : stale' = [stale EXCEPT ![Store(Home[w])] = @ \cup {t}]
  /\ UNCHANGED << persistent, tables, phase, populate, r, history >>

(* LPOP has taken the task, but its answer is lost, and PopItem tries again. *)
PopFails(p) ==
  /\ persistent /\ phase[p] \in {"up", "stopping"}
  /\ Disturb
  /\ \E t \in queue[1] :
       /\ queue' = [queue EXCEPT ![1] = @ \ {t}]
       /\ stale' = [stale EXCEPT ![1] = @ \cup {t}]
       /\ dropped' = dropped \cup {t}
  /\ UNCHANGED << persistent, tables, phase, populate, g, r, sent, torn >>

(* GetHookTaskByID, and GetWebhookByID at the start of Deliver.  A task that *)
(* is gone or delivered is skipped; it stays undelivered without a webhook, *)
(* if the request cannot be made, or when the hammer context is done.  What *)
(* happens between the two reads has the same end as if it came first.      *)
Readable(t) == hook[row[t].hook] # "deleted"
Skip(w, t)  == g' = [g EXCEPT ![w].batch = @ \ {t}]
GetHookTask(w) ==
  /\ At(w, "idle")
  /\ \E t \in g[w].batch :
       \/ /\ ~Undelivered(t)
          /\ Skip(w, t) /\ UNCHANGED << disturbances, dropped >>
       \/ /\ Undelivered(t)
          /\ IF Hammered(w) \/ ~Readable(t) THEN UNCHANGED disturbances ELSE Disturb
          /\ Skip(w, t) /\ dropped' = dropped \cup {t}
       \/ /\ Undelivered(t) /\ ~Hammered(w) /\ Readable(t)
          /\ g' = [g EXCEPT ![w] = [pc |-> "mark", batch |-> @.batch \ {t}, t |-> t, h |-> row[t].hook,
                                    active |-> hook[row[t].hook] = "active", ok |-> FALSE]]
          /\ UNCHANGED << disturbances, dropped >>
  /\ UNCHANGED << persistent, tables, process, r, sent, torn >>

MayMark_Unchecked(t) == Exists(t)
MayMark(t) == Undelivered(t)

(* MarkTaskDelivered: an update of a task that is still undelivered. *)
MarkTaskDelivered(w) ==
  LET t == g[w].t IN
  /\ At(w, "mark")
  /\ ~Hammered(w)
  /\ IF MayMark(t)
       THEN /\ row' = [row EXCEPT ![t].delivered = TRUE]
            /\ dropped' = dropped \ {t}
            /\ Goto(w, "send")
       ELSE NextTask(w) /\ UNCHANGED << row, dropped >>
  /\ UNCHANGED << persistent, hook, last, edit, nextId, process, r, disturbances, sent, torn >>

(* An update that fails may have been executed all the same.               *)
MarkFails(w) ==
  LET t == g[w].t IN
  /\ At(w, "mark")
  /\ IF Hammered(w) THEN UNCHANGED disturbances ELSE Disturb
  /\ \/ UNCHANGED << row, torn >>
     \/ MayMark(t) /\ row' = [row EXCEPT ![t].delivered = TRUE] /\ torn' = torn \cup {t}
  /\ GiveUp(w)
  /\ UNCHANGED << persistent, hook, last, edit, nextId, process, r, sent >>

(* Nothing is sent if the webhook was not active; otherwise the request     *)
(* goes out, or not (webhooks disabled, no connection, hammered), and is    *)
(* answered well or not.                                                    *)
Answered_Unrecorded(w, ok) ==
  IF ok THEN g' = [g EXCEPT ![w].pc = "record", ![w].active = FALSE, ![w].ok = ok] ELSE NextTask(w)
Answered(w, ok) == g' = [g EXCEPT ![w].pc = "record", ![w].active = FALSE, ![w].ok = ok]
Do(w) ==
  LET t == g[w].t IN
  /\ At(w, "send")
  /\ \/ /\ g[w].active /\ ~Hammered(w)
        /\ sent' = [sent EXCEPT ![t] = @ + 1]
        /\ \E ok \in BOOLEAN : Answered(w, ok)
     \/ Answered(w, FALSE) /\ UNCHANGED sent
  /\ UNCHANGED << persistent, tables, process, r, disturbances, dropped, torn >>

Result(w) == IF g[w].ok THEN "succeed" ELSE "fail"

(* The deferred UpdateHookTask writes all columns, if the row still exists; *)
(* when the hammer context is done it fails, as the database is of it.      *)
UpdateHookTask(w) ==
  LET t == g[w].t IN
  /\ At(w, "record")
  /\ \/ /\ \E now \in Clock :
             row' = IF Exists(t) THEN [row EXCEPT ![t].stamp = now, ![t].outcome = Result(w)] ELSE row
        /\ UNCHANGED << disturbances, torn >>
     \/ /\ IF Hammered(w) THEN UNCHANGED disturbances ELSE Disturb
        /\ torn' = torn \cup {t}
        /\ UNCHANGED row
  /\ Goto(w, "status")
  /\ UNCHANGED << persistent, hook, last, edit, nextId, process, r, sent, dropped >>

UpdateWebhookLastStatus(w) ==
  /\ At(w, "status")
  /\ \/ last' = IF hook[g[w].h] = "deleted" THEN last ELSE [last EXCEPT ![g[w].h] = Result(w)]
     \/ Hammered(w) /\ UNCHANGED last
  /\ NextTask(w)
  /\ UNCHANGED << persistent, hook, edit, row, nextId, process, r, disturbances, history >>

-----------------------------------------------------------------------------
(* Administration. *)

(* A request reads a webhook, and writes all its columns, the status too.  *)
EditWebhook(h) ==
  /\ Disturb
  /\ hook[h] # "deleted" /\ edit[h] = None
  /\ edit' = [edit EXCEPT ![h] = last[h]]
  /\ UNCHANGED << persistent, hook, last, row, nextId, process, g, r, history >>

UpdateWebhook(h) ==
  /\ edit[h] # None
  /\ IF hook[h] = "deleted" THEN UNCHANGED << hook, last >>
     ELSE /\ \E active \in {"active", "inactive"} : hook' = [hook EXCEPT ![h] = active]
          /\ last' = [last EXCEPT ![h] = edit[h]]
  /\ edit' = [edit EXCEPT ![h] = None]
  /\ UNCHANGED << persistent, row, nextId, process, g, r, disturbances, history >>

(* DeleteWebhookByID: a transaction. *)
DeleteWebhook(h) ==
  /\ Disturb
  /\ hook[h] # "deleted"
  /\ hook' = [hook EXCEPT ![h] = "deleted"]
  /\ row' = [t \in Task |-> IF Exists(t) /\ row[t].hook = h THEN None ELSE row[t]]
  /\ UNCHANGED << persistent, last, edit, nextId, process, g, r, history >>

Old(t, limit) == Exists(t) /\ row[t].delivered /\ row[t].stamp <= limit
Remove(S) == row' = [t \in Task |-> IF t \in S THEN None ELSE row[t]]

(* CleanupHookTaskTable by age: whatever the age. *)
CleanupOlderThan ==
  /\ Disturb
  /\ \E limit \in Stamps :
       {t \in Task : Old(t, limit)} # {} /\ Remove({t \in Task : Old(t, limit)})
  /\ UNCHANGED << persistent, hook, last, edit, nextId, process, g, r, history >>

(* ... and per webhook: as old as the first delivery not to keep.  A       *)
(* delivery between its two statements only leaves more of them.           *)
DeliveriesOf(h) == {t \in Task : Exists(t) /\ row[t].hook = h /\ row[t].delivered}
CleanupPerWebhook(h) ==
  /\ Disturb
  /\ hook[h] # "deleted"
  /\ \E limit \in DeliveriesOf(h) :
       /\ Cardinality({t \in DeliveriesOf(h) : row[t].stamp > row[limit].stamp}) = NumberToKeep
       /\ Remove({t \in DeliveriesOf(h) : Old(t, row[limit].stamp)})
  /\ UNCHANGED << persistent, hook, last, edit, nextId, process, g, r, history >>

-----------------------------------------------------------------------------
(* Processes. *)

(* A process starts when the one before it has begun to stop, or has died. *)
Start(p) ==
  /\ phase[p] = "new"
  /\ p > 1 /\ phase[p - 1] \notin {"new", "up"}
  /\ phase' = [phase EXCEPT ![p] = "up"]
  /\ dropped' = {}
  /\ UNCHANGED << persistent, tables, queue, stale, populate, g, r, disturbances, sent, torn >>

Shutdown(p) ==
  /\ phase[p] = "up"
  /\ p < Processes
  /\ phase' = [phase EXCEPT ![p] = "stopping"]
  /\ dropped' = dropped \cup Unpushed(p)
  /\ populate' = [populate EXCEPT ![p] = NotBegun]
  /\ UNCHANGED << persistent, tables, queue, stale, g, r, disturbances, sent, torn >>

Hammer(p) ==
  /\ phase[p] = "stopping"
  /\ phase' = [phase EXCEPT ![p] = "hammered"]
  /\ UNCHANGED << persistent, tables, queue, stale, populate, g, r, disturbances, history >>

WorkersOf(p)   == {w \in Worker : Home[w] = p}
RequestsOf(p)  == {q \in Requester : r[q] # Quiet /\ r[q].p = p}
Unmarked(w)    == g[w].batch \cup (IF g[w].pc = "mark" THEN {g[w].t} ELSE {})
InFlight(w)    == IF g[w].pc \in {"send", "record"} THEN {g[w].t} ELSE {}

(* The process is gone, with all it had in memory; L is what it leaves in  *)
(* the set alone: the task of a call of redis that was under way.          *)
Gone(p, L) ==
  /\ phase' = [phase EXCEPT ![p] = "off"]
  /\ queue' = IF persistent THEN [queue EXCEPT ![1] = @ \ L] ELSE [queue EXCEPT ![p] = {}]
  /\ stale' = IF persistent THEN [stale EXCEPT ![1] = @ \cup L] ELSE [stale EXCEPT ![p] = {}]
  /\ dropped' = dropped \cup L \cup {t \in Task : Undelivered(t) /\
                    \/ t \in Unpushed(p) \/ (t \in queue[p] /\ ~persistent)
                    \/ \E w \in WorkersOf(p) : t \in Unmarked(w)
                    \/ \E q \in RequestsOf(p) : t = r[q].t}
  /\ torn' = torn \cup UNION {InFlight(w) : w \in WorkersOf(p)}
  /\ g' = [w \in Worker |-> IF Home[w] = p THEN Idle ELSE g[w]]
  /\ r' = [q \in Requester |-> IF q \in RequestsOf(p) THEN Quiet ELSE r[q]]
  /\ populate' = [populate EXCEPT ![p] = NotBegun]
  /\ UNCHANGED << persistent, tables, sent >>

Pushing(p)     == {r[q].t : q \in {q \in RequestsOf(p) : r[q].pc = "push"}} \cup populate[p].todo
Interrupted(p) == {{}} \cup {{t} : t \in queue[1] \cup Pushing(p)}

(* It ends when all have finished, or when it is hammered. *)
End(p) ==
  /\ \/ /\ phase[p] = "stopping" /\ RequestsOf(p) = {} /\ \A w \in WorkersOf(p) : g[w] = Idle
        /\ Gone(p, {})
     \/ /\ phase[p] = "hammered"
        /\ \E L \in Interrupted(p) : Gone(p, L)
  /\ UNCHANGED disturbances

Crash(p) ==
  /\ Alive(p)
  /\ p < Processes
  /\ Disturb
  /\ \E L \in Interrupted(p) : Gone(p, L)

-----------------------------------------------------------------------------
Request(q)  == CreateHookTask(q) \/ EnqueueHookTask(q) \/ EnqueueFails(q)
Populate(p) == PopulateFinds(p) \/ FindFails(p) \/ PopulatePushes(p)
Handle(w) ==
  \/ HandlerTakes(w) \/ GetHookTask(w) \/ MarkTaskDelivered(w) \/ MarkFails(w)
  \/ Do(w) \/ UpdateHookTask(w) \/ UpdateWebhookLastStatus(w)

Next ==
  \/ \E q \in Requester : Request(q) \/ \E p \in Process : PrepareWebhooks(q, p) \/ TestWebhook(q, p)
  \/ \E p \in Process : Populate(p) \/ PopFails(p)
  \/ \E w \in Worker : Handle(w)
  \/ \E h \in Edited : EditWebhook(h) \/ UpdateWebhook(h)
  \/ \E h \in Hook : DeleteWebhook(h) \/ CleanupPerWebhook(h)
  \/ CleanupOlderThan
  \/ \E p \in Process : Start(p) \/ Shutdown(p) \/ Hammer(p) \/ End(p) \/ Crash(p)

Spec == Init /\ [][Next]_vars

(* The goroutines of a process run, and one that is shut down ends, at the *)
(* latest when it is hammered; nothing else has to happen.                 *)
Fairness ==
  /\ \A w \in Worker : WF_vars(Handle(w))
  /\ \A p \in Process : WF_vars(Populate(p)) /\ WF_vars(Hammer(p) \/ End(p))
  /\ \A q \in Requester : WF_vars(EnqueueHookTask(q) \/ EnqueueFails(q))

LiveSpec == Spec /\ Fairness

-----------------------------------------------------------------------------
(* Properties. *)

(* Every variable keeps its type, the IDs handed out are those below       *)
(* nextId, and a goroutine past its first step holds one of them.          *)
WorkerPc == {"idle", "mark", "send", "record", "status"}
TypeOK ==
  /\ persistent \in BOOLEAN
  /\ hook \in [Hook -> {"active", "inactive", "deleted"}]
  /\ last \in [Hook -> Outcome] /\ edit \in [Hook -> Outcome \cup {None}]
  /\ row \in [Task -> Row \cup {None}]
  /\ nextId \in 1 .. MaxTask + 1
  /\ phase \in [Process -> {"new", "up", "stopping", "hammered", "off"}]
  /\ queue \in [Process -> SUBSET (1 .. nextId - 1)]
  /\ stale \in [Process -> SUBSET (1 .. nextId - 1)]
  /\ populate \in [Process -> [todo : SUBSET (1 .. nextId - 1), lower : 0 .. nextId - 1, ended : BOOLEAN]]
  /\ g \in [Worker -> [pc : WorkerPc, batch : SUBSET (1 .. nextId - 1), t : 0 .. nextId - 1,
                       h : Hook \cup {None}, active : BOOLEAN, ok : BOOLEAN]]
  /\ \A w \in Worker : g[w].pc # "idle" => g[w].t # 0 /\ g[w].h \in Hook
  /\ r \in [Requester -> [pc : {"idle", "create", "push"}, p : Process, todo : SUBSET Hook, t : 0 .. nextId - 1]]
  /\ \A q \in Requester : r[q].pc = "push" => r[q].t # 0
  /\ \A t \in Task : Exists(t) => t < nextId
  /\ disturbances \in 0 .. Disturbances
  /\ sent \in [Task -> Nat]
  /\ dropped \subseteq 1 .. nextId - 1
  /\ torn \subseteq 1 .. nextId - 1

(* "we must double check that it has not been delivered in the meantime":  *)
(* however often a task is queued, by requests, by the start of this and   *)
(* of other processes, and whoever crashes when, it is sent at most once   *)
(* (deliver.go:163-174).                                                   *)
SentAtMostOnce == \A t \in Task : sent[t] <= 1

(* An undelivered task is in a queue that will be handled, with a worker,  *)
(* about to be pushed, or still to be found by the start of a process; or  *)
(* it was given up, for a reason named in an action, since the last start  *)
(* (webhook.go:97-128, deliver.go:300-328).                                *)
Owed(t) ==
  \/ \E p \in Process : t \in queue[p] \/ t \in Unpushed(p)
  \/ \E w \in Worker : t \in Unmarked(w)
  \/ \E q \in Requester : r[q].pc = "push" /\ r[q].t = t
UndeliveredIsOwed == \A t \in Task : Undelivered(t) => Owed(t) \/ t \in dropped

(* A task marked as delivered has its outcome, unless it is being sent or  *)
(* the outcome was lost with its process or with a failed update           *)
(* (deliver.go:176-200).                                                   *)
DeliveredHasOutcome ==
  \A t \in Task : Exists(t) /\ row[t].delivered /\ row[t].outcome = "none"
                    => t \in torn \/ \E w \in Worker : t \in InFlight(w)

(* A task that is not given up is marked as delivered, or deleted, as long *)
(* as a process runs.                                                      *)
EventuallyDelivered ==
  \A t \in Task : Undelivered(t) ~> ~Undelivered(t) \/ t \in dropped \/ \A p \in Process : phase[p] # "up"

(* "how long ago hook_task record was delivered", "keep the most recent x  *)
(* deliveries" (config-cheat-sheet.en-us.md:943-945): the clean-up leaves  *)
(* the tasks that are being delivered; only a deleted webhook takes them.  *)
FlightsKept ==
  \A w \in Worker : \A t \in InFlight(w) : Exists(t) \/ hook[g[w].h] = "deleted"

(* "Last delivery status" (models/webhook/webhook.go:136): when no worker  *)
(* is about to set it, the status of a webhook is the outcome of the most  *)
(* recent of its deliveries in the table.                                  *)
Ended(h) == {t \in DeliveriesOf(h) : row[t].outcome # "none"}
LastIsNewest ==
  \A h \in Hook, t \in Task :
    /\ t \in Ended(h) /\ (\A s \in Ended(h) : row[s].stamp <= row[t].stamp)
    /\ \A w \in Worker : g[w].pc # "status"
    => last[h] = row[t].outcome
=============================================================================
