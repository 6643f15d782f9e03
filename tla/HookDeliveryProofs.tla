-------------------------- MODULE HookDeliveryProofs --------------------------
(***************************************************************************)
(* Proofs about HookDelivery, for every number of tasks, processes,        *)
(* workers, webhooks and disturbances: the type invariant; then Once (who  *)
(* sends a task has it to himself), the start of a process (Fresh) with    *)
(* what it owes, and the outcomes.  Each has one step per action.          *)
(***************************************************************************)
EXTENDS HookDelivery, FiniteSetTheorems, TLAPS

Known    == 1 .. nextId - 1
Work     == [pc : WorkerPc, batch : SUBSET Known, t : 0 .. nextId - 1,
             h : Hook \cup {None}, active : BOOLEAN, ok : BOOLEAN]
Req      == [pc : {"idle", "create", "push"}, p : Process, todo : SUBSET Hook, t : 0 .. nextId - 1]
Progress == [todo : SUBSET Known, lower : 0 .. nextId - 1, ended : BOOLEAN]
Administration ==
  \/ \E h \in Hook : EditWebhook(h) \/ UpdateWebhook(h) \/ DeleteWebhook(h) \/ CleanupPerWebhook(h)
  \/ CleanupOlderThan
Phase    == {"new", "up", "stopping", "hammered", "off"}

(***************************************************************************)
(* The constants, and the values the goroutines start with.                *)
(***************************************************************************)
LEMMA Constants ==
  /\ MaxTask \in Nat /\ Processes \in Nat \ {0} /\ Disturbances \in Nat
  /\ BatchSize \in Nat \ {0} /\ NumberToKeep \in Nat
  /\ 1 \in Process /\ Process \subseteq Nat /\ Task \subseteq Nat
BY ConstantsAssumption DEF ConstantsAssumption, Process, Task

LEMMA HomeType == \A w \in Worker : Home[w] \in Process
BY ConstantsAssumption DEF ConstantsAssumption

LEMMA NoneIsNot == None \notin Row /\ None \notin Outcome
BY ConstantsAssumption DEF ConstantsAssumption

LEMMA EditedAreHooks == Edited \subseteq Hook /\ Persistence \subseteq BOOLEAN
BY ConstantsAssumption DEF ConstantsAssumption

USE Constants

LEMMA ClockType ==
  ASSUME TypeOK
  PROVE  Clock \subseteq Nat
BY DEF TypeOK, Clock, Stamps, Row, Exists

LEMMA InitType == Init => TypeOK
<1> SUFFICES ASSUME Init PROVE TypeOK
  OBVIOUS
<1>1. g \in [Worker -> [pc : WorkerPc, batch : SUBSET (1 .. nextId - 1), t : 0 .. nextId - 1,
                       h : Hook \cup {None}, active : BOOLEAN, ok : BOOLEAN]]
      /\ \A w \in Worker : g[w].pc = "idle"
  BY DEF Init, Idle, WorkerPc
<1>2. /\ r \in [Requester -> [pc : {"idle", "create", "push"}, p : Process, todo : SUBSET Hook, t : 0 .. nextId - 1]]
      /\ \A q \in Requester : r[q].pc = "idle"
  BY DEF Init, Quiet
<1>3. populate \in [Process -> [todo : SUBSET (1 .. nextId - 1), lower : 0 .. nextId - 1, ended : BOOLEAN]]
  BY DEF Init, NotBegun
<1>4. /\ hook \in [Hook -> {"active", "inactive", "deleted"}]
      /\ last \in [Hook -> Outcome] /\ edit \in [Hook -> Outcome \cup {None}]
      /\ row \in [Task -> Row \cup {None}] /\ \A t \in Task : ~Exists(t)
      /\ phase \in [Process -> Phase]
      /\ queue \in [Process -> SUBSET (1 .. nextId - 1)]
      /\ stale \in [Process -> SUBSET (1 .. nextId - 1)]
      /\ sent \in [Task -> Nat]
  BY DEF Init, Outcome, Exists, Phase
<1> QED BY <1>1, <1>2, <1>3, <1>4, EditedAreHooks DEF Init, TypeOK, Phase

(***************************************************************************)
(* What the records of TypeOK hold.                                        *)
(***************************************************************************)
LEMMA Numbers ==
  ASSUME TypeOK
  PROVE  nextId \in Nat \ {0} /\ 0 \in 0 .. nextId - 1
BY DEF TypeOK

LEMMA KnownTasks ==
  ASSUME TypeOK
  PROVE  Known \subseteq Task
BY DEF TypeOK, Known, Task

LEMMA StoreType == \A p \in Process : Store(p) \in Process
BY DEF Store

LEMMA QuietType ==
  ASSUME TypeOK
  PROVE  Quiet \in Req /\ Quiet.pc = "idle"
BY Numbers DEF Quiet, Req

LEMMA NotBegunType ==
  ASSUME TypeOK, NEW b \in BOOLEAN
  PROVE  NotBegun \in Progress /\ [NotBegun EXCEPT !.ended = b] \in Progress
<1>1. NotBegun = [todo |-> {}, lower |-> 0, ended |-> FALSE]
  BY DEF NotBegun
<1>2. [NotBegun EXCEPT !.ended = b] = [todo |-> {}, lower |-> 0, ended |-> b]
  BY <1>1
<1> QED BY <1>1, <1>2, Numbers DEF Progress

LEMMA IdleType ==
  ASSUME TypeOK
  PROVE  Idle \in Work /\ Idle.pc = "idle"
BY Numbers DEF Idle, Work, WorkerPc

LEMMA WorkOf ==
  ASSUME TypeOK, NEW w \in Worker
  PROVE  /\ g[w] \in Work
         /\ g[w].pc # "idle" => g[w].t \in Known /\ g[w].t \in Task /\ g[w].h \in Hook
BY DEF TypeOK, Work, Known, Task

LEMMA RowOf ==
  ASSUME TypeOK, NEW t \in Task, Exists(t)
  PROVE  row[t] \in Row /\ t \in Known
BY DEF TypeOK, Exists, Known, Task

(* What is left unchanged keeps its type.                                  *)
LEMMA GoroutineType ==
  ASSUME TypeOK, NEW w \in Worker, NEW x \in Work, g' = [g EXCEPT ![w] = x],
         x.pc # "idle" => x.t # 0 /\ x.h \in Hook,
         UNCHANGED << persistent, hook, last, edit, nextId, phase, populate, r >>,
         row' \in [Task -> Row \cup {None}],
         \A t \in Task : Exists(t)' => Exists(t),
         queue' \in [Process -> SUBSET Known],
         stale' \in [Process -> SUBSET Known],
         disturbances' \in 0 .. Disturbances,
         sent' \in [Task -> Nat],
         dropped' \subseteq Known, torn' \subseteq Known
  PROVE  TypeOK'
<1>1. /\ g' \in [Worker -> Work]
      /\ \A v \in Worker : g'[v].pc # "idle" => g'[v].t # 0 /\ g'[v].h \in Hook
  BY DEF TypeOK, Work, Known
<1>2. Known' = Known
  BY DEF Known
<1> QED BY <1>1, <1>2 DEF TypeOK, Work, Known
(***************************************************************************)
(* The type invariant.                                                     *)
(***************************************************************************)
LEMMA EnqueueType ==
  ASSUME TypeOK, NEW p \in Process, NEW t \in Known, Enqueue(p, t)
  PROVE  queue' \in [Process -> SUBSET Known] /\ dropped' \subseteq Known
<1>1. Store(p) \in Process /\ queue \in [Process -> SUBSET Known] /\ dropped \subseteq Known
  BY StoreType DEF TypeOK, Known
<1> QED BY <1>1 DEF Enqueue

LEMMA LeftBehindType ==
  ASSUME TypeOK, NEW p \in Process, NEW t \in Known, LeftBehind(p, t)
  PROVE  stale' \in [Process -> SUBSET Known]
<1>1. Store(p) \in Process /\ stale \in [Process -> SUBSET Known]
  BY StoreType DEF TypeOK, Known
<1> QED BY <1>1 DEF LeftBehind

LEMMA RequestType ==
  ASSUME TypeOK, NEW q \in Requester,
         Request(q) \/ \E p \in Process : PrepareWebhooks(q, p) \/ TestWebhook(q, p)
  PROVE  TypeOK'
<1>1. ASSUME NEW p \in Process, PrepareWebhooks(q, p) \/ TestWebhook(q, p) PROVE TypeOK'
  <2>1. PICK S \in SUBSET Hook : r' = [r EXCEPT ![q] = [pc |-> "create", p |-> p, todo |-> S, t |-> 0]]
    BY <1>1 DEF PrepareWebhooks, TestWebhook
  <2>2. UNCHANGED << persistent, tables, process, g, disturbances, history >>
    BY <1>1 DEF PrepareWebhooks, TestWebhook
  <2>3. /\ r' \in [Requester -> Req]
        /\ \A x \in Requester : r'[x].pc = "push" => r'[x].t # 0
    BY <2>1 DEF TypeOK, Req
  <2> QED BY <2>2, <2>3 DEF TypeOK, Req, tables, process, history, Exists
<1>2. CASE CreateHookTask(q)
  <2>1. nextId \in Task /\ nextId' = nextId + 1 /\ nextId \in Nat \ {0}
    BY <1>2 DEF CreateHookTask, TypeOK
  <2>2. PICK h \in r[q].todo, now \in Clock :
          /\ row' = [row EXCEPT ![nextId] = NewTask(h, now)]
          /\ r' = [r EXCEPT ![q].pc = "push", ![q].todo = @ \ {h}, ![q].t = nextId]
    BY <1>2 DEF CreateHookTask
  <2>3. h \in Hook /\ now \in Nat
    BY <2>2, ClockType DEF TypeOK
  <2>4. NewTask(h, now) \in Row
    BY <2>3 DEF NewTask, Row, Outcome
  <2>5. row' \in [Task -> Row \cup {None}] /\ \A t \in Task : Exists(t)' => t < nextId'
    <3>1. row' \in [Task -> Row \cup {None}]
      BY <2>2, <2>4 DEF TypeOK
    <3>2. ASSUME NEW t \in Task, Exists(t)' PROVE t < nextId'
      <4>1. t = nextId \/ Exists(t)
        BY <2>2, <3>2 DEF Exists, TypeOK
      <4>2. Exists(t) => t < nextId
        BY DEF TypeOK
      <4> QED BY <2>1, <4>1, <4>2 DEF Task
    <3> QED BY <3>1, <3>2
  <2>6. /\ r' \in [Requester -> Req']
        /\ \A x \in Requester : r'[x].pc = "push" => r'[x].t # 0
    BY <2>1, <2>2 DEF TypeOK, Req
  <2>7. nextId' \in 1 .. MaxTask + 1 /\ Known \subseteq Known' /\ 0 .. nextId - 1 \subseteq 0 .. nextId' - 1
    BY <2>1 DEF Task, Known
  <2>8. UNCHANGED << persistent, hook, last, edit, process, g, disturbances, history >>
    BY <1>2 DEF CreateHookTask
  <2>9. g' \in [Worker -> Work'] /\ \A w \in Worker : g'[w].pc # "idle" => g'[w].t # 0 /\ g'[w].h \in Hook
    BY <2>7, <2>8 DEF TypeOK, Work, Known
  <2>10. /\ populate' \in [Process -> Progress'] /\ queue' \in [Process -> SUBSET Known']
         /\ stale' \in [Process -> SUBSET Known']
    BY <2>7, <2>8 DEF TypeOK, Progress, Known, process
  <2>11. \A w \in Worker : g'[w].pc # "idle" => g'[w].t # 0 /\ g'[w].h \in Hook
    BY <2>9
  <2>12. /\ persistent' \in BOOLEAN /\ hook' \in [Hook -> {"active", "inactive", "deleted"}]
         /\ last' \in [Hook -> Outcome] /\ edit' \in [Hook -> Outcome \cup {None}]
         /\ phase' \in [Process -> {"new", "up", "stopping", "hammered", "off"}]
         /\ disturbances' \in 0 .. Disturbances /\ sent' \in [Task -> Nat]
    BY <2>8 DEF TypeOK, process, history
  <2>13. dropped' \subseteq Known' /\ torn' \subseteq Known'
    BY <2>7, <2>8 DEF TypeOK, Known, history
  <2> QED BY <2>5, <2>6, <2>7, <2>9, <2>10, <2>11, <2>12, <2>13 DEF TypeOK, Req, Work, Progress, Known
<1>3. CASE EnqueueHookTask(q)
  <2>1. r[q].t \in Known /\ r[q].p \in Process /\ r[q] \in Req
    BY <1>3 DEF EnqueueHookTask, TypeOK, Known, Req
  <2>2. queue' \in [Process -> SUBSET Known] /\ dropped' \subseteq Known
    BY <1>3, <2>1, EnqueueType DEF EnqueueHookTask
  <2>3. r' = [r EXCEPT ![q] = IF r[q].todo = {} THEN Quiet ELSE [r[q] EXCEPT !.pc = "create", !.t = 0]]
    BY <1>3 DEF EnqueueHookTask, TypeOK
  <2>4. Quiet \in Req /\ [r[q] EXCEPT !.pc = "create", !.t = 0] \in Req /\ Quiet.pc = "idle"
    BY <2>1, QuietType, Numbers DEF Req
  <2>5. r' \in [Requester -> Req] /\ \A x \in Requester : r'[x].pc = "push" => r'[x].t # 0
    BY <2>1, <2>3, <2>4 DEF TypeOK, Req
  <2> QED BY <1>3, <2>2, <2>5 DEF EnqueueHookTask, TypeOK, Req, Known, tables, history, Exists
<1>4. CASE EnqueueFails(q)
  <2>1. r[q].t \in Known /\ r[q].p \in Process
    BY <1>4 DEF EnqueueFails, TypeOK, Known
  <2>2. /\ r' = [r EXCEPT ![q] = Quiet] /\ dropped' = dropped \cup {r[q].t}
        /\ UNCHANGED << persistent, tables, phase, queue, populate, g, sent, torn >>
    BY <1>4 DEF EnqueueFails
  <2>6. stale' \in [Process -> SUBSET Known]
    BY <1>4, <2>1, LeftBehindType DEF EnqueueFails
  <2>3. Quiet \in Req /\ Quiet.pc = "idle"
    BY QuietType
  <2>4. r' \in [Requester -> Req] /\ \A x \in Requester : r'[x].pc = "push" => r'[x].t # 0
    BY <2>2, <2>3 DEF TypeOK, Req
  <2>5. disturbances' \in 0 .. Disturbances
    BY <1>4 DEF EnqueueFails, Disturb, TypeOK
  <2> QED BY <2>1, <2>2, <2>4, <2>5, <2>6 DEF TypeOK, Req, Known, tables, Exists
<1> QED BY <1>1, <1>2, <1>3, <1>4 DEF Request

LEMMA PopulateType ==
  ASSUME TypeOK, NEW p \in Process, Populate(p)
  PROVE  TypeOK'
<1>1. CASE PopulateFinds(p)
  <2> DEFINE ids == FindUndelivered(populate[p].lower)
  <2>1. ids \subseteq Known
    BY RowOf DEF FindUndelivered, Undelivered
  <2> HIDE DEF ids
  <2>2. \/ populate' = [populate EXCEPT ![p] = [NotBegun EXCEPT !.ended = TRUE]]
        \/ \E top \in ids : populate' = [populate EXCEPT ![p].todo = ids, ![p].lower = top]
    BY <1>1 DEF PopulateFinds, ids
  <2>3. [NotBegun EXCEPT !.ended = TRUE] \in Progress
    BY NotBegunType
  <2>4. populate \in [Process -> Progress]
    BY DEF TypeOK, Progress, Known
  <2>5. populate' \in [Process -> Progress]
    <3>1. CASE populate' = [populate EXCEPT ![p] = [NotBegun EXCEPT !.ended = TRUE]]
      BY <3>1, <2>3, <2>4
    <3>2. ASSUME NEW top \in ids, populate' = [populate EXCEPT ![p].todo = ids, ![p].lower = top]
          PROVE  populate' \in [Process -> Progress]
      <4>1. top \in 0 .. nextId - 1 /\ ids \in SUBSET Known
        BY <2>1, Numbers DEF Known
      <4> QED BY <3>2, <4>1, <2>4 DEF Progress
    <3> QED BY <2>2, <3>1, <3>2
  <2> QED BY <1>1, <2>5 DEF PopulateFinds, TypeOK, Progress, Known, tables, history, Exists
<1>2. CASE PopulatePushes(p)
  <2>1. PICK t \in populate[p].todo :
          /\ populate' = [populate EXCEPT ![p].todo = @ \ {t}]
          /\ \/ Enqueue(p, t) /\ UNCHANGED << disturbances, stale >>
             \/ Disturb /\ LeftBehind(p, t) /\ dropped' = dropped \cup {t} /\ UNCHANGED queue
    BY <1>2 DEF PopulatePushes
  <2>2. t \in Known
    BY <2>1 DEF TypeOK, Known
  <2>3. populate' \in [Process -> Progress]
    BY <2>1 DEF TypeOK, Progress, Known
  <2>4. dropped' \subseteq Known
    BY <2>1, <2>2, EnqueueType DEF TypeOK, Known
  <2>5. disturbances' \in 0 .. Disturbances
    BY <2>1 DEF TypeOK, Disturb
  <2>6. queue' \in [Process -> SUBSET Known] /\ stale' \in [Process -> SUBSET Known]
    BY <2>1, <2>2, EnqueueType, LeftBehindType DEF TypeOK, Known
  <2> QED BY <1>2, <2>3, <2>4, <2>5, <2>6 DEF PopulatePushes, TypeOK, Progress, Known, tables, Exists
<1>3. CASE FindFails(p)
  <2>1. populate' \in [Process -> Progress]
    BY <1>3, NotBegunType DEF FindFails, TypeOK, Progress, Known
  <2>2. Unpushed(p) \subseteq Known
    BY RowOf DEF Unpushed, Undelivered
  <2>3. disturbances' \in 0 .. Disturbances
    BY <1>3 DEF FindFails, TypeOK, Disturb
  <2> QED BY <1>3, <2>1, <2>2, <2>3 DEF FindFails, TypeOK, Progress, Known, tables, Exists
<1> QED BY <1>1, <1>2, <1>3 DEF Populate

LEMMA HandleType ==
  ASSUME TypeOK, NEW w \in Worker, Handle(w)
  PROVE  TypeOK'
<1> DEFINE next == [Idle EXCEPT !.batch = g[w].batch]
<1>1. g[w] \in Work /\ (g[w].pc # "idle" => g[w].t \in Known /\ g[w].t \in Task /\ g[w].h \in Hook)
  BY WorkOf
<1>2. /\ row \in [Task -> Row \cup {None}]
      /\ queue \in [Process -> SUBSET Known] /\ stale \in [Process -> SUBSET Known]
      /\ disturbances \in 0 .. Disturbances /\ sent \in [Task -> Nat]
      /\ dropped \subseteq Known /\ torn \subseteq Known
  BY DEF TypeOK, Known
<1>4. next \in Work /\ next.pc = "idle"
  BY <1>1, IdleType DEF Work
<1>5. ASSUME NEW pc \in WorkerPc, g[w].pc # "idle"
      PROVE  /\ [g[w] EXCEPT !.pc = pc] \in Work
             /\ [g[w] EXCEPT !.pc = pc].t # 0 /\ [g[w] EXCEPT !.pc = pc].h \in Hook
  BY <1>1, <1>5 DEF Work, Known
<1>6. ASSUME NEW B \in SUBSET g[w].batch
      PROVE  /\ [g[w] EXCEPT !.batch = B] \in Work
             /\ [g[w] EXCEPT !.batch = B].pc = g[w].pc
  BY <1>1 DEF Work
<1> HIDE DEF next
<1>7. CASE HandlerTakes(w)
  <2>1. PICK S \in SUBSET queue[Store(Home[w])] :
          /\ g' = [g EXCEPT ![w].batch = S]
          /\ queue' = [queue EXCEPT ![Store(Home[w])] = @ \ S]
          /\ \/ UNCHANGED << stale, disturbances >>
             \/ Disturb /\ \E t \in S : stale' = [stale EXCEPT ![Store(Home[w])] = @ \cup {t}]
    BY <1>7 DEF HandlerTakes
  <2>2. Store(Home[w]) \in Process
    BY StoreType, HomeType
  <2>3. S \subseteq Known /\ queue' \in [Process -> SUBSET Known]
    BY <1>2, <2>1, <2>2
  <2>4. /\ g' = [g EXCEPT ![w] = [g[w] EXCEPT !.batch = S]]
        /\ g[w].pc = "idle"
    <3>1. g[w].pc = "idle"
      BY <1>7, IdleType DEF HandlerTakes
    <3> QED BY <2>1, <3>1
  <2>5. [g[w] EXCEPT !.batch = S] \in Work /\ [g[w] EXCEPT !.batch = S].pc = "idle"
    BY <1>1, <2>3, <2>4 DEF Work
  <2>6. UNCHANGED << persistent, tables, phase, populate, r, history >>
    BY <1>7 DEF HandlerTakes
  <2>7. stale' \in [Process -> SUBSET Known]
    BY <1>2, <2>1, <2>2, <2>3
  <2>8. disturbances' \in 0 .. Disturbances
    BY <1>2, <2>1 DEF Disturb
  <2> QED BY <1>2, <2>3, <2>4, <2>5, <2>6, <2>7, <2>8, GoroutineType DEF tables, history, Exists
<1>8. CASE GetHookTask(w)
  <2>1. PICK t \in g[w].batch :
       \/ /\ ~Undelivered(t)
          /\ Skip(w, t) /\ UNCHANGED << disturbances, dropped >>
       \/ /\ Undelivered(t)
          /\ IF Hammered(w) \/ ~Readable(t) THEN UNCHANGED disturbances ELSE Disturb
          /\ Skip(w, t) /\ dropped' = dropped \cup {t}
       \/ /\ Undelivered(t) /\ ~Hammered(w) /\ Readable(t)
          /\ g' = [g EXCEPT ![w] = [pc |-> "mark", batch |-> @.batch \ {t}, t |-> t, h |-> row[t].hook,
                                    active |-> hook[row[t].hook] = "active", ok |-> FALSE]]
          /\ UNCHANGED << disturbances, dropped >>
    BY <1>8 DEF GetHookTask
  <2>2. t \in Known /\ t \in Task /\ t # 0 /\ t \in 0 .. nextId - 1
    BY <1>1, <2>1 DEF Work, Known, Task, TypeOK
  <2>3. dropped' \subseteq Known /\ disturbances' \in 0 .. Disturbances
    <3>1. dropped' \subseteq Known
      BY <1>2, <2>1, <2>2
    <3>2. UNCHANGED disturbances \/ Disturb
      BY <2>1
    <3> QED BY <1>2, <3>1, <3>2 DEF Disturb
  <2>4. UNCHANGED << persistent, tables, process, r, sent, torn >>
    BY <1>8 DEF GetHookTask
  <2>5. CASE Skip(w, t)
    <3>1. g' = [g EXCEPT ![w] = [g[w] EXCEPT !.batch = g[w].batch \ {t}]]
      BY <2>5 DEF Skip
    <3>2. /\ [g[w] EXCEPT !.batch = g[w].batch \ {t}] \in Work
          /\ [g[w] EXCEPT !.batch = g[w].batch \ {t}].pc = "idle"
      BY <1>6, <1>8 DEF GetHookTask, At
    <3> QED BY <1>2, <2>3, <2>4, <3>1, <3>2, GoroutineType DEF tables, process, Exists
  <2>6. CASE Undelivered(t) /\ g' = [g EXCEPT ![w] = [pc |-> "mark", batch |-> @.batch \ {t}, t |-> t, h |-> row[t].hook,
                                    active |-> hook[row[t].hook] = "active", ok |-> FALSE]]
    <3> DEFINE x == [pc |-> "mark", batch |-> g[w].batch \ {t}, t |-> t, h |-> row[t].hook,
                     active |-> hook[row[t].hook] = "active", ok |-> FALSE]
    <3>1. row[t] \in Row
      BY <2>2, <2>6, RowOf DEF Undelivered
    <3>2. x \in Work /\ x.t # 0 /\ x.h \in Hook
      BY <1>1, <2>2, <3>1 DEF Work, WorkerPc, Row
    <3>3. g' = [g EXCEPT ![w] = x]
      BY <2>6
    <3> HIDE DEF x
    <3> QED BY <1>2, <2>3, <2>4, <3>2, <3>3, GoroutineType DEF tables, process, Exists
  <2> QED BY <2>1, <2>5, <2>6
<1>9. CASE MarkTaskDelivered(w)
  <2>1. g[w].pc = "mark" /\ g[w].t \in Known /\ g[w].t \in Task
    BY <1>1, <1>9 DEF MarkTaskDelivered, At
  <2>2. UNCHANGED << persistent, hook, last, edit, nextId, process, r, disturbances, sent, torn >>
    BY <1>9 DEF MarkTaskDelivered
  <2>3. CASE MayMark(g[w].t)
    <3>1. /\ row' = [row EXCEPT ![g[w].t].delivered = TRUE]
          /\ dropped' = dropped \ {g[w].t}
          /\ g' = [g EXCEPT ![w] = [g[w] EXCEPT !.pc = "send"]]
      BY <1>9, <2>3 DEF MarkTaskDelivered, Goto
    <3>2. row[g[w].t] \in Row /\ Exists(g[w].t)
      BY <2>1, <2>3, RowOf DEF MayMark, Undelivered
    <3>3. [row[g[w].t] EXCEPT !.delivered = TRUE] \in Row
      BY <3>2 DEF Row
    <3>4. row' \in [Task -> Row \cup {None}] /\ \A t \in Task : Exists(t)' => Exists(t)
      BY <1>2, <3>1, <3>2, <3>3 DEF Exists
    <3>5. "send" \in WorkerPc
      BY DEF WorkerPc
    <3>6. [g[w] EXCEPT !.pc = "send"] \in Work /\ [g[w] EXCEPT !.pc = "send"].t # 0
          /\ [g[w] EXCEPT !.pc = "send"].h \in Hook
      BY <1>5, <2>1, <3>5
    <3>7. dropped' \subseteq Known
      BY <1>2, <3>1
    <3> QED BY <1>2, <2>2, <3>1, <3>4, <3>6, <3>7, GoroutineType DEF process
  <2>4. CASE ~MayMark(g[w].t)
    BY <1>2, <1>4, <1>9, <2>2, <2>4, GoroutineType DEF MarkTaskDelivered, NextTask, process, next, Exists
  <2> QED BY <2>3, <2>4
<1>10. CASE MarkFails(w)
  <2>1. disturbances' \in 0 .. Disturbances
    BY <1>2, <1>10 DEF MarkFails, Disturb
  <2>2. dropped' \subseteq Known /\ torn' \subseteq Known
    BY <1>1, <1>2, <1>10 DEF MarkFails, GiveUp, At
  <2>3. row' \in [Task -> Row \cup {None}] /\ \A t \in Task : Exists(t)' => Exists(t)
    <3>1. CASE UNCHANGED row
      BY <1>2, <3>1 DEF Exists
    <3>2. CASE MayMark(g[w].t) /\ row' = [row EXCEPT ![g[w].t].delivered = TRUE]
      <4>1. g[w].t \in Task /\ row[g[w].t] \in Row /\ Exists(g[w].t)
        BY <1>1, <1>10, <3>2, RowOf DEF MarkFails, At, MayMark, Undelivered
      <4>2. [row[g[w].t] EXCEPT !.delivered = TRUE] \in Row
        BY <4>1 DEF Row
      <4> QED BY <1>2, <3>2, <4>1, <4>2 DEF Exists
    <3> QED BY <1>10, <3>1, <3>2 DEF MarkFails
  <2>4. UNCHANGED << persistent, hook, last, edit, nextId, process, r, sent >> /\ g' = [g EXCEPT ![w] = next]
    BY <1>10 DEF MarkFails, GiveUp, NextTask, next
  <2> QED BY <1>2, <1>4, <2>1, <2>2, <2>3, <2>4, GoroutineType DEF process
<1>11. CASE Do(w)
  <2>1. PICK ok \in BOOLEAN : Answered(w, ok)
    BY <1>11 DEF Do
  <2>2. g' = [g EXCEPT ![w] = [g[w] EXCEPT !.pc = "record", !.active = FALSE, !.ok = ok]]
    BY <2>1 DEF Answered
  <2>5. g[w].pc = "send" /\ g[w].t \in Known /\ g[w].t \in Task /\ g[w].h \in Hook
    BY <1>1, <1>11 DEF Do, At
  <2>6. "record" \in WorkerPc /\ g[w].t # 0
    BY <2>5 DEF WorkerPc, Known
  <2>3. /\ [g[w] EXCEPT !.pc = "record", !.active = FALSE, !.ok = ok] \in Work
        /\ [g[w] EXCEPT !.pc = "record", !.active = FALSE, !.ok = ok].t # 0
        /\ [g[w] EXCEPT !.pc = "record", !.active = FALSE, !.ok = ok].h \in Hook
    BY <1>1, <2>5, <2>6 DEF Work
  <2>4. sent' \in [Task -> Nat]
    <3>1. sent' = sent \/ sent' = [sent EXCEPT ![g[w].t] = @ + 1]
      BY <1>11 DEF Do
    <3> QED BY <1>2, <2>5, <3>1
  <2> QED BY <1>2, <1>11, <2>2, <2>3, <2>4, GoroutineType DEF Do, tables, process, Exists
<1>12. CASE UpdateHookTask(w)
  <2>1. g[w].pc = "record" /\ g[w].t \in Known /\ g[w].t \in Task
    BY <1>1, <1>12 DEF UpdateHookTask, At
  <2>2. row' \in [Task -> Row \cup {None}] /\ \A t \in Task : Exists(t)' => Exists(t)
    <3>1. CASE row' = row
      BY <1>2, <3>1 DEF Exists
    <3>2. CASE row' # row
      <4>1. PICK now \in Clock : Exists(g[w].t) /\ row' = [row EXCEPT ![g[w].t].stamp = now, ![g[w].t].outcome = Result(w)]
        BY <1>12, <3>2 DEF UpdateHookTask
      <4>2. now \in Nat /\ Result(w) \in Outcome /\ row[g[w].t] \in Row
        BY <2>1, <4>1, ClockType, RowOf DEF Result, Outcome
      <4>3. [row[g[w].t] EXCEPT !.stamp = now, !.outcome = Result(w)] \in Row
        BY <4>2 DEF Row
      <4>4. row' = [row EXCEPT ![g[w].t] = [row[g[w].t] EXCEPT !.stamp = now, !.outcome = Result(w)]]
        BY <1>2, <2>1, <4>1
      <4> QED BY <1>2, <2>1, <4>1, <4>3, <4>4 DEF Exists
    <3> QED BY <3>1, <3>2
  <2>3. disturbances' \in 0 .. Disturbances /\ torn' \subseteq Known
    BY <1>2, <1>12, <2>1 DEF UpdateHookTask, Disturb
  <2>4. /\ g' = [g EXCEPT ![w] = [g[w] EXCEPT !.pc = "status"]]
        /\ UNCHANGED << persistent, hook, last, edit, nextId, process, r, sent, dropped >>
    BY <1>12 DEF UpdateHookTask, Goto
  <2>5. "status" \in WorkerPc
    BY DEF WorkerPc
  <2>6. [g[w] EXCEPT !.pc = "status"] \in Work /\ [g[w] EXCEPT !.pc = "status"].t # 0
        /\ [g[w] EXCEPT !.pc = "status"].h \in Hook
    BY <1>5, <2>1, <2>5
  <2> QED BY <1>2, <2>2, <2>3, <2>4, <2>6, GoroutineType DEF process
<1>13. CASE UpdateWebhookLastStatus(w)
  <2>1. /\ UNCHANGED << persistent, hook, edit, row, nextId, process, r, disturbances, history >>
        /\ g' = [g EXCEPT ![w] = next]
    BY <1>13 DEF UpdateWebhookLastStatus, NextTask, next
  <2>2. last' \in [Hook -> Outcome]
    BY <1>1, <1>13 DEF UpdateWebhookLastStatus, Result, Outcome, At, TypeOK
  <2>3. g' \in [Worker -> Work] /\ \A v \in Worker : g'[v].pc # "idle" => g'[v].t # 0 /\ g'[v].h \in Hook
    BY <1>4, <2>1 DEF TypeOK, Work, Known
  <2> QED BY <2>1, <2>2, <2>3 DEF TypeOK, Work, Known, process, history, Exists
<1> QED BY <1>7, <1>8, <1>9, <1>10, <1>11, <1>12, <1>13 DEF Handle
(* Only tables of the administration, and what they lead to, change.       *)
LEMMA AdminType ==
  ASSUME TypeOK, Administration
  PROVE  TypeOK'
<1> USE DEF Administration
<1>1. /\ UNCHANGED << persistent, nextId, process, g, r, history >>
      /\ UNCHANGED disturbances \/ Disturb
  BY DEF EditWebhook, UpdateWebhook, DeleteWebhook, CleanupPerWebhook, CleanupOlderThan
<1>2. disturbances' \in 0 .. Disturbances
  BY <1>1 DEF Disturb, TypeOK
<1>3. row' \in [Task -> Row \cup {None}] /\ \A t \in Task : Exists(t)' => Exists(t)
  <2>1. CASE UNCHANGED row
    BY <2>1 DEF TypeOK, Exists
  <2>2. ASSUME NEW S, row' = [t \in Task |-> IF t \in S THEN None ELSE row[t]]
        PROVE  row' \in [Task -> Row \cup {None}] /\ \A t \in Task : Exists(t)' => Exists(t)
    BY <2>2 DEF TypeOK, Exists
  <2>3. ASSUME NEW h \in Hook, DeleteWebhook(h)
        PROVE  row' \in [Task -> Row \cup {None}] /\ \A t \in Task : Exists(t)' => Exists(t)
    BY <2>3 DEF DeleteWebhook, TypeOK, Exists
  <2> QED BY <2>1, <2>2, <2>3 DEF EditWebhook, UpdateWebhook, CleanupPerWebhook, CleanupOlderThan, Remove
<1>4. /\ hook' \in [Hook -> {"active", "inactive", "deleted"}]
      /\ last' \in [Hook -> Outcome] /\ edit' \in [Hook -> Outcome \cup {None}]
  BY DEF EditWebhook, UpdateWebhook, DeleteWebhook, CleanupPerWebhook, CleanupOlderThan, TypeOK
<1> QED BY <1>1, <1>2, <1>3, <1>4 DEF TypeOK, process, history

LEMMA GoneType ==
  ASSUME TypeOK, NEW p \in Process, NEW L \in SUBSET Known, Gone(p, L), disturbances' \in 0 .. Disturbances
  PROVE  TypeOK'
<1>1. /\ UNCHANGED << persistent, tables, sent >>
      /\ phase' \in [Process -> Phase]
      /\ queue' \in [Process -> SUBSET Known]
      /\ stale' \in [Process -> SUBSET Known]
  BY DEF Gone, TypeOK, Phase, Known
<1>2. populate' \in [Process -> Progress]
  BY NotBegunType DEF Gone, TypeOK, Progress, Known
<1>3. g' \in [Worker -> Work] /\ \A v \in Worker : g'[v].pc # "idle" => g'[v].t # 0 /\ g'[v].h \in Hook
  BY IdleType DEF Gone, TypeOK, Work, Known
<1>4. r' \in [Requester -> Req] /\ \A x \in Requester : r'[x].pc = "push" => r'[x].t # 0
  BY QuietType DEF Gone, TypeOK, Req
<1>5. dropped' \subseteq Known
  <2>1. \A t \in Task : Undelivered(t) => t \in Known
    BY RowOf DEF Undelivered
  <2> QED BY <2>1 DEF Gone, TypeOK, Known
<1>6. torn' \subseteq Known
  <2>1. \A w \in Worker : InFlight(w) \subseteq Known
    BY WorkOf DEF InFlight
  <2>2. \A x \in torn' : x \in torn \/ \E w \in Worker : x \in InFlight(w)
    BY DEF Gone, WorkersOf
  <2>3. torn \subseteq Known
    BY DEF TypeOK, Known
  <2> QED BY <2>1, <2>2, <2>3
<1> QED BY <1>1, <1>2, <1>3, <1>4, <1>5, <1>6 DEF TypeOK, Work, Req, Progress, Phase, Known, tables, Exists

(* What a call of redis has under way is a task that was handed out.       *)
LEMMA InterruptedType ==
  ASSUME TypeOK, NEW p \in Process
  PROVE  Interrupted(p) \subseteq SUBSET Known /\ {} \in SUBSET Known
<1>1. queue[1] \subseteq Known /\ populate[p].todo \subseteq Known
  BY DEF TypeOK, Known
<1>2. \A q \in Requester : r[q].pc = "push" => r[q].t \in Known
  BY DEF TypeOK, Known
<1> QED BY <1>1, <1>2 DEF Interrupted, Pushing, RequestsOf

LEMMA EndsGone ==
  ASSUME TypeOK, NEW p \in Process, End(p) \/ Crash(p)
  PROVE  \E L \in SUBSET Known : Gone(p, L)
BY InterruptedType DEF End, Crash

LEMMA ProcessType ==
  ASSUME TypeOK, NEW p \in Process, Start(p) \/ Shutdown(p) \/ Hammer(p) \/ End(p) \/ Crash(p)
  PROVE  TypeOK'
<1>1. CASE Start(p)
  BY <1>1 DEF Start, TypeOK, tables, Exists
<1>2. CASE Shutdown(p)
  <2>1. Unpushed(p) \subseteq Known
    BY RowOf DEF Unpushed, Undelivered
  <2>2. dropped' \subseteq Known
    BY <1>2, <2>1 DEF Shutdown, TypeOK, Known
  <2>3. populate' \in [Process -> Progress]
    BY <1>2, NotBegunType DEF Shutdown, TypeOK, Progress, Known
  <2>4. phase' \in [Process -> Phase]
    BY <1>2 DEF Shutdown, TypeOK, Phase
  <2> QED BY <1>2, <2>2, <2>3, <2>4 DEF Shutdown, TypeOK, Phase, Progress, Known, tables, Exists
<1>3. CASE Hammer(p)
  BY <1>3 DEF Hammer, TypeOK, tables, history, Exists
<1>4. CASE End(p)
  BY <1>4, EndsGone, GoneType DEF End, TypeOK
<1>5. CASE Crash(p)
  BY <1>5, EndsGone, GoneType DEF Crash, Disturb, TypeOK
<1> QED BY <1>1, <1>2, <1>3, <1>4, <1>5

LEMMA PopFailsType ==
  ASSUME TypeOK, NEW p \in Process, PopFails(p)
  PROVE  TypeOK'
<1>1. PICK t \in queue[1] : /\ queue' = [queue EXCEPT ![1] = @ \ {t}]
                            /\ stale' = [stale EXCEPT ![1] = @ \cup {t}]
                            /\ dropped' = dropped \cup {t}
  BY DEF PopFails
<1>2. 1 \in Process
  BY Numbers DEF Process
<1>3. t \in Known
  BY <1>1, <1>2 DEF TypeOK, Known
<1>4. queue' \in [Process -> SUBSET Known] /\ stale' \in [Process -> SUBSET Known] /\ dropped' \subseteq Known
  BY <1>1, <1>3 DEF TypeOK, Known
<1>5. disturbances' \in 0 .. Disturbances
  BY DEF PopFails, Disturb, TypeOK
<1> QED BY <1>4, <1>5 DEF PopFails, TypeOK, Known, tables, Exists

LEMMA StutterType == TypeOK /\ UNCHANGED vars => TypeOK'
BY DEF TypeOK, vars, tables, process, history, Exists

(* Every variable keeps its type, and the IDs in use are those handed out  *)
(* (task.go:118-135, deliver.go:45-330, webhook.go:80-270).                *)
THEOREM TypeCorrect == Spec => []TypeOK
<1>1. Init => TypeOK
  BY InitType
<1>2. ASSUME TypeOK, [Next]_vars PROVE TypeOK'
  BY <1>2, RequestType, PopulateType, HandleType, AdminType, ProcessType, PopFailsType, StutterType, EditedAreHooks DEF Next, Administration
<1> QED BY <1>1, <1>2, PTL DEF Spec
(***************************************************************************)
(* Sent at most once.  Whoever is about to send a task has marked it, so   *)
(* nobody else is, and nothing makes a delivered task undelivered again.   *)
(***************************************************************************)
Alone(w) == /\ sent[g[w].t] = 0 /\ ~Undelivered(g[w].t)
            /\ \A v \in Worker \ {w} : g[v].pc = "send" => g[v].t # g[w].t
Once ==
  /\ \A w \in Worker : g[w].pc = "send" => Alone(w)
  /\ \A t \in Task : sent[t] <= 1 /\ (sent[t] = 1 => t \in Known /\ ~Undelivered(t))

LEMMA OnceFrame ==
  ASSUME TypeOK, Once, sent' = sent, nextId' = nextId \/ nextId' = nextId + 1,
         \A t \in Known : Undelivered(t)' => Undelivered(t),
         \A w \in Worker : g'[w].pc = "send" => g'[w] = g[w]
  PROVE  Once'
<1>1. Known \subseteq Known'
  BY Numbers DEF Known
<1>2. ASSUME NEW w \in Worker, g'[w].pc = "send" PROVE Alone(w)'
  <2>1. g'[w] = g[w] /\ Alone(w) /\ g[w].t \in Known
    BY <1>2, WorkOf DEF Once
  <2> QED BY <2>1 DEF Alone
<1> QED BY <1>1, <1>2 DEF Once

LEMMA OnceNext == TypeOK /\ Once /\ [Next]_vars => Once'
<1> SUFFICES ASSUME TypeOK, Once, [Next]_vars PROVE Once'
  OBVIOUS
<1> USE Numbers
<1>1. ASSUME NEW q \in Requester, NEW p \in Process, PrepareWebhooks(q, p) \/ TestWebhook(q, p) PROVE Once'
  <2>1. UNCHANGED << row, nextId, g, sent >>
    BY <1>1 DEF PrepareWebhooks, TestWebhook, tables, history
  <2> QED BY <2>1, OnceFrame DEF Undelivered, Exists
<1>2. ASSUME NEW q \in Requester, CreateHookTask(q) PROVE Once'
  <2>1. UNCHANGED << g, sent >> /\ nextId' = nextId + 1 /\ nextId \notin Known
    BY <1>2 DEF CreateHookTask, history, Known
  <2>2. \A t \in Known : Undelivered(t)' => Undelivered(t)
    BY <1>2, <2>1 DEF CreateHookTask, Undelivered, Exists, Known, TypeOK
  <2> QED BY <2>1, <2>2, OnceFrame
<1>3. ASSUME NEW q \in Requester, EnqueueHookTask(q) \/ EnqueueFails(q) PROVE Once'
  BY <1>3, OnceFrame DEF EnqueueHookTask, EnqueueFails, tables, history, Undelivered, Exists
<1>4. ASSUME NEW p \in Process, Populate(p) PROVE Once'
  BY <1>4, OnceFrame DEF Populate, PopulateFinds, FindFails, PopulatePushes, tables, history, Undelivered, Exists
<1>12. ASSUME NEW p \in Process, PopFails(p) PROVE Once'
  BY <1>12, OnceFrame DEF PopFails, tables, Undelivered, Exists
<1>5. ASSUME NEW w \in Worker, HandlerTakes(w) \/ GetHookTask(w) \/ MarkFails(w) \/ UpdateWebhookLastStatus(w) PROVE Once'
  <2>1. UNCHANGED << nextId, sent >> /\ \A t \in Known : Undelivered(t)' => Undelivered(t)
    <3>1. UNCHANGED << nextId, sent >>
      BY <1>5 DEF HandlerTakes, GetHookTask, MarkFails, UpdateWebhookLastStatus, tables, history
    <3>2. UNCHANGED row \/ (MarkFails(w) /\ MayMark(g[w].t) /\ row' = [row EXCEPT ![g[w].t].delivered = TRUE])
      BY <1>5 DEF HandlerTakes, GetHookTask, MarkFails, UpdateWebhookLastStatus, tables
    <3>3. CASE UNCHANGED row
      BY <3>1, <3>3 DEF Undelivered, Exists
    <3>4. ASSUME MarkFails(w), MayMark(g[w].t), row' = [row EXCEPT ![g[w].t].delivered = TRUE]
          PROVE  \A t \in Known : Undelivered(t)' => Undelivered(t)
      <4>1. \A t \in Task \ {g[w].t} : row'[t] = row[t]
        BY <3>4 DEF TypeOK
      <4> QED BY <3>4, <4>1, KnownTasks DEF MayMark, Undelivered, Exists
    <3> QED BY <3>1, <3>2, <3>3, <3>4
  <2>2. \A v \in Worker \ {w} : g'[v] = g[v]
    BY <1>5 DEF HandlerTakes, GetHookTask, Skip, MarkFails, GiveUp, NextTask, UpdateWebhookLastStatus, TypeOK
  <2>3. g'[w].pc # "send"
    <3>1. CASE HandlerTakes(w)
      BY <3>1, IdleType DEF HandlerTakes, TypeOK
    <3>2. CASE GetHookTask(w)
      <4>1. PICK t \in g[w].batch :
              \/ g' = [g EXCEPT ![w].batch = @ \ {t}]
              \/ g'[w].pc = "mark"
        BY <3>2 DEF GetHookTask, Skip, TypeOK
      <4>2. g[w].pc = "idle"
        BY <3>2 DEF GetHookTask, At
      <4> QED BY <4>1, <4>2 DEF TypeOK
    <3>3. CASE NextTask(w)
      BY <3>3, IdleType DEF NextTask, TypeOK, Work
    <3> QED BY <1>5, <3>1, <3>2, <3>3 DEF MarkFails, GiveUp, UpdateWebhookLastStatus
  <2> QED BY <2>1, <2>2, <2>3, OnceFrame
<1>6. ASSUME NEW w \in Worker, MarkTaskDelivered(w) PROVE Once'
  <2>1. g[w].pc = "mark" /\ g[w].t \in Known /\ g[w].t \in Task
    BY <1>6, WorkOf DEF MarkTaskDelivered, At
  <2>2. UNCHANGED << nextId, sent >> /\ \A v \in Worker \ {w} : g'[v] = g[v]
    BY <1>6 DEF MarkTaskDelivered, NextTask, Goto, TypeOK, history
  <2>3. CASE MayMark(g[w].t)
    <3>1. row' = [row EXCEPT ![g[w].t].delivered = TRUE] /\ g' = [g EXCEPT ![w].pc = "send"]
      BY <1>6, <2>3 DEF MarkTaskDelivered, Goto
    <3>2. \A t \in Task : Undelivered(t)' => Undelivered(t) /\ t # g[w].t
      BY <2>1, <2>3, <3>1, RowOf DEF Undelivered, Exists, TypeOK, MayMark, Row
    <3>3. sent[g[w].t] = 0 /\ \A v \in Worker : g[v].pc = "send" => g[v].t # g[w].t
      <4>1. Undelivered(g[w].t)
        BY <2>3 DEF MayMark
      <4>2. sent[g[w].t] \in Nat /\ sent[g[w].t] <= 1 /\ sent[g[w].t] # 1
        BY <2>1, <4>1 DEF Once, TypeOK
      <4> QED BY <4>1, <4>2 DEF Once, Alone
    <3>4. g'[w].t = g[w].t
      BY <3>1 DEF TypeOK
    <3>5. ASSUME NEW v \in Worker, g'[v].pc = "send" PROVE Alone(v)'
      <4>1. CASE v = w
        BY <2>1, <2>2, <3>2, <3>3, <3>4, <4>1 DEF Alone
      <4>2. CASE v # w
        <5>1. g'[v] = g[v] /\ Alone(v) /\ g[v].t \in Task /\ g[v].t # g[w].t
          BY <2>2, <3>3, <3>5, <4>2, WorkOf DEF Once
        <5> QED BY <2>2, <3>2, <3>4, <4>2, <5>1 DEF Alone
      <4> QED BY <4>1, <4>2
    <3> QED BY <2>2, <3>2, <3>5 DEF Once, Known
  <2>4. CASE ~MayMark(g[w].t)
    <3>1. row' = row /\ g'[w].pc # "send"
      BY <1>6, <2>4, IdleType DEF MarkTaskDelivered, NextTask, TypeOK, Work
    <3> QED BY <2>2, <3>1, OnceFrame DEF Undelivered, Exists
  <2> QED BY <2>3, <2>4
<1>7. ASSUME NEW w \in Worker, Do(w) PROVE Once'
  <2>1. g[w].pc = "send" /\ g[w].t \in Known /\ g[w].t \in Task /\ Alone(w)
    BY <1>7, WorkOf DEF Do, At, Once
  <2>2. /\ UNCHANGED << row, nextId >>
        /\ g'[w].pc = "record" /\ \A v \in Worker \ {w} : g'[v] = g[v]
    BY <1>7 DEF Do, Answered, TypeOK, tables
  <2>3. sent' = sent \/ sent' = [sent EXCEPT ![g[w].t] = @ + 1]
    BY <1>7 DEF Do
  <2>4. \A t \in Task : Undelivered(t)' = Undelivered(t)
    BY <2>2 DEF Undelivered, Exists
  <2>5. \A t \in Task : t # g[w].t => sent'[t] = sent[t]
    BY <2>3 DEF TypeOK
  <2>6. sent'[g[w].t] \in {0, 1}
    BY <2>1, <2>3 DEF Alone, TypeOK
  <2>7. ASSUME NEW v \in Worker, g'[v].pc = "send" PROVE Alone(v)'
    <3>1. v # w /\ g'[v] = g[v] /\ Alone(v) /\ g[v].t \in Task /\ g[v].t # g[w].t
      BY <2>1, <2>2, <2>7, WorkOf DEF Once, Alone
    <3> QED BY <2>2, <2>4, <2>5, <3>1 DEF Alone
  <2>8. \A t \in Task : sent'[t] <= 1 /\ (sent'[t] = 1 => t \in Known' /\ ~Undelivered(t)')
    BY <2>1, <2>2, <2>4, <2>5, <2>6 DEF Once, Alone, Known
  <2> QED BY <2>7, <2>8 DEF Once
<1>8. ASSUME NEW w \in Worker, UpdateHookTask(w) PROVE Once'
  <2>1. UNCHANGED << nextId, sent >> /\ g' = [g EXCEPT ![w].pc = "status"]
    BY <1>8 DEF UpdateHookTask, Goto
  <2>2. \A t \in Task : Undelivered(t)' => Undelivered(t)
    <3>1. CASE row' = row
      BY <3>1 DEF Undelivered, Exists
    <3>2. ASSUME NEW now, Exists(g[w].t),
                 row' = [row EXCEPT ![g[w].t].stamp = now, ![g[w].t].outcome = Result(w)]
          PROVE  \A t \in Task : Undelivered(t)' => Undelivered(t)
      <4>1. g[w].t \in Task /\ row[g[w].t] \in Row
        BY <1>8, <3>2, WorkOf, RowOf DEF UpdateHookTask, At
      <4>2. row'[g[w].t].delivered = row[g[w].t].delivered
        BY <3>2, <4>1 DEF TypeOK, Row
      <4>3. \A t \in Task \ {g[w].t} : row'[t] = row[t]
        BY <3>2 DEF TypeOK
      <4> QED BY <3>2, <4>2, <4>3 DEF Undelivered, Exists
    <3> QED BY <1>8, <3>1, <3>2 DEF UpdateHookTask
  <2>3. \A v \in Worker : g'[v].pc = "send" => g'[v] = g[v]
    BY <2>1 DEF TypeOK
  <2> QED BY <2>1, <2>2, <2>3, KnownTasks, OnceFrame
<1>9. ASSUME Administration PROVE Once'
  <2>1. UNCHANGED << g, nextId, sent >>
    BY <1>9 DEF Administration, EditWebhook, UpdateWebhook, DeleteWebhook, CleanupPerWebhook, CleanupOlderThan, history
  <2>2. \A t \in Task : Undelivered(t)' => Undelivered(t)
    BY <1>9 DEF Administration, EditWebhook, UpdateWebhook, DeleteWebhook, CleanupPerWebhook, CleanupOlderThan,
                Remove, Undelivered, Exists
  <2> QED BY <2>1, <2>2, KnownTasks, OnceFrame
<1>10. ASSUME NEW p \in Process, Start(p) \/ Shutdown(p) \/ Hammer(p) \/ End(p) \/ Crash(p) PROVE Once'
  <2> USE EndsGone
  <2>1. UNCHANGED << row, nextId, sent >>
    BY <1>10 DEF Start, Shutdown, Hammer, End, Crash, Gone, tables, history
  <2>2. \A w \in Worker : g'[w].pc = "send" => g'[w] = g[w]
    BY <1>10, IdleType DEF Start, Shutdown, Hammer, End, Crash, Gone, TypeOK
  <2> QED BY <2>1, <2>2, OnceFrame DEF Undelivered, Exists
<1>11. CASE UNCHANGED vars
  BY <1>11, OnceFrame DEF vars, tables, history, Undelivered, Exists
<1> QED BY <1>1, <1>2, <1>3, <1>4, <1>5, <1>6, <1>7, <1>8, <1>9, <1>10, <1>11, <1>12, EditedAreHooks
        DEF Next, Request, Handle, Administration

(* However often a task is queued, and whoever crashes when, it is sent at *)
(* most once (deliver.go:163-174).                                         *)
THEOREM NeverTwice == Spec => []SentAtMostOnce
<1>1. Init => Once
  <2> SUFFICES ASSUME Init PROVE Once
    OBVIOUS
  <2>1. \A w \in Worker : g[w].pc = "idle"
    BY DEF Init, Idle
  <2> QED BY <2>1 DEF Init, Once
<1>2. Once => SentAtMostOnce
  BY DEF Once, SentAtMostOnce
<1> QED BY <1>1, <1>2, OnceNext, TypeCorrect, PTL DEF Spec
(***************************************************************************)
(* The batches of populateWebhookSendingQueue: what FindUndelivered leaves *)
(* out lies above all that it returns, and it finds one if there is one.   *)
(***************************************************************************)
After(lower) == {t \in Task : Undelivered(t) /\ t > lower}

LEMMA Below ==
  ASSUME NEW S \in SUBSET Task, NEW t \in Task, NEW u \in Task, t <= u
  PROVE  /\ Cardinality({s \in S : s < t}) \in Nat
         /\ Cardinality({s \in S : s < t}) <= Cardinality({s \in S : s < u})
<1> DEFINE T == {s \in S : s < t}  U == {s \in S : s < u}
<1>1. IsFiniteSet(Task)
  BY FS_Interval DEF Task
<1>2. T \in SUBSET U /\ U \in SUBSET Task
  <2>1. \A s \in S : s \in Nat /\ t \in Nat /\ u \in Nat
    OBVIOUS
  <2>2. \A s \in S : s < t => s < u
    BY <2>1
  <2> QED BY <2>2
<1> HIDE DEF T, U
<1>3. IsFiniteSet(U) /\ IsFiniteSet(T)
  BY <1>1, <1>2, FS_Subset
<1>4. Cardinality(T) <= Cardinality(U) /\ Cardinality(T) \in Nat
  BY <1>2, <1>3, FS_Subset, FS_CardinalityType
<1> QED BY <1>4 DEF T, U

LEMMA NothingSkipped ==
  ASSUME NEW lower, NEW top \in FindUndelivered(lower), \A t \in FindUndelivered(lower) : t <= top
  PROVE  \A t \in After(lower) : t \in FindUndelivered(lower) \/ t > top
<1> DEFINE all == After(lower)
<1>1. FindUndelivered(lower) = {t \in all : Cardinality({s \in all : s < t}) < BatchSize}
  BY DEF FindUndelivered, After
<1>2. all \in SUBSET Task
  BY DEF After
<1> HIDE DEF all
<1>3. ASSUME NEW t \in all, t <= top PROVE t \in FindUndelivered(lower)
  <2>1. top \in Task /\ t \in Task /\ Cardinality({s \in all : s < top}) < BatchSize
    BY <1>1, <1>2
  <2>2. /\ Cardinality({s \in all : s < t}) \in Nat
        /\ Cardinality({s \in all : s < top}) \in Nat
        /\ Cardinality({s \in all : s < t}) <= Cardinality({s \in all : s < top})
    BY <1>2, <1>3, <2>1, Below
  <2> QED BY <1>1, <1>3, <2>1, <2>2
<1>4. top \in Nat /\ \A t \in all : t \in Nat
  BY <1>1, <1>2
<1> QED BY <1>3, <1>4 DEF all

LEMMA FoundIfAny ==
  ASSUME NEW lower, FindUndelivered(lower) = {}
  PROVE  After(lower) = {}
<1> DEFINE all == After(lower)
<1>1. FindUndelivered(lower) = {t \in all : Cardinality({s \in all : s < t}) < BatchSize}
  BY DEF FindUndelivered, After
<1>2. all \in SUBSET Task
  BY DEF After
<1> HIDE DEF all
<1>3. ASSUME all # {} PROVE FALSE
  <2> DEFINE Under(x) == {s \in all : s < x}
             Unders == {Under(x) : x \in all}
  <2>1. IsFiniteSet(all)
    <3>1. IsFiniteSet(Task)
      BY FS_Interval DEF Task
    <3> QED BY <1>2, <3>1, FS_Subset
  <2>2. Unders \subseteq FiniteSubsetsOf(all) /\ Unders # {}
    <3>1. \A x \in all : Under(x) \in SUBSET all /\ IsFiniteSet(Under(x))
      <4>1. \A x \in all : Under(x) \in SUBSET all
        OBVIOUS
      <4> HIDE DEF Under
      <4> QED BY <2>1, <4>1, FS_Subset
    <3>2. \A x \in all : Under(x) \in FiniteSubsetsOf(all)
      <4> HIDE DEF Under
      <4> QED BY <3>1 DEF FiniteSubsetsOf
    <3> HIDE DEF Under
    <3> QED BY <1>3, <3>2
  <2>3. PICK U \in Unders : \A V \in Unders : << V, U >> \notin StrictSubsetOrdering(all)
    <3> HIDE DEF Unders
    <3> QED BY <2>2, FS_StrictSubsetOrderingWellFounded, WFMin
  <2>4. PICK x \in all : U = Under(x)
    OBVIOUS
  <2>5. \A y \in all : ~(y < x)
    <3> SUFFICES ASSUME NEW y \in all, y < x PROVE FALSE
      OBVIOUS
    <3>1. y \in Under(x) /\ y \notin Under(y)
      BY <1>2
    <3>2. Under(y) \subseteq Under(x)
      <4>1. \A s \in all : s \in Nat /\ x \in Nat /\ y \in Nat
        BY <1>2
      <4> QED BY <4>1
    <3>3. Under(x) \subseteq all /\ Under(y) \in Unders
      OBVIOUS
    <3> HIDE DEF Under, Unders
    <3> QED BY <2>3, <2>4, <3>1, <3>2, <3>3 DEF StrictSubsetOrdering
  <2>6. {s \in all : s < x} = {}
    BY <2>5
  <2>7. Cardinality({s \in all : s < x}) < BatchSize
    BY <2>6, FS_EmptySet
  <2> QED BY <1>1, <2>7
<1> QED BY <1>3 DEF all
(***************************************************************************)
(* What is owed.  A process that has not started has not begun to look for *)
(* undelivered tasks, so that the start, which forgets what was given up,  *)
(* owes them all.                                                          *)
(***************************************************************************)
Queued(t)  == \E p \in Process : t \in queue[p]
Awaited(t) == \E p \in Process : t \in Unpushed(p)
Worked(t)  == \E w \in Worker : t \in Unmarked(w)
Pushed(t)  == \E q \in Requester : r[q].pc = "push" /\ r[q].t = t
Held(t)    == Queued(t) \/ Awaited(t) \/ Worked(t) \/ Pushed(t) \/ t \in dropped

Fresh   == \A p \in Process : phase[p] = "new" => populate[p] = NotBegun
HeldInv == Fresh /\ \A t \in Task : Undelivered(t) => Held(t)

LEMMA HeldIsOwed == (\A t \in Task : Undelivered(t) => Held(t)) <=> UndeliveredIsOwed
BY DEF UndeliveredIsOwed, Owed, Held, Queued, Awaited, Worked, Pushed

(* What a step leaves alone still holds the task.                          *)
LEMMA HeldFrame ==
  ASSUME NEW t \in Task, Undelivered(t)'
  PROVE  /\ UNCHANGED queue => (Queued(t) => Queued(t)')
         /\ UNCHANGED << phase, populate >> => (Awaited(t) => Awaited(t)')
         /\ UNCHANGED g => (Worked(t) => Worked(t)')
         /\ UNCHANGED r => (Pushed(t) => Pushed(t)')
BY DEF Queued, Awaited, Unpushed, Populating, Worked, Unmarked, Pushed

(* A push puts the task into the queue, or gives it up.                    *)
LEMMA HeldByEnqueue ==
  ASSUME TypeOK, NEW p \in Process, NEW s, NEW t, Enqueue(p, s)
  PROVE  /\ Queued(t) => Queued(t)'
         /\ t \in dropped => t \in dropped'
         /\ Queued(s)' \/ s \in dropped'
<1>1. CASE s \in stale[Store(p)]
  BY <1>1 DEF Enqueue, Queued
<1>2. CASE s \notin stale[Store(p)]
  <2>1. queue' = [queue EXCEPT ![Store(p)] = @ \cup {s}] /\ dropped' = dropped /\ Store(p) \in Process
    BY <1>2, StoreType DEF Enqueue
  <2>2. s \in queue'[Store(p)]
    BY <2>1 DEF TypeOK
  <2> QED BY <2>1, <2>2 DEF Queued, TypeOK
<1> QED BY <1>1, <1>2

LEMMA HeldByRequests ==
  ASSUME TypeOK, NEW q \in Requester, NEW t \in Task, Undelivered(t)', Undelivered(t) => Held(t),
         Request(q) \/ \E p \in Process : PrepareWebhooks(q, p) \/ TestWebhook(q, p)
  PROVE  Held(t)'
<1>1. ASSUME NEW p \in Process, PrepareWebhooks(q, p) \/ TestWebhook(q, p) PROVE Held(t)'
  <2>1. /\ UNCHANGED << row, queue, phase, populate, g, dropped >>
        /\ \A x \in Requester \ {q} : r'[x] = r[x]
        /\ r[q].pc = "idle"
    BY <1>1, QuietType DEF PrepareWebhooks, TestWebhook, tables, process, history, TypeOK
  <2>2. Pushed(t) => Pushed(t)'
    BY <2>1 DEF Pushed
  <2> QED BY <2>1, <2>2, HeldFrame DEF Held, Undelivered, Exists
<1>2. CASE CreateHookTask(q)
  <2>1. /\ UNCHANGED << queue, phase, populate, g, dropped >>
        /\ \A x \in Requester \ {q} : r'[x] = r[x]
        /\ r[q].pc = "create" /\ r'[q].pc = "push" /\ r'[q].t = nextId
        /\ \A s \in Task : s # nextId => row'[s] = row[s]
    BY <1>2 DEF CreateHookTask, process, history, TypeOK
  <2>2. CASE t = nextId
    BY <2>1, <2>2 DEF Held, Pushed
  <2>3. CASE t # nextId
    <3>1. Undelivered(t)
      BY <2>1, <2>3 DEF Undelivered, Exists
    <3>2. Pushed(t) => Pushed(t)'
      BY <2>1 DEF Pushed
    <3> QED BY <2>1, <3>1, <3>2, HeldFrame DEF Held
  <2> QED BY <2>2, <2>3
<1>3. CASE EnqueueHookTask(q)
  <2>1. UNCHANGED << row, phase, populate, g >> /\ r[q].p \in Process /\ Enqueue(r[q].p, r[q].t)
    BY <1>3 DEF EnqueueHookTask, tables, TypeOK
  <2>4. PICK s : s = r[q].t
    OBVIOUS
  <2>2. /\ Queued(t) => Queued(t)'
        /\ t \in dropped => t \in dropped'
        /\ Queued(s)' \/ s \in dropped'
    BY <2>1, <2>4, HeldByEnqueue
  <2>3. Pushed(t) => Pushed(t)' \/ Queued(t)' \/ t \in dropped'
    <3>1. \A x \in Requester \ {q} : r'[x] = r[x]
      BY <1>3 DEF EnqueueHookTask, TypeOK
    <3> QED BY <2>2, <2>4, <3>1 DEF Pushed
  <2> QED BY <2>1, <2>2, <2>3, HeldFrame DEF Held, Undelivered, Exists
<1>4. CASE EnqueueFails(q)
  <2>1. /\ UNCHANGED << row, queue, phase, populate, g >> /\ dropped' = dropped \cup {r[q].t}
        /\ \A x \in Requester \ {q} : r'[x] = r[x]
    BY <1>4 DEF EnqueueFails, tables, process, TypeOK
  <2>2. Pushed(t) => Pushed(t)' \/ t \in dropped'
    BY <2>1 DEF Pushed
  <2> QED BY <2>1, <2>2, HeldFrame DEF Held, Undelivered, Exists
<1> QED BY <1>1, <1>2, <1>3, <1>4 DEF Request

LEMMA HeldByPopulate ==
  ASSUME TypeOK, NEW p \in Process, NEW t \in Task, Undelivered(t)', Undelivered(t) => Held(t), Populate(p)
  PROVE  Held(t)'
<1>1. UNCHANGED << row, phase, g, r >> /\ \A o \in Process \ {p} : populate'[o] = populate[o]
  BY DEF Populate, PopulateFinds, FindFails, PopulatePushes, tables, TypeOK
<1>2. Undelivered(t) /\ Held(t)
  BY <1>1 DEF Undelivered, Exists
<1>3. ASSUME NEW o \in Process \ {p}, t \in Unpushed(o) PROVE Awaited(t)'
  BY <1>1, <1>3 DEF Awaited, Unpushed, Populating, Undelivered, Exists
<1>4. CASE PopulateFinds(p)
  <2> DEFINE lower == populate[p].lower
  <2>1. UNCHANGED << queue, dropped >> /\ Populating(p) /\ populate[p].todo = {} /\ lower \in Nat
    BY <1>4 DEF PopulateFinds, history, TypeOK
  <2>2. t \in Unpushed(p) => t \in After(lower)
    BY <2>1 DEF Unpushed, After
  <2>3. CASE FindUndelivered(lower) = {}
    BY <1>2, <1>1, <1>3, <2>1, <2>2, <2>3, FoundIfAny, HeldFrame DEF Held, Awaited
  <2>4. CASE FindUndelivered(lower) # {}
    <3>1. PICK top \in FindUndelivered(lower) :
            /\ \A s \in FindUndelivered(lower) : s <= top
            /\ populate' = [populate EXCEPT ![p].todo = FindUndelivered(lower), ![p].lower = top]
      BY <1>4, <2>4 DEF PopulateFinds
    <3>2. populate'[p].todo = FindUndelivered(lower) /\ populate'[p].lower = top /\ Populating(p)'
      BY <1>1, <2>1, <3>1 DEF Populating, TypeOK
    <3>3. t \in Unpushed(p) => t \in Unpushed(p)'
      BY <1>1, <2>2, <3>1, <3>2, NothingSkipped DEF Unpushed
    <3>4. Awaited(t) => Awaited(t)'
      BY <1>3, <3>3 DEF Awaited
    <3> QED BY <1>1, <1>2, <2>1, <3>4, HeldFrame DEF Held
  <2> QED BY <2>3, <2>4
<1>5. CASE PopulatePushes(p)
  <2>1. PICK s \in populate[p].todo :
          /\ populate' = [populate EXCEPT ![p].todo = @ \ {s}]
          /\ \/ Enqueue(p, s) /\ UNCHANGED << disturbances, stale >>
             \/ Disturb /\ LeftBehind(p, s) /\ dropped' = dropped \cup {s} /\ UNCHANGED queue
    BY <1>5 DEF PopulatePushes
  <2>2. /\ Queued(t) => Queued(t)'
        /\ t \in dropped => t \in dropped'
        /\ s \in dropped' \/ Queued(s)'
    BY <2>1, HeldByEnqueue DEF Queued
  <2>4. t \in Unpushed(p) => t \in Unpushed(p)' \/ t = s
    <3>1. populate[p].todo \ {s} = populate'[p].todo
      BY <2>1 DEF TypeOK
    <3>2. populate'[p].lower = populate[p].lower /\ populate'[p].ended = populate[p].ended
      BY <2>1 DEF TypeOK
    <3> QED BY <1>1, <3>1, <3>2 DEF Unpushed, Populating
  <2>5. Awaited(t) => Awaited(t)' \/ t = s
    BY <1>3, <2>4 DEF Awaited
  <2> QED BY <1>1, <1>2, <2>2, <2>5, HeldFrame DEF Held
<1>6. CASE FindFails(p)
  <2>1. UNCHANGED queue /\ dropped' = dropped \cup Unpushed(p)
    BY <1>6 DEF FindFails
  <2>2. Awaited(t) => Awaited(t)' \/ t \in dropped'
    BY <1>3, <2>1 DEF Awaited
  <2> QED BY <1>1, <1>2, <2>1, <2>2, HeldFrame DEF Held
<1> QED BY <1>4, <1>5, <1>6 DEF Populate
LEMMA HeldByWorkers ==
  ASSUME TypeOK, NEW w \in Worker, NEW t \in Task, Undelivered(t)', Undelivered(t) => Held(t), Handle(w)
  PROVE  Held(t)'
<1>1. UNCHANGED << phase, populate, r >>
  BY DEF Handle, HandlerTakes, GetHookTask, MarkTaskDelivered, MarkFails, Do, UpdateHookTask,
         UpdateWebhookLastStatus, process
<1>2. \A v \in Worker \ {w} : g'[v] = g[v]
  BY DEF Handle, HandlerTakes, GetHookTask, Skip, MarkTaskDelivered, Goto, MarkFails, GiveUp, NextTask, Do, Answered,
         UpdateHookTask, UpdateWebhookLastStatus, TypeOK
<1>3. ASSUME Undelivered(t), UNCHANGED queue, t \in dropped => t \in dropped',
             t \in Unmarked(w) => t \in Unmarked(w)' \/ t \in dropped'
      PROVE  Held(t)'
  <2>1. Worked(t) => Worked(t)' \/ t \in dropped'
    BY <1>2, <1>3 DEF Worked, Unmarked
  <2> QED BY <1>1, <1>3, <2>1, HeldFrame DEF Held
<1>4. CASE HandlerTakes(w)
  <2>1. UNCHANGED << row, dropped >> /\ Unmarked(w) = {}
    <3>1. g[w].pc = "idle" /\ g[w].batch = {}
      BY <1>4 DEF HandlerTakes, Idle
    <3> QED BY <1>4, <3>1 DEF HandlerTakes, Unmarked, tables, history
  <2>2. PICK S \in SUBSET queue[Store(Home[w])] :
          /\ g' = [g EXCEPT ![w].batch = S]
          /\ queue' = [queue EXCEPT ![Store(Home[w])] = @ \ S]
    BY <1>4 DEF HandlerTakes
  <2>3. Queued(t) => Queued(t)' \/ t \in S
    BY <2>2 DEF Queued, TypeOK
  <2>4. t \in S => Worked(t)'
    <3>1. g'[w].batch = S
      BY <2>2 DEF TypeOK
    <3> QED BY <3>1 DEF Worked, Unmarked
  <2>5. Worked(t) => Worked(t)'
    BY <1>2, <2>1 DEF Worked, Unmarked
  <2> QED BY <1>1, <2>1, <2>3, <2>4, <2>5, HeldFrame DEF Held, Undelivered, Exists
<1>5. CASE GetHookTask(w)
  <2>1. UNCHANGED << row, queue >> /\ g[w].pc = "idle"
    BY <1>5 DEF GetHookTask, At, tables, process
  <2>2. Undelivered(t)
    BY <2>1 DEF Undelivered, Exists
  <2>3. PICK s \in g[w].batch :
       \/ ~Undelivered(s) /\ Skip(w, s) /\ UNCHANGED dropped
       \/ Skip(w, s) /\ dropped' = dropped \cup {s}
       \/ /\ g' = [g EXCEPT ![w] = [pc |-> "mark", batch |-> @.batch \ {s}, t |-> s, h |-> row[s].hook,
                                    active |-> hook[row[s].hook] = "active", ok |-> FALSE]]
          /\ UNCHANGED dropped
    BY <1>5 DEF GetHookTask
  <2>4. t \in dropped => t \in dropped'
    BY <2>3
  <2>5. Unmarked(w) = g[w].batch
    BY <2>1 DEF Unmarked
  <2>6. t \in Unmarked(w) => t \in Unmarked(w)' \/ t \in dropped'
    <3>1. CASE Skip(w, s) /\ (~Undelivered(s) \/ s \in dropped')
      <4>1. g'[w].batch = g[w].batch \ {s}
        BY <3>1 DEF Skip, TypeOK
      <4>2. t = s => t \in dropped'
        BY <2>2, <3>1
      <4> QED BY <2>5, <4>1, <4>2 DEF Unmarked
    <3>2. CASE g' = [g EXCEPT ![w] = [pc |-> "mark", batch |-> @.batch \ {s}, t |-> s, h |-> row[s].hook,
                                    active |-> hook[row[s].hook] = "active", ok |-> FALSE]]
      <4>1. g'[w].batch = g[w].batch \ {s} /\ g'[w].pc = "mark" /\ g'[w].t = s
        BY <3>2 DEF TypeOK
      <4> QED BY <2>5, <4>1 DEF Unmarked
    <3> QED BY <2>3, <3>1, <3>2
  <2> QED BY <1>3, <2>1, <2>2, <2>4, <2>6
<1>6. CASE MarkTaskDelivered(w)
  <2>1. g[w].pc = "mark" /\ g[w].t \in Task /\ UNCHANGED queue
    BY <1>6, WorkOf DEF MarkTaskDelivered, At, process
  <2>2. CASE MayMark(g[w].t)
    <3>1. /\ row' = [row EXCEPT ![g[w].t].delivered = TRUE]
          /\ dropped' = dropped \ {g[w].t}
          /\ g' = [g EXCEPT ![w].pc = "send"]
      BY <1>6, <2>2 DEF MarkTaskDelivered, Goto
    <3>2. t # g[w].t
      BY <2>1, <2>2, <3>1, RowOf DEF Undelivered, Exists, MayMark, TypeOK, Row
    <3>3. Undelivered(t)
      BY <3>1, <3>2 DEF Undelivered, Exists, TypeOK
    <3>4. g'[w].batch = g[w].batch
      BY <3>1 DEF TypeOK
    <3> QED BY <1>3, <2>1, <3>1, <3>2, <3>3, <3>4 DEF Unmarked
  <2>3. CASE ~MayMark(g[w].t)
    <3>1. UNCHANGED << row, dropped >> /\ NextTask(w)
      BY <1>6, <2>3 DEF MarkTaskDelivered
    <3>2. Undelivered(t) /\ t # g[w].t
      BY <2>3, <3>1 DEF Undelivered, Exists, MayMark
    <3>3. g'[w].batch = g[w].batch
      BY <3>1, IdleType DEF NextTask, TypeOK, Work
    <3> QED BY <1>3, <2>1, <3>1, <3>2, <3>3 DEF Unmarked
  <2> QED BY <2>2, <2>3
<1>7. CASE MarkFails(w)
  <2>1. UNCHANGED queue /\ NextTask(w) /\ dropped' = dropped \cup {g[w].t}
    BY <1>7 DEF MarkFails, GiveUp, process
  <2>2. g'[w].batch = g[w].batch
    BY <2>1, IdleType DEF NextTask, TypeOK, Work
  <2>3. Undelivered(t)
    BY <1>7 DEF MarkFails, MayMark, Undelivered, Exists, TypeOK
  <2> QED BY <1>3, <2>1, <2>2, <2>3 DEF Unmarked
<1>8. CASE Do(w) \/ UpdateHookTask(w) \/ UpdateWebhookLastStatus(w)
  <2>1. UNCHANGED << queue, dropped >> /\ g[w].pc # "mark"
    BY <1>8 DEF Do, UpdateHookTask, UpdateWebhookLastStatus, At, process, history
  <2>2. g'[w].batch = g[w].batch
    <3>1. CASE NextTask(w)
      BY <3>1, IdleType DEF NextTask, TypeOK, Work
    <3>2. CASE Goto(w, "status")
      BY <3>2 DEF Goto, TypeOK
    <3>3. ASSUME NEW ok, Answered(w, ok) PROVE g'[w].batch = g[w].batch
      BY <3>3 DEF Answered, TypeOK
    <3> QED BY <1>8, <3>1, <3>2, <3>3 DEF Do, UpdateHookTask, UpdateWebhookLastStatus
  <2>3. Undelivered(t)
    <3>1. CASE UNCHANGED row
      BY <3>1 DEF Undelivered, Exists
    <3>2. ASSUME NEW now, UpdateHookTask(w), Exists(g[w].t),
                 row' = [row EXCEPT ![g[w].t].stamp = now, ![g[w].t].outcome = Result(w)]
          PROVE  Undelivered(t)
      <4>1. g[w].t \in Task /\ row[g[w].t] \in Row
        BY <3>2, WorkOf, RowOf DEF UpdateHookTask, At
      <4>2. row'[g[w].t].delivered = row[g[w].t].delivered
        BY <3>2, <4>1 DEF TypeOK, Row
      <4>3. \A s \in Task \ {g[w].t} : row'[s] = row[s]
        BY <3>2 DEF TypeOK
      <4> QED BY <3>2, <4>2, <4>3 DEF Undelivered, Exists
    <3> QED BY <1>8, <3>1, <3>2 DEF Do, UpdateHookTask, UpdateWebhookLastStatus, tables
  <2> QED BY <1>3, <2>1, <2>2, <2>3 DEF Unmarked
<1> QED BY <1>4, <1>5, <1>6, <1>7, <1>8 DEF Handle
(* The administration takes rows away, and nothing else of this.           *)
LEMMA HeldByAdministration ==
  ASSUME TypeOK, NEW t \in Task, Undelivered(t)', Undelivered(t) => Held(t), Administration
  PROVE  Held(t)'
<1>1. UNCHANGED << queue, phase, populate, g, r, dropped >>
  BY DEF Administration, EditWebhook, UpdateWebhook, DeleteWebhook, CleanupPerWebhook, CleanupOlderThan, process, history
<1>2. Undelivered(t)
  BY DEF Administration, EditWebhook, UpdateWebhook, DeleteWebhook, CleanupPerWebhook, CleanupOlderThan, Remove,
         Undelivered, Exists
<1> QED BY <1>1, <1>2, HeldFrame DEF Held

LEMMA HeldByGone ==
  ASSUME TypeOK, NEW p \in Process, NEW t \in Task, Undelivered(t)', Undelivered(t) => Held(t),
         NEW L \in SUBSET Known, Gone(p, L)
  PROVE  Held(t)'
<1>1. UNCHANGED row /\ UNCHANGED persistent
  BY DEF Gone, tables
<1>2. Undelivered(t) /\ Held(t)
  BY <1>1 DEF Undelivered, Exists
<1>3. t \in dropped => t \in dropped'
  BY DEF Gone
<1>4. ASSUME NEW o \in Process, t \in queue[o] PROVE Queued(t)' \/ t \in dropped'
  <2>1. CASE persistent \/ o # p
    <3>1. t \in L \/ t \in queue'[o]
      BY <1>4, <2>1 DEF Gone, TypeOK
    <3> QED BY <3>1 DEF Gone, Queued
  <2>2. CASE ~persistent /\ o = p
    BY <1>2, <1>4, <2>2 DEF Gone
  <2> QED BY <2>1, <2>2
<1>5. ASSUME NEW o \in Process, t \in Unpushed(o) PROVE Awaited(t)' \/ t \in dropped'
  <2>1. CASE o = p
    BY <1>2, <1>5, <2>1 DEF Gone
  <2>2. CASE o # p
    <3>1. phase'[o] = phase[o] /\ populate'[o] = populate[o]
      BY <2>2 DEF Gone, TypeOK
    <3> QED BY <1>1, <1>5, <3>1 DEF Awaited, Unpushed, Populating, Undelivered, Exists
  <2> QED BY <2>1, <2>2
<1>6. ASSUME NEW w \in Worker, t \in Unmarked(w) PROVE Worked(t)' \/ t \in dropped'
  <2>1. CASE Home[w] = p
    BY <1>2, <1>6, <2>1 DEF Gone, WorkersOf
  <2>2. CASE Home[w] # p
    <3>1. g'[w] = g[w]
      BY <2>2 DEF Gone
    <3> QED BY <1>6, <3>1 DEF Worked, Unmarked
  <2> QED BY <2>1, <2>2
<1>7. ASSUME NEW q \in Requester, r[q].pc = "push", r[q].t = t PROVE Pushed(t)' \/ t \in dropped'
  <2>1. CASE q \in RequestsOf(p)
    BY <1>2, <1>7, <2>1 DEF Gone
  <2>2. CASE q \notin RequestsOf(p)
    <3>1. r'[q] = r[q]
      BY <2>2 DEF Gone
    <3> QED BY <1>7, <3>1 DEF Pushed
  <2> QED BY <2>1, <2>2
<1> QED BY <1>2, <1>3, <1>4, <1>5, <1>6, <1>7 DEF Held, Queued, Awaited, Worked, Pushed

LEMMA HeldByProcesses ==
  ASSUME TypeOK, Fresh, NEW p \in Process, NEW t \in Task, Undelivered(t)', Undelivered(t) => Held(t),
         Start(p) \/ Shutdown(p) \/ Hammer(p) \/ End(p) \/ Crash(p)
  PROVE  Held(t)'
<1>1. UNCHANGED row
  BY DEF Start, Shutdown, Hammer, End, Crash, Gone, tables
<1>2. Undelivered(t) /\ Held(t)
  BY <1>1 DEF Undelivered, Exists
<1>3. CASE Start(p)
  <2>1. phase'[p] = "up" /\ populate'[p] = NotBegun
    BY <1>3 DEF Start, Fresh, TypeOK
  <2>2. NotBegun.lower = 0 /\ NotBegun.ended = FALSE /\ t > 0
    BY DEF NotBegun, Task
  <2>3. t \in Unpushed(p)'
    BY <2>1, <2>2 DEF Unpushed, Populating
  <2> QED BY <2>3 DEF Held, Awaited
<1>4. CASE Shutdown(p)
  <2>1. /\ UNCHANGED << queue, g, r >> /\ dropped' = dropped \cup Unpushed(p)
        /\ \A o \in Process \ {p} : phase'[o] = phase[o] /\ populate'[o] = populate[o]
    BY <1>4 DEF Shutdown, TypeOK
  <2>2. Awaited(t) => Awaited(t)' \/ t \in dropped'
    BY <1>1, <2>1 DEF Awaited, Unpushed, Populating, Undelivered, Exists
  <2> QED BY <1>2, <2>1, <2>2, HeldFrame DEF Held
<1>5. CASE Hammer(p)
  <2>1. UNCHANGED << queue, populate, g, r, dropped >> /\ \A o \in Process : phase[o] = "up" => phase'[o] = "up"
    BY <1>5 DEF Hammer, history, TypeOK
  <2>2. Awaited(t) => Awaited(t)'
    BY <1>1, <2>1 DEF Awaited, Unpushed, Populating, Undelivered, Exists
  <2> QED BY <1>2, <2>1, <2>2, HeldFrame DEF Held
<1> QED BY <1>2, <1>3, <1>4, <1>5, EndsGone, HeldByGone

(* A task whose answer is lost has been given up. *)
LEMMA HeldByPopFails ==
  ASSUME TypeOK, NEW p \in Process, NEW t \in Task, Undelivered(t)', Undelivered(t) => Held(t), PopFails(p)
  PROVE  Held(t)'
<1>1. UNCHANGED << row, phase, populate, g, r >> /\ Undelivered(t) /\ Held(t)
  BY DEF PopFails, tables, Undelivered, Exists
<1>2. Queued(t) => Queued(t)' \/ t \in dropped'
  BY DEF PopFails, Queued, TypeOK
<1>3. dropped \subseteq dropped'
  BY DEF PopFails
<1> QED BY <1>1, <1>2, <1>3, HeldFrame DEF Held

LEMMA FreshNext == TypeOK /\ Fresh /\ [Next]_vars => Fresh'
<1> SUFFICES ASSUME TypeOK, Fresh, [Next]_vars, NEW o \in Process, phase'[o] = "new"
             PROVE  populate'[o] = NotBegun
  BY DEF Fresh
<1>1. phase[o] = "new"
  BY DEF Next, Request, Populate, Handle, PrepareWebhooks, TestWebhook, CreateHookTask, EnqueueHookTask, EnqueueFails,
         PopulateFinds, FindFails, PopulatePushes, PopFails, HandlerTakes, GetHookTask, MarkTaskDelivered, MarkFails, Do, UpdateHookTask,
         UpdateWebhookLastStatus, EditWebhook, UpdateWebhook, DeleteWebhook, CleanupPerWebhook, CleanupOlderThan,
         Start, Shutdown, Hammer, End, Crash, Gone, process, vars, TypeOK
<1>2. ASSUME NEW p \in Process, Populate(p) PROVE populate'[o] = populate[o]
  <2>1. p # o
    BY <1>1, <1>2 DEF Populate, PopulateFinds, FindFails, PopulatePushes, Populating
  <2> QED BY <1>2, <2>1 DEF Populate, PopulateFinds, FindFails, PopulatePushes, TypeOK
<1>3. ASSUME NEW p \in Process, Shutdown(p) \/ \E L : Gone(p, L) PROVE populate'[o] \in {populate[o], NotBegun}
  BY <1>3 DEF Shutdown, Gone, TypeOK
<1> QED BY <1>1, <1>2, <1>3
        DEF Fresh, Next, Request, Handle, PrepareWebhooks, TestWebhook, CreateHookTask, EnqueueHookTask, EnqueueFails,
         PopFails, HandlerTakes, GetHookTask, MarkTaskDelivered, MarkFails, Do, UpdateHookTask,
         UpdateWebhookLastStatus, EditWebhook, UpdateWebhook, DeleteWebhook, CleanupPerWebhook, CleanupOlderThan,
         Start, Hammer, End, Crash, process, vars

(* Nothing undelivered is forgotten: it is in a queue, with a worker,      *)
(* about to be pushed or to be found, or given up since the last start     *)
(* (webhook.go:97-128, deliver.go:300-328).                                *)
THEOREM NoneForgotten == Spec => []UndeliveredIsOwed
<1>1. Init => HeldInv
  BY DEF Init, HeldInv, Fresh, Undelivered, Exists
<1>2. ASSUME TypeOK, HeldInv, [Next]_vars PROVE HeldInv'
  <2>1. Fresh'
    BY <1>2, FreshNext DEF HeldInv
  <2>2. ASSUME NEW t \in Task, Undelivered(t)' PROVE Held(t)'
    <3>1. Fresh /\ (Undelivered(t) => Held(t))
      BY <1>2 DEF HeldInv
    <3>2. CASE UNCHANGED vars
      BY <2>2, <3>1, <3>2, HeldFrame DEF vars, tables, process, history, Held, Undelivered, Exists
    <3> QED BY <1>2, <2>2, <3>1, <3>2, EditedAreHooks, HeldByRequests, HeldByPopulate, HeldByWorkers,
               HeldByAdministration, HeldByProcesses, HeldByPopFails DEF Next, Administration
  <2> QED BY <2>1, <2>2 DEF HeldInv
<1>3. HeldInv => UndeliveredIsOwed
  BY HeldIsOwed DEF HeldInv
<1> QED BY <1>1, <1>2, <1>3, TypeCorrect, PTL DEF Spec
(***************************************************************************)
(* Outcomes: a task that was marked stays in flight until its outcome is   *)
(* in the table or lost.                                                   *)
(***************************************************************************)
Blank(t)  == Exists(t) /\ row[t].delivered /\ row[t].outcome = "none"
Flying(t) == \E w \in Worker : t \in InFlight(w)

LEMMA FlyingFrame ==
  ASSUME TypeOK, DeliveredHasOutcome, NEW t \in Task, Blank(t)', Blank(t), torn \subseteq torn',
         \A w \in Worker : t \in InFlight(w) => t \in InFlight(w)' \/ t \in torn'
  PROVE  (t \in torn \/ Flying(t))'
BY DEF DeliveredHasOutcome, Blank, Flying

LEMMA OutcomeNext == TypeOK /\ DeliveredHasOutcome /\ [Next]_vars => DeliveredHasOutcome'
<1> SUFFICES ASSUME TypeOK, DeliveredHasOutcome, [Next]_vars, NEW t \in Task, Blank(t)'
             PROVE  (t \in torn \/ Flying(t))'
  BY DEF DeliveredHasOutcome, Blank, Flying
<1>1. ASSUME NEW q \in Requester, Request(q) \/ \E p \in Process : PrepareWebhooks(q, p) \/ TestWebhook(q, p)
      PROVE  (t \in torn \/ Flying(t))'
  <2>1. UNCHANGED << g, torn >>
    BY <1>1 DEF Request, CreateHookTask, EnqueueHookTask, EnqueueFails, PrepareWebhooks, TestWebhook, history
  <2>2. Blank(t)
    <3>1. CASE CreateHookTask(q)
      <4>1. PICK h, now : row' = [row EXCEPT ![nextId] = NewTask(h, now)]
        BY <3>1 DEF CreateHookTask
      <4>2. t # nextId
        BY <4>1 DEF Blank, NewTask, TypeOK
      <4> QED BY <4>1, <4>2 DEF Blank, Exists, TypeOK
    <3>2. CASE UNCHANGED row
      BY <3>2 DEF Blank, Exists
    <3> QED BY <1>1, <3>1, <3>2 DEF Request, EnqueueHookTask, EnqueueFails, PrepareWebhooks, TestWebhook, tables
  <2> QED BY <2>1, <2>2, FlyingFrame DEF InFlight
<1>2. ASSUME NEW p \in Process, Populate(p) PROVE (t \in torn \/ Flying(t))'
  <2>1. UNCHANGED << row, g, torn >>
    BY <1>2 DEF Populate, PopulateFinds, FindFails, PopulatePushes, tables, history
  <2> QED BY <2>1, FlyingFrame DEF InFlight, Blank, Exists
<1>3. ASSUME NEW w \in Worker, Handle(w) PROVE (t \in torn \/ Flying(t))'
  <2>1. \A v \in Worker \ {w} : g'[v] = g[v]
    BY <1>3 DEF Handle, HandlerTakes, GetHookTask, Skip, MarkTaskDelivered, Goto, MarkFails, GiveUp, NextTask, Do,
                Answered, UpdateHookTask, UpdateWebhookLastStatus, TypeOK
  <2>2. ASSUME Blank(t), torn \subseteq torn', t \in InFlight(w) => t \in InFlight(w)' \/ t \in torn'
        PROVE  (t \in torn \/ Flying(t))'
    BY <2>1, <2>2, FlyingFrame DEF InFlight
  <2>3. CASE HandlerTakes(w) \/ GetHookTask(w) \/ MarkFails(w) \/ UpdateWebhookLastStatus(w)
    <3>1. g[w].pc \in {"idle", "mark", "status"}
      BY <2>3 DEF HandlerTakes, Idle, GetHookTask, MarkFails, UpdateWebhookLastStatus, At
    <3>2. CASE UNCHANGED << row, torn >>
      BY <2>2, <3>1, <3>2 DEF InFlight, Blank, Exists
    <3>3. CASE MarkFails(w) /\ row' = [row EXCEPT ![g[w].t].delivered = TRUE] /\ torn' = torn \cup {g[w].t}
      <4>1. t = g[w].t \/ Blank(t)
        BY <3>3 DEF Blank, Exists, TypeOK
      <4> QED BY <2>2, <3>1, <3>3, <4>1 DEF InFlight
    <3> QED BY <2>3, <3>2, <3>3 DEF HandlerTakes, GetHookTask, MarkFails, UpdateWebhookLastStatus, tables, history
  <2>4. CASE MarkTaskDelivered(w)
    <3>1. g[w].pc = "mark" /\ g[w].t \in Task /\ UNCHANGED torn
      BY <2>4, WorkOf DEF MarkTaskDelivered, At
    <3>2. CASE MayMark(g[w].t)
      <4>1. row' = [row EXCEPT ![g[w].t].delivered = TRUE] /\ g' = [g EXCEPT ![w].pc = "send"]
        BY <2>4, <3>2 DEF MarkTaskDelivered, Goto
      <4>2. CASE t = g[w].t
        <5>1. g'[w].pc = "send" /\ g'[w].t = t
          BY <4>1, <4>2 DEF TypeOK
        <5> QED BY <5>1 DEF Flying, InFlight
      <4>3. CASE t # g[w].t
        <5>1. Blank(t)
          BY <4>1, <4>3 DEF Blank, Exists, TypeOK
        <5> QED BY <2>2, <3>1, <5>1 DEF InFlight
      <4> QED BY <4>2, <4>3
    <3>3. CASE ~MayMark(g[w].t)
      BY <2>2, <2>4, <3>1, <3>3 DEF MarkTaskDelivered, InFlight, Blank, Exists
    <3> QED BY <3>2, <3>3
  <2>5. CASE Do(w)
    <3>1. PICK ok \in BOOLEAN : Answered(w, ok)
      BY <2>5 DEF Do
    <3>2. g' = [g EXCEPT ![w].pc = "record", ![w].active = FALSE, ![w].ok = ok] /\ g[w].pc = "send"
      BY <2>5, <3>1 DEF Answered, Do, At
    <3>3. g'[w].pc = "record" /\ g'[w].t = g[w].t
      <4>1. g'[w] = [g[w] EXCEPT !.pc = "record", !.active = FALSE, !.ok = ok]
        BY <3>2 DEF TypeOK
      <4> QED BY <4>1, WorkOf DEF Work
    <3>4. UNCHANGED << row, torn >>
      BY <2>5 DEF Do, tables
    <3> QED BY <2>2, <3>3, <3>4, <3>2 DEF InFlight, Blank, Exists
  <2>6. CASE UpdateHookTask(w)
    <3>1. g[w].pc = "record" /\ g[w].t \in Task /\ InFlight(w) = {g[w].t}
      BY <2>6, WorkOf DEF UpdateHookTask, At, InFlight
    <3>2. CASE torn' = torn \cup {g[w].t} /\ UNCHANGED row
      BY <2>2, <3>1, <3>2 DEF Blank, Exists
    <3>3. CASE UNCHANGED << row, torn >> /\ ~Exists(g[w].t)
      BY <2>2, <3>1, <3>3 DEF Blank, Exists
    <3>4. ASSUME NEW now, Exists(g[w].t), UNCHANGED torn,
                 row' = [row EXCEPT ![g[w].t].stamp = now, ![g[w].t].outcome = Result(w)]
          PROVE  (t \in torn \/ Flying(t))'
      <4>1. row[g[w].t] \in Row
        BY <3>1, <3>4, RowOf
      <4>2. row'[g[w].t].outcome = Result(w)
        BY <3>1, <3>4, <4>1 DEF TypeOK, Row
      <4>3. t # g[w].t
        BY <4>2 DEF Blank, Result
      <4>4. Blank(t)
        BY <3>4, <4>3 DEF Blank, Exists, TypeOK
      <4> QED BY <2>2, <3>1, <3>4, <4>3, <4>4
    <3> QED BY <2>6, <3>2, <3>3, <3>4 DEF UpdateHookTask
  <2> QED BY <1>3, <2>3, <2>4, <2>5, <2>6 DEF Handle
<1>4. CASE Administration
  <2>1. UNCHANGED << g, torn >>
    BY <1>4 DEF Administration, EditWebhook, UpdateWebhook, DeleteWebhook, CleanupPerWebhook, CleanupOlderThan, history
  <2>2. Blank(t)
    BY <1>4 DEF Administration, EditWebhook, UpdateWebhook, DeleteWebhook, CleanupPerWebhook, CleanupOlderThan,
                Remove, Blank, Exists
  <2> QED BY <2>1, <2>2, FlyingFrame DEF InFlight
<1>5. ASSUME NEW p \in Process, Start(p) \/ Shutdown(p) \/ Hammer(p) \/ End(p) \/ Crash(p)
      PROVE  (t \in torn \/ Flying(t))'
  <2>1. UNCHANGED row
    BY <1>5 DEF Start, Shutdown, Hammer, End, Crash, Gone, tables
  <2>2. CASE UNCHANGED << g, torn >>
    BY <2>1, <2>2, FlyingFrame DEF InFlight, Blank, Exists
  <2>3. ASSUME NEW L, Gone(p, L) PROVE (t \in torn \/ Flying(t))'
    <3>1. torn \subseteq torn' /\ \A w \in WorkersOf(p) : InFlight(w) \subseteq torn'
      BY <2>3 DEF Gone
    <3>2. \A w \in Worker : w \in WorkersOf(p) \/ g'[w] = g[w]
      BY <2>3 DEF Gone, WorkersOf
    <3> QED BY <2>1, <3>1, <3>2, FlyingFrame DEF InFlight, Blank, Exists
  <2> QED BY <1>5, <2>2, <2>3 DEF Start, Shutdown, Hammer, End, Crash, history
<1>6. ASSUME NEW p \in Process, PopFails(p) PROVE (t \in torn \/ Flying(t))'
  BY <1>6, FlyingFrame DEF PopFails, tables, InFlight, Blank, Exists
<1>7. CASE UNCHANGED vars
  BY <1>7, FlyingFrame DEF vars, tables, history, InFlight, Blank, Exists
<1> QED BY <1>1, <1>2, <1>3, <1>4, <1>5, <1>6, <1>7, EditedAreHooks DEF Next, Administration

(* A task marked as delivered has its outcome, is being sent, or its       *)
(* outcome was lost (deliver.go:176-200).                                  *)
THEOREM MarkedThenRecorded == Spec => []DeliveredHasOutcome
<1>1. Init => DeliveredHasOutcome
  BY DEF Init, DeliveredHasOutcome, Exists
<1> QED BY <1>1, OutcomeNext, TypeCorrect, PTL DEF Spec
===============================================================================
