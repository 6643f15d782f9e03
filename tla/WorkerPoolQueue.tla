--------------------------- MODULE WorkerPoolQueue ---------------------------
(***************************************************************************)
(* modules/queue/workergroup.go and workerqueue.go: a queue of Gitea.      *)
(*                                                                         *)
(* Goroutines: the callers of Push, RemoveAllItems, SetWorkerMaxNumber,    *)
(* FlushWithContext and ShutdownWait; the popper, which moves items from   *)
(* the base queue to popItemChan; the dispatcher (doRun), which gathers    *)
(* batches and hands them to workers over the unbuffered batchChan; the    *)
(* workers.  A rendezvous on an unbuffered channel is one step that moves  *)
(* the items from the sender to the receiver.                              *)
(*                                                                         *)
(* An item is a push: two pushes of equal data are two items.  The base    *)
(* queue is a simple (not unique) baseChannel of BaseLength items, whose   *)
(* mutex the popper, RemoveAll and Len take, but not a push.               *)
(***************************************************************************)
EXTENDS Integers, FiniteSets, Sequences

CONSTANTS
  Item,          \* the pushes that are ever made
  Worker,        \* goroutine slots for workers; a slot is reused when its worker has ended
  BaseLength,    \* BaseConfig.Length
  BatchLength,   \* q.batchLength
  WorkerLimit,   \* bound: the largest workerMaxNum an administrator sets
  MaxFailures,   \* bound: how often handlers return unhandled items
  MaxFlush       \* bound: flush requests made

ASSUME ConstantsAssumption ==
  /\ IsFiniteSet(Item)
  /\ IsFiniteSet(Worker)
  /\ Worker \cap {"popper", "buffer", "batch", "flusher", "handled", "removed", "lost"} = {}
  /\ BaseLength \in Nat \ {0}
  /\ BatchLength \in Nat \ {0}
  /\ WorkerLimit \in Nat
  /\ MaxFailures \in Nat
  /\ MaxFlush \in Nat
  /\ Cardinality(Worker) >= 1
  /\ Cardinality(Worker) >= WorkerLimit

(* Where items are once they have left the base queue: with the popper,    *)
(* in wg.batchBuffer, in the local batch of doDispatchBatchToWorker, in a  *)
(* doWorkerHandle call of the dispatcher itself ("flusher") or of a        *)
(* worker; or finished.                                                    *)
Handler  == Worker \cup {"flusher"}
Finished == {"handled", "removed", "lost"}
Place    == Handler \cup {"popper", "buffer", "batch"} \cup Finished

VARIABLES
  accepted,          \* history: the items whose Push returned nil
  base,              \* the base queue, oldest item first
  at,                \* the items at each place
  popWaits,          \* the popper has received its item and waits for the mutex
  removal,           \* RemoveAll: it holds the mutex unless it is "idle"
  popClosed,         \* popItemChan has been closed
  pc,                \* what the dispatcher is doing
  timer,             \* batchDispatchC is a running debounce timer
  flushAsked,        \* a requester is sending on flushChan
  flushing,          \* the dispatcher holds a flush request it has not closed
  st,                \* what each handler goroutine is doing
  workerNum, workerActiveNum, workerMaxNum,
  cancelled,         \* ctxRun is done
  failures, flushes  \* counters of the bounds

items     == << accepted, base, at >>
flushChan == << flushAsked, flushing >>
pool      == << st, workerNum, workerActiveNum >>
shared    == << popWaits, removal, popClosed, cancelled >>
env       == << workerMaxNum, failures, flushes >>

vars == << items, pc, timer, flushChan, pool, shared, env >>

(* The dispatcher: in doRun, in doDispatchBatchToWorker ("scaleFull" after  *)
(* a send that found no receiver), in doFlush ("flushOnce" when the base    *)
(* queue has been seen empty once), in the deferred function of doRun      *)
(* ("repushLate" when the timeout of basePushForShutdown has expired).      *)
DispatcherPC == {"select", "offer", "scale", "scaleFull", "send",
                 "flushDirect", "flushWait", "flushLoop", "flushOnce",
                 "drain", "repush", "repushLate", "await", "done"}
InFlushLoop  == pc \in {"flushLoop", "flushOnce"} /\ st["flusher"] = "off"

BaseItems  == {base[i] : i \in 1..Len(base)}
Somewhere(x, P) == \E p \in P : x \in at[p]

(* The items S go from one place to another. *)
Hand(S, from, to) == at' = [at EXCEPT ![from] = @ \ S, ![to] = @ \cup S]

(* Item x goes from a place to the end of the base queue, if it has room.  *)
Return(x, from) ==
  /\ Len(base) < BaseLength
  /\ base' = Append(base, x)
  /\ at' = [at EXCEPT ![from] = @ \ {x}]

(* Mutant of PushForShutdown: it still uses ctxRun.                        *)
PushForShutdown_CtxRun(x, from, expired) ==
  \/ Return(x, from)
  \/ /\ Len(base) >= BaseLength \/ expired \/ cancelled
     /\ Hand({x}, from, "lost")
     /\ UNCHANGED base

(* basePushForShutdown of one item: if the base queue stays full until     *)
(* shutdownTimeout the item is logged and lost.  The items of one call     *)
(* share the timeout: when it has expired, select may choose it even if    *)
(* there is room.  The timeout is never 0 (NewWorkerPoolQueueWithContext   *)
(* sets a default), so this always tries, and its result is true even if   *)
(* the item is lost.                                                       *)
PushForShutdown(x, from, expired) ==
  \/ Return(x, from)
  \/ /\ Len(base) >= BaseLength \/ expired
     /\ Hand({x}, from, "lost")
     /\ UNCHANGED base

(* doWorkerHandle is entered by h with all the items at a place.           *)
StartHandling(h, from) ==
  /\ Hand(at[from], from, h)
  /\ st' = [st EXCEPT ![h] = "handle"]
  /\ workerActiveNum' = workerActiveNum + 1

Active(h) == st[h] \in {"handle", "requeue", "force"}

(* Mutant of CtxWorkerDone: doFlush does not cancel the workers' context.  *)
CtxWorkerDone_NotFlushed == cancelled

(* doFlush has called ctxWorkerCancel, or the parent context is done.      *)
CtxWorkerDone == cancelled \/ pc \in {"flushWait", "flushLoop", "flushOnce"}

Init ==
  /\ accepted = {}
  /\ base = << >>
  /\ at = [p \in Place |-> {}]
  /\ popWaits = FALSE
  /\ removal = "idle"
  /\ popClosed = FALSE
  /\ pc = "select"
  /\ timer = FALSE
  /\ flushAsked = FALSE
  /\ flushing = FALSE
  /\ st = [h \in Handler |-> "off"]
  /\ workerNum = 0
  /\ workerActiveNum = 0
  /\ workerMaxNum \in 0..WorkerLimit
  /\ cancelled = FALSE
  /\ failures = 0
  /\ flushes = 0

-----------------------------------------------------------------------------
(* Callers of the queue.                                                   *)

(* Push: a full base queue makes it return DeadlineExceeded after          *)
(* pushBlockTime, which changes nothing.  After the cancellation select    *)
(* may still choose the send.                                              *)
Push(x) ==
  /\ x \notin accepted
  /\ Len(base) < BaseLength
  /\ accepted' = accepted \cup {x}
  /\ base' = Append(base, x)
  /\ UNCHANGED << at, pc, timer, flushChan, pool, shared, env >>

(* RemoveAllItems: the channel is received from until it is found empty,   *)
(* with the mutex held.                                                    *)
RemoveLock ==
  /\ removal = "idle"
  /\ base # << >>
  /\ removal' = "looping"
  /\ UNCHANGED << items, pc, timer, flushChan, pool, popWaits, popClosed, cancelled, env >>

RemoveNext ==
  /\ removal = "looping"
  /\ removal' = IF base = << >> THEN "idle" ELSE "receiving"
  /\ UNCHANGED << items, pc, timer, flushChan, pool, popWaits, popClosed, cancelled, env >>

(* The popper may have been faster: then this waits for a push.            *)
RemoveReceive ==
  /\ removal = "receiving"
  /\ base # << >>
  /\ removal' = "looping"
  /\ base' = Tail(base)
  /\ at' = [at EXCEPT !["removed"] = @ \cup {Head(base)}]
  /\ UNCHANGED << accepted, pc, timer, flushChan, pool, popWaits, popClosed, cancelled, env >>

SetWorkerMaxNumber(n) ==
  /\ workerMaxNum # n
  /\ workerMaxNum' = n
  /\ UNCHANGED << items, pc, timer, flushChan, pool, shared, failures, flushes >>

(* FlushWithContext waits to send its request on flushChan ...             *)
FlushWithContext ==
  /\ ~flushAsked
  /\ flushes < MaxFlush
  /\ flushes' = flushes + 1
  /\ flushAsked' = TRUE
  /\ UNCHANGED << items, pc, timer, flushing, pool, shared, workerMaxNum, failures >>

(* ... and gives up when its timeout is over or ctxRun is done.            *)
FlushGivesUp ==
  /\ flushAsked
  /\ flushAsked' = FALSE
  /\ UNCHANGED << items, pc, timer, flushing, pool, shared, env >>

(* Cancel, or ShutdownWait: ctxRunCancel. *)
Cancel ==
  /\ ~cancelled
  /\ cancelled' = TRUE
  /\ UNCHANGED << items, pc, timer, flushChan, pool, popWaits, removal, popClosed, env >>

-----------------------------------------------------------------------------
(* The popper: popItemByChan around PopItem of the base queue.             *)

PopItem ==
  /\ ~popClosed
  /\ at["popper"] = {}
  /\ base # << >>
  /\ base' = Tail(base)
  /\ at' = [at EXCEPT !["popper"] = {Head(base)}]
  /\ popWaits' = TRUE
  /\ UNCHANGED << accepted, pc, timer, flushChan, pool, removal, popClosed, cancelled, env >>

PopRemove ==
  /\ popWaits
  /\ removal = "idle"
  /\ popWaits' = FALSE
  /\ UNCHANGED << items, pc, timer, flushChan, pool, removal, popClosed, cancelled, env >>

PopItemCancelled ==
  /\ ~popClosed
  /\ at["popper"] = {}
  /\ cancelled
  /\ popClosed' = TRUE
  /\ UNCHANGED << items, pc, timer, flushChan, pool, popWaits, removal, cancelled, env >>

(* The popper is sending an item on popItemChan.                           *)
PopperSends == at["popper"] # {} /\ ~popWaits

-----------------------------------------------------------------------------
(* The dispatcher: doRun and what it calls.                                *)

(* Mutant: the debounce timer is not started.                              *)
StartTimer_Never   == timer' = timer
(* doDispatchBatchToWorker takes the buffer as its batch; it returns to    *)
(* doRun, or to doFlush if it was called for a flush; when ctxRun is done  *)
(* it returns the batch to the buffer.                                     *)
TakeBuffer  == Hand(at["buffer"], "buffer", "batch")
StartTimer  == timer' = TRUE
ReturnBatch == Hand(at["batch"], "batch", "buffer")
Continue    == IF flushing THEN "flushWait" ELSE "select"

(* case <-popItemChan: the item joins the batch buffer, which is           *)
(* dispatched when it is long enough; else the debounce timer is running.  *)
RunReceive ==
  /\ pc = "select"
  /\ PopperSends
  /\ LET gathered == at["buffer"] \cup at["popper"]
     IN  \/ /\ Cardinality(gathered) >= BatchLength
            /\ at' = [at EXCEPT !["popper"] = {}, !["buffer"] = {}, !["batch"] = gathered]
            /\ pc' = "offer"
            /\ timer' = timer
         \/ /\ Cardinality(gathered) < BatchLength
            /\ Hand(at["popper"], "popper", "buffer")
            /\ pc' = pc
            /\ StartTimer
  /\ UNCHANGED << accepted, base, flushChan, pool, shared, env >>

(* case <-batchDispatchC *)
RunTimer ==
  /\ pc = "select"
  /\ timer
  /\ timer' = FALSE
  /\ TakeBuffer
  /\ pc' = IF at["buffer"] = {} THEN "select" ELSE "offer"
  /\ UNCHANGED << accepted, base, flushChan, pool, shared, env >>

(* case flush := <-q.flushChan: dispatch the buffer, then doFlush.         *)
RunFlush ==
  /\ pc = "select"
  /\ flushAsked
  /\ flushAsked' = FALSE
  /\ flushing' = TRUE
  /\ TakeBuffer
  /\ pc' = IF at["buffer"] = {} THEN "flushWait" ELSE "offer"
  /\ UNCHANGED << accepted, base, timer, pool, shared, env >>

(* popItemChan or ctxRun is closed: doRun returns, its deferred function   *)
(* cancels ctxRun and closes batchChan.                                    *)
RunStops ==
  /\ pc = "select"
  /\ cancelled \/ popClosed
  /\ cancelled' = TRUE
  /\ pc' = "drain"
  /\ UNCHANGED << items, timer, flushChan, pool, popWaits, removal, popClosed, env >>

(* The non-blocking send finds a worker that is receiving ...              *)
DispatchOffer(w) ==
  /\ pc = "offer"
  /\ st[w] = "idle"
  /\ StartHandling(w, "batch")
  /\ pc' = "scale"
  /\ UNCHANGED << accepted, base, timer, flushChan, workerNum, shared, env >>

(* ... or none: even an idle worker may not have reached its select yet.   *)
DispatchFull ==
  /\ pc = "offer"
  /\ pc' = "scaleFull"
  /\ UNCHANGED << items, timer, flushChan, pool, shared, env >>

(* Mutant of MayStart: no worker is started above the limit, ever.         *)
MayStart_NoMinimum == workerNum < workerMaxNum

NeedsWorker == pc = "scaleFull" \/ workerNum = 0
MayStart    == workerNum < workerMaxNum \/ (workerNum = 0 /\ workerMaxNum <= 0)

(* Under workerNumMu: start another worker if one is needed and allowed.   *)
DispatchScale ==
  /\ pc \in {"scale", "scaleFull"}
  /\ \/ /\ NeedsWorker /\ MayStart
        /\ workerNum' = workerNum + 1
        /\ \E w \in Worker : /\ st[w] = "off"
                             /\ st' = [st EXCEPT ![w] = "idle"]
     \/ /\ ~(NeedsWorker /\ MayStart)
        /\ UNCHANGED << st, workerNum >>
  /\ pc' = IF pc = "scaleFull" THEN "send" ELSE Continue
  /\ UNCHANGED << items, timer, flushChan, workerActiveNum, shared, env >>

(* The blocking send.                                                      *)
DispatchSend(w) ==
  /\ pc = "send"
  /\ st[w] = "idle"
  /\ StartHandling(w, "batch")
  /\ pc' = Continue
  /\ UNCHANGED << accepted, base, timer, flushChan, workerNum, shared, env >>

(* A flush request arrives while the send blocks (not if this dispatch is  *)
(* itself part of a flush: it reads skipFlushChan): the dispatcher handles *)
(* the batch itself, then runs doFlush.                                    *)
DispatchFlush ==
  /\ pc = "send"
  /\ flushAsked
  /\ ~flushing
  /\ flushAsked' = FALSE
  /\ flushing' = TRUE
  /\ StartHandling("flusher", "batch")
  /\ pc' = "flushDirect"
  /\ UNCHANGED << accepted, base, timer, workerNum, shared, env >>

(* Mutant of DispatchCancelled: ctxRun is only looked at during a flush.   *)
DispatchCancelled_OnlyFlushing ==
  /\ pc = "send"
  /\ cancelled /\ flushing
  /\ ReturnBatch
  /\ pc' = Continue
  /\ UNCHANGED << accepted, base, timer, flushChan, pool, shared, env >>

(* case <-q.ctxRun.Done() *)
DispatchCancelled ==
  /\ pc = "send"
  /\ cancelled
  /\ ReturnBatch
  /\ pc' = Continue
  /\ UNCHANGED << accepted, base, timer, flushChan, pool, shared, env >>

(* doFlush: stop every worker and wait for them (batchChan is then empty), *)
(* handle what the popper delivers, item by item, and close the request    *)
(* when the base queue was seen empty twice or the queue is shut down.     *)
FlushDirectDone ==
  /\ pc = "flushDirect"
  /\ st["flusher"] = "off"
  /\ pc' = "flushWait"
  /\ UNCHANGED << items, timer, flushChan, pool, shared, env >>

(* Mutant of WorkersEnded: wg.Wait is left out.                            *)
WorkersEnded_NotAwaited == TRUE

WorkersEnded == \A w \in Worker : st[w] = "off"

FlushWaited ==
  /\ pc = "flushWait"
  /\ WorkersEnded
  /\ pc' = "flushLoop"
  /\ UNCHANGED << items, timer, flushChan, pool, shared, env >>

FlushReceive ==
  /\ InFlushLoop
  /\ PopperSends
  /\ StartHandling("flusher", "popper")
  /\ pc' = "flushLoop"
  /\ UNCHANGED << accepted, base, timer, flushChan, workerNum, shared, env >>

(* Len waits for the mutex.                                                *)
FlushTick ==
  /\ InFlushLoop
  /\ removal = "idle"
  /\ base = << >>
  /\ IF pc = "flushLoop"
       THEN pc' = "flushOnce" /\ flushing' = flushing
       ELSE pc' = "select" /\ flushing' = FALSE
  /\ UNCHANGED << items, timer, flushAsked, pool, shared, env >>

FlushStops ==
  /\ InFlushLoop
  /\ cancelled \/ popClosed
  /\ pc' = "select"
  /\ flushing' = FALSE
  /\ UNCHANGED << items, timer, flushAsked, pool, shared, env >>

(* The deferred function of doRun: collect what is on the fly until        *)
(* popItemChan is closed, push it back, wait for the workers.              *)
DrainReceive ==
  /\ pc = "drain"
  /\ PopperSends
  /\ Hand(at["popper"], "popper", "buffer")
  /\ UNCHANGED << accepted, base, pc, timer, flushChan, pool, shared, env >>

(* Mutant of RangeEnds: nobody waits for the popper to close its channel.  *)
RangeEnds_TooEarly == TRUE

RangeEnds == popClosed

DrainClosed ==
  /\ pc = "drain"
  /\ RangeEnds
  /\ pc' = "repush"
  /\ UNCHANGED << items, timer, flushChan, pool, shared, env >>

ShutdownPush(x) ==
  /\ pc \in {"repush", "repushLate"}
  /\ x \in at["buffer"]
  /\ PushForShutdown(x, "buffer", pc = "repushLate")
  /\ pc' = IF x \in at'["lost"] THEN "repushLate" ELSE pc
  /\ UNCHANGED << accepted, timer, flushChan, pool, shared, env >>

ShutdownPushed ==
  /\ pc \in {"repush", "repushLate"}
  /\ at["buffer"] = {}
  /\ pc' = "await"
  /\ UNCHANGED << items, timer, flushChan, pool, shared, env >>

(* The workers are done, or shutdownTimeout is over: close(shutdownDone).  *)
ShutdownWaited ==
  /\ pc = "await"
  /\ pc' = "done"
  /\ UNCHANGED << items, timer, flushChan, pool, shared, env >>

-----------------------------------------------------------------------------
(* doWorkerHandle, in a worker or in the dispatcher.                       *)

(* Mutant of Settle: the whole batch is requeued.                          *)
Settle_RequeuesBatch(h, U) == at' = [at EXCEPT !["handled"] = @ \cup (at[h] \ U)]

Settle(h, U) == Hand(at[h] \ U, h, "handled")

(* safeHandler returns: the items U are unhandled.  After a panic it       *)
(* returns nil, so nothing is.  The back-off after a wholly unhandled      *)
(* batch is the time until the next step.                                  *)
HandlerReturns(h) ==
  /\ st[h] = "handle"
  /\ \E U \in SUBSET at[h] :
       /\ U # {} => failures < MaxFailures
       /\ failures' = IF U = {} THEN failures ELSE failures + 1
       /\ Settle(h, U)
  /\ st' = [st EXCEPT ![h] = "requeue"]
  /\ UNCHANGED << accepted, base, pc, timer, flushChan, workerNum, workerActiveNum, shared,
                  workerMaxNum, flushes >>

(* Push of an unhandled item ...                                           *)
Requeue(h, x) ==
  /\ st[h] = "requeue"
  /\ x \in at[h]
  /\ Return(x, h)
  /\ UNCHANGED << accepted, pc, timer, flushChan, pool, shared, env >>

(* ... fails: the base queue stayed full for pushBlockTime, or ctxRun is   *)
(* done; basePushForShutdown follows.                                      *)
RequeueFails(h) ==
  /\ st[h] = "requeue"
  /\ at[h] # {}
  /\ Len(base) >= BaseLength \/ cancelled
  /\ st' = [st EXCEPT ![h] = "force"]
  /\ UNCHANGED << items, pc, timer, flushChan, workerNum, workerActiveNum, shared, env >>

ForcePush(h, x) ==
  /\ st[h] = "force"
  /\ x \in at[h]
  /\ PushForShutdown(x, h, FALSE)
  /\ st' = [st EXCEPT ![h] = "requeue"]
  /\ UNCHANGED << accepted, pc, timer, flushChan, workerNum, workerActiveNum, shared, env >>

HandleDone(h) ==
  /\ st[h] = "requeue"
  /\ at[h] = {}
  /\ workerActiveNum' = workerActiveNum - 1
  /\ st' = [st EXCEPT ![h] = IF h = "flusher" THEN "off" ELSE "idle"]
  /\ UNCHANGED << items, pc, timer, flushChan, workerNum, shared, env >>

-----------------------------------------------------------------------------
(* The worker's own select.                                                *)

(* Mutants: workerNum is not counted down; only workers above the limit    *)
(* end when idle.                                                          *)
StopWorking_NotCounted(w) ==
  /\ st' = [st EXCEPT ![w] = "off"]
  /\ UNCHANGED workerNum

MayEnd_AboveLimit == workerNum > workerMaxNum

(* Under workerNumMu: the worker goroutine ends.                           *)
StopWorking(w) ==
  /\ st' = [st EXCEPT ![w] = "off"]
  /\ workerNum' = workerNum - 1

(* An idle worker may end unless it is the last one.                       *)
MayEnd == workerNum > 1

(* case <-ctxWorker.Done(), or batchChan is closed.                        *)
WorkerStops(w) ==
  /\ st[w] = "idle"
  /\ CtxWorkerDone
  /\ StopWorking(w)
  /\ UNCHANGED << items, pc, timer, flushChan, workerActiveNum, shared, env >>

(* case <-t.C *)
WorkerIdle(w) ==
  /\ st[w] = "idle"
  /\ MayEnd
  /\ StopWorking(w)
  /\ UNCHANGED << items, pc, timer, flushChan, workerActiveNum, shared, env >>

-----------------------------------------------------------------------------
(* After ShutdownWait has returned nothing is left to do.                  *)
Stopped ==
  /\ pc = "done"
  /\ UNCHANGED vars

Removal == RemoveNext \/ RemoveReceive

Callers ==
  \/ \E x \in Item : Push(x)
  \/ RemoveLock
  \/ Removal
  \/ \E n \in 0..WorkerLimit : SetWorkerMaxNumber(n)
  \/ FlushWithContext
  \/ FlushGivesUp
  \/ Cancel

Popper == PopItem \/ PopRemove \/ PopItemCancelled

Run == RunReceive \/ RunTimer \/ RunFlush \/ RunStops

Dispatch ==
  \/ \E w \in Worker : DispatchOffer(w)
  \/ DispatchFull
  \/ DispatchScale
  \/ \E w \in Worker : DispatchSend(w)
  \/ DispatchFlush
  \/ DispatchCancelled

Flush == FlushDirectDone \/ FlushWaited \/ FlushReceive \/ FlushTick \/ FlushStops

Shutdown ==
  \/ DrainReceive
  \/ DrainClosed
  \/ \E x \in Item : ShutdownPush(x)
  \/ ShutdownPushed
  \/ ShutdownWaited

Dispatcher == Run \/ Dispatch \/ Flush \/ Shutdown

Requeueing(h) ==
  \/ \E x \in Item : Requeue(h, x)
  \/ RequeueFails(h)
  \/ \E x \in Item : ForcePush(h, x)
  \/ HandleDone(h)

WorkerSelect(w) == WorkerStops(w) \/ WorkerIdle(w)

Next ==
  \/ Callers
  \/ Popper
  \/ Dispatcher
  \/ \E h \in Handler : HandlerReturns(h) \/ Requeueing(h)
  \/ \E w \in Worker : WorkerSelect(w)
  \/ Stopped

Spec == Init /\ [][Next]_vars

(* The Go scheduler runs every goroutine that can run; the timers fire; a  *)
(* caller of FlushWithContext notices that ctxRun is done.  Handlers may   *)
(* hang.                                                                   *)
SchedulerFairness ==
  /\ WF_vars(Removal)
  /\ WF_vars(Popper)
  /\ WF_vars(Dispatcher)
  /\ \A w \in Worker : WF_vars(WorkerSelect(w))
  /\ \A h \in Handler : WF_vars(Requeueing(h))
  /\ WF_vars(cancelled /\ FlushGivesUp)

LiveSpec == Spec /\ SchedulerFairness

-----------------------------------------------------------------------------
(* Properties.                                                             *)

(* Every variable keeps its type; the base queue keeps its length; the     *)
(* popper holds one item at most, and none once its channel is closed.     *)
TypeOK ==
  /\ accepted \subseteq Item
  /\ base \in Seq(Item)
  /\ Len(base) <= BaseLength
  /\ at \in [Place -> SUBSET Item]
  /\ popWaits \in BOOLEAN
  /\ removal \in {"idle", "looping", "receiving"}
  /\ popClosed \in BOOLEAN
  /\ pc \in DispatcherPC
  /\ timer \in BOOLEAN
  /\ flushAsked \in BOOLEAN
  /\ flushing \in BOOLEAN
  /\ st \in [Handler -> {"off", "idle", "handle", "requeue", "force"}]
  /\ workerNum \in Int
  /\ workerActiveNum \in Int
  /\ workerMaxNum \in 0..WorkerLimit
  /\ cancelled \in BOOLEAN
  /\ failures \in 0..MaxFailures
  /\ flushes \in 0..MaxFlush

(* Whatever the goroutines, a flush and the shutdown do, an accepted item  *)
(* is somewhere: in the base queue, in the hands of a goroutine, or        *)
(* finished (workergroup.go:48-115, 179-298).                              *)
NothingVanishes ==
  \A x \in Item : x \in accepted <=> x \in BaseItems \/ Somewhere(x, Place)

(* An item is never in two places: no two workers handle it, it is not     *)
(* requeued while it is also handled, it is not handled twice              *)
(* (workergroup.go:48-115, 268-283).                                       *)
OnePlace ==
  /\ \A i, j \in 1..Len(base) : base[i] = base[j] => i = j
  /\ \A p \in Place : at[p] \cap BaseItems = {}
  /\ \A p, q \in Place : p # q => at[p] \cap at[q] = {}

(* The local batch of doDispatchBatchToWorker is only alive inside it: no   *)
(* return path forgets it (workergroup.go:48-83).                          *)
BatchInDispatch == at["batch"] # {} => pc \in {"offer", "scaleFull", "send"}

(* The inductive invariant of the proofs about items.                      *)
ItemInv == TypeOK /\ NothingVanishes /\ OnePlace /\ BatchInDispatch

(* workerNum counts the running workers and workerActiveNum those that are *)
(* in doWorkerHandle; the pool never outgrows its largest allowed size, a  *)
(* single worker being allowed always (workergroup.go:63-71, 87-96,        *)
(* 137-175).                                                               *)
Running  == {w \in Worker : st[w] # "off"}
Handling == {h \in Handler : Active(h)}

PoolAccounting ==
  /\ workerNum = Cardinality(Running)
  /\ workerActiveNum = Cardinality(Handling)
  /\ workerNum <= IF WorkerLimit = 0 THEN 1 ELSE WorkerLimit

(* The dispatcher handles items itself only while it flushes.              *)
FlusherInFlush ==
  /\ st["flusher"] # "idle"
  /\ st["flusher"] # "off" => pc \in {"flushDirect", "flushLoop"}

(* The dispatcher never blocks in its send with nobody left to receive:    *)
(* idle workers that end leave one behind (workergroup.go:63-82, 165-171). *)
BlockedSendHasWorker ==
  pc = "send" /\ ~cancelled => \E w \in Worker : st[w] # "off"

(* The inductive invariant of the proofs about the pool.                   *)
PoolInv == PoolAccounting /\ FlusherInFlush /\ BlockedSendHasWorker

(* When ShutdownWait returns, what is not finished is in the base queue,   *)
(* ready for the next start, or with a worker that outlived the timeout    *)
(* (workergroup.go:262-298).                                               *)
ShutdownLeavesNothing ==
  pc = "done" =>
    \A x \in accepted : x \in BaseItems \/ Somewhere(x, Finished \cup Worker)

(* However often handlers fail, an item is given up only when more items   *)
(* are unfinished than the base queue is long, or when the pushes of the   *)
(* shutdown have run into their timeout before (workergroup.go:98-134).    *)
Pending == accepted \ UNION {at[p] : p \in Finished}

LossNeedsOverload ==
  [][at'["lost"] # at["lost"] => Cardinality(Pending) > BaseLength \/ pc = "repushLate"]_vars

(* A flush that ends by itself has emptied the queue: whatever was         *)
(* accepted is finished, but for an item in the hands of the popper        *)
(* (workergroup.go:179-238).                                               *)
FlushDrains ==
  [][flushing /\ ~flushing' /\ ~cancelled =>
       \A x \in accepted : Somewhere(x, Finished \cup {"popper"})]_vars

(* What liveness rests on.  A handler does not hang; and RemoveAll, when   *)
(* the popper has taken the last item from under it, does not wait for     *)
(* ever, that is, some push comes: until then the popper, Len and all that *)
(* waits for them stand still (base_channel.go:74-80, 97, 119-125).        *)
HandlersReturn == \A h \in Handler : []<>(st[h] # "handle")

RemovalStarved == removal = "receiving" /\ base = << >> /\ popWaits
RemovalEnds    == []<>~RemovalStarved

(* An accepted item is finished in the end, unless the queue is shut down  *)
(* (workergroup.go:300-336, with 63-82 and 154-173).                       *)
EventuallyFinished ==
  RemovalEnds /\ HandlersReturn =>
    \A x \in Item : x \in accepted ~> Somewhere(x, Finished) \/ cancelled

(* Every flush request is taken or withdrawn, and what is taken is closed  *)
(* (workerqueue.go:109-131, workergroup.go:76-78, 179-238, 321-326).       *)
FlushAnswered ==
  RemovalEnds /\ HandlersReturn =>
    /\ flushAsked ~> ~flushAsked
    /\ flushing ~> ~flushing

(* ShutdownWait returns though handlers hang, but for those that a flush   *)
(* waits for (workerqueue.go:26, "in case some buggy handlers (workers)    *)
(* would hang forever, "shutdown" should finish in predictable time", and  *)
(* 187-193).                                                               *)
FlushHandlersReturn == \A h \in Handler : []<>~(flushing /\ st[h] = "handle")

ShutdownReturns == RemovalEnds /\ FlushHandlersReturn => (cancelled ~> pc = "done")

(* ... which is less than the comment says.                                *)
ShutdownInTime == cancelled ~> pc = "done"

(* The safety half of EventuallyFinished and FlushAnswered: until the      *)
(* shutdown, what has left the base queue is with a goroutine that will    *)
(* pass it on.  The debounce timer runs for a buffer that doRun waits      *)
(* with, who holds items is handling them, a flush request is held only on *)
(* the way to its end, and who waits for the mutex waits for RemoveAll,    *)
(* which has something to receive or is starved by the popper itself       *)
(* (workergroup.go:48-83, 98-135, 300-336, base_channel.go:72-131).        *)
OnTheWay == {"offer", "scale", "scaleFull", "send", "flushDirect", "flushWait", "flushLoop", "flushOnce"}

NothingStranded ==
  ~cancelled =>
    /\ at["buffer"] # {} => pc = "select" /\ timer
    /\ \A h \in Handler : at[h] # {} => Active(h)
    /\ flushing => pc \in OnTheWay
    /\ popWaits => at["popper"] # {} /\ ~popClosed
    /\ removal = "receiving" => base # << >> \/ RemovalStarved

(* The pool shrinks to one worker when there is nothing left to do         *)
(* (workergroup.go:165-171).                                               *)
PoolShrinks == HandlersReturn => <>[](workerNum <= 1)

(* The handler's failures lose no item while the queue is running (queue.go *)
(* 23-27, "the queue system ensures these unhandled items are returned to   *)
(* the base queue after a brief delay", "It ensures that no item is skipped *)
(* or lost due to transient failures"), not even when everybody else waits: *)
(* the popper for the dispatcher, the dispatcher for a worker, and every    *)
(* worker for room in the base queue.                                       *)
Stalled ==
  /\ ~cancelled
  /\ pc = "send"
  /\ at["popper"] # {}
  /\ Len(base) = BaseLength
  /\ \A w \in Worker : st[w] \in {"requeue", "force"}

UnhandledReturned == [][Stalled => at'["lost"] = at["lost"]]_vars

(* The promise of module WorkQueue, with each item's fate read off the     *)
(* place where it is.                                                      *)
FateOf(x) ==
  IF x \in at["lost"] THEN "lost"
  ELSE IF x \in at["removed"] THEN "removed"
  ELSE IF x \in at["handled"] THEN "handled"
  ELSE IF x \in accepted THEN "pending" ELSE "new"

Promise == INSTANCE WorkQueue WITH fate <- [x \in Item |-> FateOf(x)]

ImplementsWorkQueue == Promise!Spec
==============================================================================
