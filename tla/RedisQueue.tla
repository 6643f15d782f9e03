------------------------------ MODULE RedisQueue ------------------------------
(***************************************************************************)
(* modules/queue/base_redis.go and backoff.go: a unique base queue in      *)
(* redis, shared by the nodes of a cluster.                                *)
(*                                                                         *)
(* The queue is a list and a set of the data in it; no transaction covers  *)
(* both.  On each node the mutex of baseRedis admits one operation at a    *)
(* time, which is op[n]; between its redis calls other nodes make theirs.  *)
(* A call whose context is done, or whose connection breaks, returns an    *)
(* error, and redis may have executed it or not.                           *)
(*                                                                         *)
(* Of WorkerPoolQueue the model keeps what uses the base queue: the items  *)
(* a node has popped are on the fly to its handlers, with a handler, or on *)
(* their way back, through Push or basePushForShutdown; and the process    *)
(* ends when doRun has pushed back what was on the fly and the workers are *)
(* done or the shutdown timeout is over (workergroup.go:108-134, 262-297). *)
(***************************************************************************)
EXTENDS BaseQueue

CONSTANTS
  Node,        \* the processes of the cluster
  MaxPush,     \* bound: calls of Push
  MaxRemove,   \* bound: calls of RemoveAll
  MaxEnd,      \* bound: ends of a process, in order or not
  FlakyRedis   \* connections may break

ASSUME ConstantsAssumption ==
  /\ IsFiniteSet(Node)
  /\ MaxPush \in Nat
  /\ MaxRemove \in Nat
  /\ MaxEnd \in Nat
  /\ FlakyRedis \in BOOLEAN

VARIABLES
  list, set,   \* the two keys in redis
  op,          \* the operation of each node and how far it is
  fly,         \* items a node has popped, in popItemChan, batchBuffer or batchChan
  hand,        \* items with the handlers of a node
  back,        \* items a worker returns as unhandled
  cancelled,   \* the nodes whose ctxRun is done ...
  draining,    \* ... and the popper ended: doRun empties the channels
  owed,        \* history: items pushed, since then not handled, removed or let go of
  spoiled,     \* history: items whose call an error or the process's end interrupted
  pushes, removals, ends   \* counters of the bounds

redis   == << list, set >>
popped  == << fly, hand, back >>
bounds  == << pushes, removals, ends >>
history == << owed, spoiled, bounds >>
vars    == << redis, op, popped, cancelled, draining, history >>

(* Who pushes: with ctxRun a caller of Push, and doWorkerHandle with an    *)
(* unhandled item; with the context of basePushForShutdown doWorkerHandle, *)
(* and doRun with what was on the fly.                                     *)
Via == {"caller", "requeue", "force", "drain"}

Op   == {Idle, [step |-> "removing"]}
          \cup [step : {"counted", "reserved"}, item : Item, via : Via]
          \cup [step : {"popped"}, item : Item]

Listed          == {list[i] : i \in 1..Len(list)}
Doing(n, steps) == op[n].step \in steps
Spoil(X)        == spoiled' = spoiled \cup X

Alive(n, via)   == via \in {"force", "drain"} \/ n \notin cancelled
MayFail(n, via) == ~Alive(n, via) \/ FlakyRedis

Init ==
  /\ list = << >>
  /\ set = {}
  /\ op = [n \in Node |-> Idle]
  /\ fly = [n \in Node |-> {}]
  /\ hand = [n \in Node |-> {}]
  /\ back = [n \in Node |-> {}]
  /\ cancelled = {}
  /\ draining = {}
  /\ owed = {}
  /\ spoiled = {}
  /\ pushes = 0
  /\ removals = 0
  /\ ends = 0

-----------------------------------------------------------------------------
(* PushItem.                                                               *)

HasRoom  == Len(list) < Length
IsNew(x) == x \notin set

MayPush(n, x, via) ==
  \/ via = "caller"  /\ n \notin cancelled /\ pushes < MaxPush
  \/ via = "requeue" /\ n \notin cancelled /\ x \in back[n]
  \/ via = "force"   /\ n \in cancelled /\ x \in back[n]
  \/ via = "drain"   /\ n \in draining /\ x \in fly[n]

(* The push of x ends.  The node keeps it only to force it into the queue, *)
(* when Push has failed and the queue is shutting down: every other error  *)
(* is only logged.                                                         *)
Leaves(n, x, via, ok) ==
  /\ back' = IF via = "force" \/ (via = "requeue" /\ (ok \/ n \notin cancelled))
               THEN [back EXCEPT ![n] = @ \ {x}] ELSE back
  /\ fly' = IF via = "drain" THEN [fly EXCEPT ![n] = @ \ {x}] ELSE fly

EndPush(n, ok) ==
  /\ op' = [op EXCEPT ![n] = Idle]
  /\ Leaves(n, op[n].item, op[n].via, ok)

(* LLEN; a full queue is tried again ...                                   *)
PushLen(n, x, via) ==
  /\ op[n] = Idle
  /\ MayPush(n, x, via)
  /\ HasRoom
  /\ op' = [op EXCEPT ![n] = [step |-> "counted", item |-> x, via |-> via]]
  /\ pushes' = IF via = "caller" THEN pushes + 1 ELSE pushes
  /\ UNCHANGED << redis, popped, cancelled, draining, owed, spoiled, removals, ends >>

(* ... until pushBlockTime or the shutdown timeout is over ...             *)
PushTimesOut(n, x, via) ==
  /\ op[n] = Idle
  /\ via # "caller"
  /\ MayPush(n, x, via)
  /\ ~HasRoom
  /\ Leaves(n, x, via, FALSE)
  /\ owed' = owed \ {x}
  /\ UNCHANGED << redis, op, hand, cancelled, draining, spoiled, bounds >>

(* ... and an error of LLEN ends the push.                                 *)
PushLenFails(n, x, via) ==
  /\ op[n] = Idle
  /\ FlakyRedis
  /\ via # "caller"
  /\ MayPush(n, x, via)
  /\ Leaves(n, x, via, FALSE)
  /\ owed' = owed \ {x}
  /\ UNCHANGED << redis, op, hand, cancelled, draining, spoiled, bounds >>

PushSAdd(n) ==
  /\ Doing(n, {"counted"})
  /\ Alive(n, op[n].via)
  /\ \/ /\ IsNew(op[n].item)
        /\ set' = set \cup {op[n].item}
        /\ op' = [op EXCEPT ![n] = [step |-> "reserved", item |-> @.item, via |-> @.via]]
        /\ UNCHANGED << fly, back >>
     \/ /\ ~IsNew(op[n].item)       \* ErrAlreadyInQueue
        /\ EndPush(n, FALSE)
        /\ UNCHANGED set
  /\ UNCHANGED << list, hand, cancelled, draining, history >>

PushSAddFails(n) ==
  /\ Doing(n, {"counted"})
  /\ MayFail(n, op[n].via)
  /\ set' \in {set, set \cup {op[n].item}}
  /\ EndPush(n, FALSE)
  /\ Spoil({op[n].item})
  /\ UNCHANGED << list, hand, cancelled, draining, owed, bounds >>

PushRPush(n) ==
  /\ Doing(n, {"reserved"})
  /\ Alive(n, op[n].via)
  /\ list' = Append(list, op[n].item)
  /\ owed' = owed \cup {op[n].item}
  /\ EndPush(n, TRUE)
  /\ UNCHANGED << set, hand, cancelled, draining, spoiled, bounds >>

PushRPushFails(n) ==
  /\ Doing(n, {"reserved"})
  /\ MayFail(n, op[n].via)
  /\ list' \in {list, Append(list, op[n].item)}
  /\ EndPush(n, FALSE)
  /\ Spoil({op[n].item})
  /\ UNCHANGED << set, hand, cancelled, draining, owed, bounds >>

-----------------------------------------------------------------------------
(* PopItem, by the popper of a node.                                       *)

TakeFirst(n) ==
  /\ list # << >>
  /\ list' = Tail(list)
  /\ op' = [op EXCEPT ![n] = [step |-> "popped", item |-> Head(list)]]

PopLPop(n) ==
  /\ op[n] = Idle
  /\ n \notin cancelled
  /\ TakeFirst(n)
  /\ UNCHANGED << set, popped, cancelled, draining, history >>

(* An error is taken for an empty list: the popper tries again.            *)
PopLPopFails(n) ==
  /\ op[n] = Idle
  /\ MayFail(n, "caller")
  /\ list # << >>
  /\ list' = Tail(list)
  /\ Spoil({Head(list)})
  /\ UNCHANGED << set, op, popped, cancelled, draining, owed, bounds >>

Deliver(n) ==
  /\ op' = [op EXCEPT ![n] = Idle]
  /\ fly' = [fly EXCEPT ![n] = @ \cup {op[n].item}]
  /\ UNCHANGED << hand, back >>

PopSRem(n) ==
  /\ Doing(n, {"popped"})
  /\ n \notin cancelled
  /\ set' = set \ {op[n].item}
  /\ Deliver(n)
  /\ UNCHANGED << list, cancelled, draining, history >>

(* The error of SREM is ignored, the item is returned.                     *)
PopSRemFails(n) ==
  /\ Doing(n, {"popped"})
  /\ MayFail(n, "caller")
  /\ set' \in {set, set \ {op[n].item}}
  /\ Deliver(n)
  /\ Spoil({op[n].item})
  /\ UNCHANGED << list, cancelled, draining, owed, bounds >>

-----------------------------------------------------------------------------
(* RemoveAll: DEL of the list, then of the set.  Its context is that of an *)
(* administrator's request, which may be aborted; after a failed first DEL *)
(* the second is still made.                                               *)

(* Mutant of RemovalOrder: the set is cleared first.                       *)
RemovalOrder_SetFirst == << "set", "list" >>

RemovalOrder == << "list", "set" >>

Del(key) ==
  \/ key = "list" /\ list' = << >> /\ owed' = owed \ Listed /\ UNCHANGED set
  \/ key = "set"  /\ set' = {} /\ UNCHANGED << list, owed >>

RemoveAllFirst(n) ==
  /\ op[n] = Idle
  /\ removals < MaxRemove
  /\ removals' = removals + 1
  /\ op' = [op EXCEPT ![n] = [step |-> "removing"]]
  /\ Del(RemovalOrder[1]) \/ UNCHANGED << redis, owed >>
  /\ UNCHANGED << popped, cancelled, draining, spoiled, pushes, ends >>

RemoveAllSecond(n) ==
  /\ Doing(n, {"removing"})
  /\ op' = [op EXCEPT ![n] = Idle]
  /\ \/ Del(RemovalOrder[2]) /\ UNCHANGED spoiled
     \/ UNCHANGED << redis, owed >> /\ Spoil(set)
  /\ UNCHANGED << popped, cancelled, draining, bounds >>

-----------------------------------------------------------------------------
(* The node around its base queue.                                         *)

(* A worker takes an item from batchChan, as long as the channel is not    *)
(* closed and emptied.                                                     *)
Dispatch(n, x) ==
  /\ x \in fly[n]
  /\ n \notin draining
  /\ fly' = [fly EXCEPT ![n] = @ \ {x}]
  /\ hand' = [hand EXCEPT ![n] = @ \cup {x}]
  /\ UNCHANGED << redis, op, back, cancelled, draining, history >>

(* The handler has handled an item ...                                     *)
Handled(n, x) ==
  /\ x \in hand[n]
  /\ hand' = [hand EXCEPT ![n] = @ \ {x}]
  /\ owed' = owed \ {x}
  /\ UNCHANGED << redis, op, fly, back, cancelled, draining, spoiled, bounds >>

(* ... or returned it as unhandled.                                        *)
GivenBack(n, x) ==
  /\ x \in hand[n]
  /\ hand' = [hand EXCEPT ![n] = @ \ {x}]
  /\ back' = [back EXCEPT ![n] = @ \cup {x}]
  /\ UNCHANGED << redis, op, fly, cancelled, draining, history >>

Shutdown(n) ==
  /\ n \notin cancelled
  /\ cancelled' = cancelled \cup {n}
  /\ UNCHANGED << redis, op, popped, draining, history >>

(* doRun is left: the popper has ended and closed its channel.             *)
Drain(n) ==
  /\ n \in cancelled \ draining
  /\ ~Doing(n, {"popped"})
  /\ draining' = draining \cup {n}
  /\ UNCHANGED << redis, op, popped, cancelled, history >>

(* Mutant of Drained: nothing is pushed back before the end.               *)
Drained_NotAwaited(n) == n \in draining

Drained(n) == n \in draining /\ fly[n] = {}

Touched(n) ==
  IF Doing(n, {"removing"}) THEN set ELSE IF op[n] = Idle THEN {} ELSE {op[n].item}

(* The process ends, in the middle of the operation it has, and is started *)
(* again.                                                                  *)
End(n) ==
  /\ ends < MaxEnd
  /\ ends' = ends + 1
  /\ Spoil(Touched(n))
  /\ op' = [op EXCEPT ![n] = Idle]
  /\ fly' = [fly EXCEPT ![n] = {}]
  /\ hand' = [hand EXCEPT ![n] = {}]
  /\ back' = [back EXCEPT ![n] = {}]
  /\ cancelled' = cancelled \ {n}
  /\ draining' = draining \ {n}
  /\ UNCHANGED << redis, pushes, removals >>

(* ... in order, when the workers are done or the shutdown timeout is over *)
(* and what they have is let go of ...                                     *)
Restart(n) ==
  /\ Drained(n)
  /\ End(n)
  /\ owed' = owed \ (hand[n] \cup back[n])

(* ... or killed.                                                          *)
Crash(n) ==
  /\ op[n] # Idle \/ fly[n] \cup hand[n] \cup back[n] # {}
  /\ End(n)
  /\ owed' = owed \ (fly[n] \cup hand[n] \cup back[n])

Push(n) ==
  \/ \E x \in Item, via \in Via : PushLen(n, x, via)
  \/ \E x \in Item, via \in Via : PushTimesOut(n, x, via) \/ PushLenFails(n, x, via)
  \/ PushSAdd(n)
  \/ PushSAddFails(n)
  \/ PushRPush(n)
  \/ PushRPushFails(n)

Pop(n) == PopLPop(n) \/ PopLPopFails(n) \/ PopSRem(n) \/ PopSRemFails(n)

RemoveAll(n) == RemoveAllFirst(n) \/ RemoveAllSecond(n)

Process(n) ==
  \/ \E x \in Item : Dispatch(n, x) \/ Handled(n, x) \/ GivenBack(n, x)
  \/ Shutdown(n)
  \/ Drain(n)
  \/ Restart(n)
  \/ Crash(n)

Step(n) == Push(n) \/ Pop(n) \/ RemoveAll(n) \/ Process(n)

Next == \E n \in Node : Step(n)

Spec == Init /\ [][Next]_vars

-----------------------------------------------------------------------------
(* Properties.                                                             *)

(* Every variable keeps its type: no operation invents an item.            *)
TypeOK ==
  /\ list \in Seq(Item)
  /\ set \subseteq Item
  /\ op \in [Node -> Op]
  /\ fly \in [Node -> SUBSET Item]
  /\ hand \in [Node -> SUBSET Item]
  /\ back \in [Node -> SUBSET Item]
  /\ cancelled \subseteq Node
  /\ draining \subseteq cancelled
  /\ owed \subseteq Item
  /\ spoiled \subseteq Item
  /\ pushes \in 0..MaxPush
  /\ removals \in 0..MaxRemove
  /\ ends \in 0..MaxEnd

(* Some node is working on the entry of x in the set.                      *)
InFlight(n, x) ==
  \/ Doing(n, {"removing"})
  \/ Doing(n, {"reserved", "popped"}) /\ op[n].item = x

(* An item in the set blocks every later push of it.  It is also in the    *)
(* list, or a node is about to put it there or to clear the entry; only an *)
(* interrupted call or a crash leaves an entry that blocks its item for    *)
(* ever (base_redis.go:68-77, 86-97, 127-130).                             *)
StaleNeedsInterruption ==
  \A x \in set :
    \/ x \in Listed
    \/ \E n \in Node : InFlight(n, x)
    \/ x \in spoiled

(* LLEN and RPUSH are not atomic: each of the other nodes may add one item *)
(* more than the length (base_redis.go:60-66, 77).                         *)
LengthExceededByNodes == Len(list) <= Length + Cardinality(Node) - 1

(* The set keeps the items of the list apart, on all nodes together, until *)
(* RemoveAll is used (base_redis.go:68-76, 128-129).                       *)
DuplicateNeedsRemoveAll ==
  removals = 0 => \A i, j \in 1..Len(list) : list[i] = list[j] => i = j

Held(n, x) ==
  \/ x \in fly[n] \cup hand[n] \cup back[n]
  \/ Doing(n, {"popped"}) /\ op[n].item = x

(* A pushed item waits in the list or is held by a node until it is        *)
(* handled or removed, or let go of: by a push that fails or finds no room *)
(* until its time is over, by a process that is killed or whose worker     *)
(* outlives the shutdown timeout.  A call that was interrupted may lose    *)
(* it.  But an item that comes back and is refused by the set is in the    *)
(* queue again (workergroup.go:108-114), and one that the shutdown finds   *)
(* on its way to a worker is not left behind (workergroup.go:266-282).     *)
OwedIsKept ==
  \A x \in owed :
    \/ x \in Listed
    \/ \E n \in Node : Held(n, x) \/ InFlight(n, x)
    \/ x \in spoiled

(* What the proofs add to these properties.  Between two calls a datum     *)
(* that is owed and in the set is in the list or a node has it; the        *)
(* counted pushes fit under the excess length; and as long as RemoveAll    *)
(* has not been used, Apart: the set covers the list and each datum in     *)
(* flight is with one node and not in the list.                            *)
Taken(n, x) == Doing(n, {"reserved", "popped"}) /\ op[n].item = x
Pushing     == {n \in Node : Doing(n, {"counted", "reserved"})}

OwedInSet ==
  \A x \in owed \cap set : x \in Listed \cup spoiled \/ \E n \in Node : Taken(n, x)
OwedSomewhere ==
  \A x \in owed :
    x \in Listed \cup spoiled \/ \E n \in Node : Held(n, x) \/ Taken(n, x)
LengthBound ==
  Len(list) + Cardinality(Pushing) <= Length + Cardinality(Node) - 1
Apart ==
  /\ \A i, j \in 1..Len(list) : list[i] = list[j] => i = j
  /\ Listed \subseteq set
  /\ \A n \in Node : ~Doing(n, {"removing"})
  /\ \A n \in Node, x \in Item : Taken(n, x) =>
       x \in set \ Listed /\ \A m \in Node \ {n} : ~Taken(m, x)

OwedInv     == StaleNeedsInterruption /\ OwedInSet /\ OwedSomewhere
DistinctInv == removals = 0 => Apart
RedisInv    == TypeOK /\ OwedInv /\ LengthBound /\ DistinctInv

(* ShutdownWait "pushes the unhandled items back to the base queue"        *)
(* (workerqueue.go:187): when a node is done with returning an item, and   *)
(* neither its end, nor an error or a full queue has kept it from doing    *)
(* so, the item is in the queue or another node has it.                    *)
PushedBack ==
  [][\A n \in Node :
       ~Crash(n) /\ ~Restart(n) /\ owed \subseteq owed' /\ spoiled' = spoiled =>
         \A x \in (fly[n] \cup back[n]) \ (fly'[n] \cup hand'[n] \cup back'[n]) :
           x \in Listed' \/ \E m \in Node : Held(m, x)' \/ InFlight(m, x)']_vars
===============================================================================
