------------------------ MODULE WorkerPoolQueueProofs ------------------------
(***************************************************************************)
(* Proofs about WorkerPoolQueue, for every set of items and workers and    *)
(* every length, limit and bound: types, conservation of items, and the    *)
(* implementation of WorkQueue; the accounting of the pool, the shutdown   *)
(* and what it takes to lose an item.                                      *)
(***************************************************************************)
EXTENDS WorkerPoolQueue, FiniteSetTheorems, SequenceTheorems, TLAPS

(* What the names of the places need: they are distinct.                   *)
LEMMA PlaceNames ==
  /\ Handler \subseteq Place
  /\ {"popper", "buffer", "batch", "flusher", "handled", "removed", "lost"} \subseteq Place
  /\ \A h \in Handler : h \notin {"popper", "buffer", "batch", "handled", "removed", "lost"}
  /\ \A w \in Worker : w # "flusher"
BY ConstantsAssumption DEF Place, Handler, Finished

(* The items of a sequence after Append and Tail.                          *)
LEMMA AppendItems ==
  ASSUME NEW s \in Seq(Item), NEW x \in Item
  PROVE  /\ Append(s, x) \in Seq(Item)
         /\ Len(Append(s, x)) = Len(s) + 1
         /\ Append(s, x)[Len(s) + 1] = x
         /\ \A i \in 1..Len(s) : Append(s, x)[i] = s[i]
OBVIOUS

LEMMA TailItems ==
  ASSUME NEW s \in Seq(Item), s # << >>
  PROVE  /\ Tail(s) \in Seq(Item)
         /\ Len(Tail(s)) = Len(s) - 1
         /\ Len(s) >= 1
         /\ Head(s) = s[1]
         /\ Head(s) \in Item
         /\ \A i \in 1..Len(Tail(s)) : Tail(s)[i] = s[i + 1]
OBVIOUS

(* Handing items from one place to another loses and duplicates none.      *)
LEMMA HandKeeps ==
  ASSUME at \in [Place -> SUBSET Item], NothingVanishes, OnePlace,
         NEW from \in Place, NEW to \in Place, from # to,
         NEW S \in SUBSET at[from], Hand(S, from, to),
         UNCHANGED << accepted, base >>
  PROVE  /\ at' \in [Place -> SUBSET Item]
         /\ \A p \in Place \ {from, to} : at'[p] = at[p]
         /\ at'[from] = at[from] \ S
         /\ at'[to] = at[to] \cup S
         /\ NothingVanishes'
         /\ OnePlace'
<1>1. /\ at' \in [Place -> SUBSET Item]
      /\ \A p \in Place \ {from, to} : at'[p] = at[p]
      /\ at'[from] = at[from] \ S
      /\ at'[to] = at[to] \cup S
  BY DEF Hand
<1>2. BaseItems' = BaseItems
  BY DEF BaseItems
<1>3. NothingVanishes'
  BY <1>1, <1>2 DEF NothingVanishes, Somewhere
<1>4. OnePlace'
  BY <1>1, <1>2 DEF OnePlace
<1> QED
  BY <1>1, <1>3, <1>4

(* So does putting an item back into the base queue.                       *)
LEMMA ReturnKeeps ==
  ASSUME at \in [Place -> SUBSET Item], base \in Seq(Item), Len(base) <= BaseLength,
         NothingVanishes, OnePlace,
         NEW from \in Place, NEW x \in at[from], Return(x, from),
         UNCHANGED accepted
  PROVE  /\ at' \in [Place -> SUBSET Item]
         /\ \A p \in Place \ {from} : at'[p] = at[p]
         /\ at'[from] = at[from] \ {x}
         /\ base' \in Seq(Item)
         /\ Len(base') <= BaseLength
         /\ NothingVanishes'
         /\ OnePlace'
<1>1. x \in Item
  OBVIOUS
<1>2. /\ at' \in [Place -> SUBSET Item]
      /\ \A p \in Place \ {from} : at'[p] = at[p]
      /\ at'[from] = at[from] \ {x}
  BY DEF Return
<1>3. /\ base' \in Seq(Item)
      /\ Len(base') = Len(base) + 1
      /\ base'[Len(base) + 1] = x
      /\ \A i \in 1..Len(base) : base'[i] = base[i]
      /\ Len(base') <= BaseLength
  BY <1>1, AppendItems, ConstantsAssumption DEF Return
<1>4. BaseItems' = BaseItems \cup {x}
  BY <1>3 DEF BaseItems
<1>5. NothingVanishes'
  BY <1>2, <1>4 DEF NothingVanishes, Somewhere
<1>6. OnePlace'
  <2>1. x \notin BaseItems
    BY DEF OnePlace
  <2>2. \A i, j \in 1..Len(base') : base'[i] = base'[j] => i = j
    BY <2>1, <1>3 DEF OnePlace, BaseItems
  <2>3. \A p \in Place : at'[p] \cap BaseItems' = {}
    BY <1>2, <1>4 DEF OnePlace
  <2>4. \A p, q \in Place : p # q => at'[p] \cap at'[q] = {}
    BY <1>2 DEF OnePlace
  <2> QED
    BY <2>2, <2>3, <2>4 DEF OnePlace
<1> QED
  BY <1>2, <1>3, <1>5, <1>6

(* Steps that move no item.                                                *)
LEMMA KeepKeeps ==
  ASSUME NothingVanishes, OnePlace, UNCHANGED items
  PROVE  NothingVanishes' /\ OnePlace'
BY DEF NothingVanishes, OnePlace, Somewhere, BaseItems, items

LEMMA ItemInvInit == Init => ItemInv
<1> SUFFICES ASSUME Init PROVE ItemInv
  OBVIOUS
<1> USE DEF Init
<1>1. TypeOK
  <2>1. base \in Seq(Item) /\ Len(base) <= BaseLength
    BY ConstantsAssumption
  <2>2. 0 \in 0..MaxFailures /\ 0 \in 0..MaxFlush
    BY ConstantsAssumption
  <2>3. at \in [Place -> SUBSET Item]
    OBVIOUS
  <2>4. st \in [Handler -> {"off", "idle", "handle", "requeue", "force"}]
    OBVIOUS
  <2>5. pc \in DispatcherPC /\ accepted \subseteq Item
    BY DEF DispatcherPC
  <2>6. /\ popClosed \in BOOLEAN /\ timer \in BOOLEAN /\ flushAsked \in BOOLEAN
        /\ flushing \in BOOLEAN /\ cancelled \in BOOLEAN /\ popWaits \in BOOLEAN
        /\ removal \in {"idle", "looping", "receiving"}
    OBVIOUS
  <2>7. /\ workerNum \in Int /\ workerActiveNum \in Int
        /\ workerMaxNum \in 0..WorkerLimit
        /\ failures \in 0..MaxFailures /\ flushes \in 0..MaxFlush
    BY <2>2
  <2> HIDE DEF Init
  <2> QED
    BY <2>1, <2>3, <2>4, <2>5, <2>6, <2>7 DEF TypeOK
<1>2. NothingVanishes
  BY DEF NothingVanishes, Somewhere, BaseItems
<1>3. OnePlace
  BY DEF OnePlace, BaseItems
<1>4. BatchInDispatch
  BY PlaceNames DEF BatchInDispatch
<1> QED
  BY <1>1, <1>2, <1>3, <1>4 DEF ItemInv

(* The oldest item leaves the base queue.                                  *)
LEMMA HeadTaken ==
  ASSUME TypeOK, OnePlace, base # << >>, base' = Tail(base)
  PROVE  /\ base' \in Seq(Item)
         /\ Len(base') <= BaseLength
         /\ Head(base) \in Item
         /\ BaseItems' = BaseItems \ {Head(base)} /\ Head(base) \in BaseItems
         /\ \A i, j \in 1..Len(base') : base'[i] = base'[j] => i = j
<1>1. /\ base' \in Seq(Item)
      /\ Len(base') = Len(base) - 1
      /\ Len(base) >= 1
      /\ Head(base) = base[1]
      /\ Head(base) \in Item
      /\ \A i \in 1..Len(base') : base'[i] = base[i + 1]
  BY TailItems DEF TypeOK
<1>2. BaseItems' = BaseItems \ {Head(base)} /\ Head(base) \in BaseItems
  <2>1. Len(base) \in Nat /\ Len(base') \in Nat
    BY <1>1 DEF TypeOK
  <2>2. ASSUME NEW i \in 1..Len(base), i # 1
        PROVE  i - 1 \in 1..Len(base') /\ base'[i - 1] = base[i]
    BY <1>1, <2>1, <2>2
  <2>3. ASSUME NEW i \in 1..Len(base')
        PROVE  i + 1 \in 1..Len(base) /\ base[i + 1] # base[1]
    BY <1>1, <2>1 DEF OnePlace
  <2>4. BaseItems' \subseteq BaseItems \ {Head(base)}
    BY <1>1, <2>3 DEF BaseItems
  <2>5. BaseItems \ {Head(base)} \subseteq BaseItems'
    BY <1>1, <2>2 DEF BaseItems
  <2>6. Head(base) \in BaseItems
    BY <1>1, <2>1 DEF BaseItems
  <2> QED
    BY <2>4, <2>5, <2>6
<1>3. \A i, j \in 1..Len(base') : base'[i] = base'[j] => i = j
  BY <1>1 DEF OnePlace, TypeOK
<1>4. Len(base') <= BaseLength
  BY <1>1, ConstantsAssumption DEF TypeOK
<1> QED
  BY <1>1, <1>2, <1>3, <1>4

(* The callers and the popper keep the invariant.                          *)
LEMMA ItemInvCallers == ItemInv /\ Callers => ItemInv'
<1> SUFFICES ASSUME ItemInv, Callers PROVE ItemInv'
  OBVIOUS
<1> USE DEF ItemInv
<1>1. ASSUME NEW x \in Item, Push(x) PROVE ItemInv'
  <2>1. /\ base' \in Seq(Item)
        /\ Len(base') = Len(base) + 1
        /\ base'[Len(base) + 1] = x
        /\ \A i \in 1..Len(base) : base'[i] = base[i]
        /\ Len(base') <= BaseLength
    BY <1>1, AppendItems, ConstantsAssumption DEF Push, TypeOK
  <2>2. BaseItems' = BaseItems \cup {x}
    BY <2>1 DEF BaseItems
  <2>3. x \notin BaseItems /\ \A p \in Place : x \notin at[p]
    BY <1>1 DEF Push, NothingVanishes, Somewhere
  <2>4. TypeOK'
    BY <1>1, <2>1 DEF TypeOK, Push, pool, flushChan, shared, env
  <2>5. NothingVanishes'
    BY <1>1, <2>2 DEF NothingVanishes, Somewhere, Push
  <2>6. OnePlace'
    <3>1. \A i, j \in 1..Len(base') : base'[i] = base'[j] => i = j
      BY <2>1, <2>3 DEF OnePlace, BaseItems, TypeOK
    <3> QED
      BY <1>1, <2>2, <2>3, <3>1 DEF OnePlace, Push
  <2>7. BatchInDispatch'
    BY <1>1 DEF BatchInDispatch, Push
  <2> QED
    BY <2>4, <2>5, <2>6, <2>7
<1>2. CASE RemoveLock \/ Removal
  <2>1. CASE RemoveLock \/ RemoveNext
    BY <2>1, KeepKeeps
       DEF RemoveLock, RemoveNext, TypeOK, BatchInDispatch, items, pool, flushChan, env
  <2>2. CASE RemoveReceive
    <3>1. /\ at' \in [Place -> SUBSET Item]
          /\ at'["removed"] = at["removed"] \cup {Head(base)}
          /\ \A p \in Place \ {"removed"} : at'[p] = at[p]
      BY <2>2, HeadTaken, PlaceNames DEF RemoveReceive, TypeOK
    <3>2. TypeOK'
      BY <2>2, <3>1, HeadTaken, ConstantsAssumption DEF TypeOK, RemoveReceive, pool, flushChan, env
    <3>3. NothingVanishes'
      BY <2>2, <3>1, HeadTaken, PlaceNames DEF NothingVanishes, Somewhere, RemoveReceive
    <3>4. OnePlace'
      BY <2>2, <3>1, HeadTaken, PlaceNames DEF OnePlace, RemoveReceive
    <3>5. BatchInDispatch'
      BY <2>2, <3>1, PlaceNames DEF BatchInDispatch, RemoveReceive
    <3> QED
      BY <3>2, <3>3, <3>4, <3>5
  <2> QED
    BY <1>2, <2>1, <2>2 DEF Removal
<1>3. ASSUME NEW n \in 0..WorkerLimit, SetWorkerMaxNumber(n) PROVE ItemInv'
  BY <1>3, KeepKeeps DEF SetWorkerMaxNumber, TypeOK, BatchInDispatch, items, pool, flushChan, shared
<1>4. CASE FlushWithContext
  BY <1>4, KeepKeeps, ConstantsAssumption
     DEF FlushWithContext, TypeOK, BatchInDispatch, items, pool, shared
<1>5. CASE FlushGivesUp
  BY <1>5, KeepKeeps DEF FlushGivesUp, TypeOK, BatchInDispatch, items, pool, shared, env
<1>6. CASE Cancel
  BY <1>6, KeepKeeps DEF Cancel, TypeOK, BatchInDispatch, items, pool, flushChan, env
<1> QED
  BY <1>1, <1>2, <1>3, <1>4, <1>5, <1>6 DEF Callers

LEMMA ItemInvPopper == ItemInv /\ Popper => ItemInv'
<1> SUFFICES ASSUME ItemInv, Popper PROVE ItemInv'
  OBVIOUS
<1> USE DEF ItemInv
<1>1. CASE PopItem
  <2>1. /\ at' \in [Place -> SUBSET Item]
        /\ at'["popper"] = {Head(base)}
        /\ \A p \in Place \ {"popper"} : at'[p] = at[p]
    BY <1>1, HeadTaken, PlaceNames DEF PopItem, TypeOK
  <2>2. TypeOK'
    BY <1>1, <2>1, HeadTaken, ConstantsAssumption DEF TypeOK, PopItem, pool, flushChan, env
  <2>3. NothingVanishes'
    BY <1>1, <2>1, HeadTaken, PlaceNames DEF NothingVanishes, Somewhere, PopItem
  <2>4. OnePlace'
    BY <1>1, <2>1, HeadTaken DEF OnePlace, PopItem
  <2>5. BatchInDispatch'
    BY <1>1, <2>1, PlaceNames DEF BatchInDispatch, PopItem
  <2> QED
    BY <2>2, <2>3, <2>4, <2>5
<1>2. CASE PopRemove \/ PopItemCancelled
  BY <1>2, KeepKeeps
     DEF PopRemove, PopItemCancelled, TypeOK, BatchInDispatch, items, pool, flushChan, env
<1> QED
  BY <1>1, <1>2 DEF Popper

(* The dispatcher keeps the invariant.                                     *)
LEMMA ItemInvRun == ItemInv /\ Run => ItemInv'
<1> SUFFICES ASSUME ItemInv, Run PROVE ItemInv'
  OBVIOUS
<1> USE DEF ItemInv
<1>1. CASE RunReceive
  <2> DEFINE gathered == at["buffer"] \cup at["popper"]
  <2>1. CASE /\ at' = [at EXCEPT !["popper"] = {}, !["buffer"] = {}, !["batch"] = gathered]
             /\ pc' = "offer"
             /\ timer' = timer
    <3>1. at["batch"] = {}
      BY <1>1 DEF RunReceive, PopperSends, BatchInDispatch
    <3>2. /\ at' \in [Place -> SUBSET Item]
          /\ at'["popper"] = {} /\ at'["buffer"] = {}
          /\ at'["batch"] = at["buffer"] \cup at["popper"]
          /\ \A p \in Place \ {"popper", "buffer", "batch"} : at'[p] = at[p]
      BY <2>1, PlaceNames DEF TypeOK
    <3>3. BaseItems' = BaseItems /\ accepted' = accepted
      BY <1>1 DEF RunReceive, PopperSends, BaseItems
    <3>4. TypeOK'
      BY <1>1, <2>1, <3>2 DEF TypeOK, RunReceive, DispatcherPC, pool, flushChan, shared, env
    <3>5. NothingVanishes'
      BY <3>1, <3>2, <3>3, PlaceNames DEF NothingVanishes, Somewhere
    <3>6. OnePlace'
      <4>1. \A i, j \in 1..Len(base') : base'[i] = base'[j] => i = j
        BY <1>1 DEF RunReceive, PopperSends, OnePlace
      <4>2. \A q \in Place : at'[q] \cap BaseItems' = {}
        BY <3>2, <3>3, PlaceNames DEF OnePlace
      <4>3. \A q, r \in Place : q # r => at'[q] \cap at'[r] = {}
        BY <3>1, <3>2, PlaceNames DEF OnePlace
      <4> QED
        BY <4>1, <4>2, <4>3 DEF OnePlace
    <3>7. BatchInDispatch'
      BY <2>1 DEF BatchInDispatch
    <3> QED
      BY <3>4, <3>5, <3>6, <3>7
  <2>2. CASE /\ Hand(at["popper"], "popper", "buffer")
             /\ pc' = pc
             /\ StartTimer
    <3>1. UNCHANGED << accepted, base >>
      BY <1>1 DEF RunReceive
    <3>2. /\ at' \in [Place -> SUBSET Item] /\ at'["batch"] = at["batch"]
          /\ NothingVanishes' /\ OnePlace'
      <4>1. "batch" \in Place /\ "buffer" \in Place /\ "popper" \in Place
        BY PlaceNames
      <4> QED
        BY <2>2, <3>1, <4>1, HandKeeps DEF TypeOK
    <3> QED
      BY <1>1, <2>2, <3>1, <3>2
         DEF TypeOK, RunReceive, StartTimer, BatchInDispatch, pool, flushChan, shared, env
  <2>3. \/ /\ at' = [at EXCEPT !["popper"] = {}, !["buffer"] = {}, !["batch"] = gathered]
           /\ pc' = "offer"
           /\ timer' = timer
        \/ /\ Hand(at["popper"], "popper", "buffer")
           /\ pc' = pc
           /\ StartTimer
    BY <1>1, Zenon DEF RunReceive
  <2> HIDE DEF ItemInv
  <2> QED
    BY <2>1, <2>2, <2>3
<1>2. ASSUME TakeBuffer, UNCHANGED << accepted, base >>, pc = "select"
      PROVE  /\ at' \in [Place -> SUBSET Item]
             /\ NothingVanishes' /\ OnePlace'
             /\ at'["batch"] = at["buffer"]
  <2>1. at["batch"] = {}
    BY <1>2 DEF BatchInDispatch
  <2>2. /\ at' \in [Place -> SUBSET Item]
        /\ NothingVanishes' /\ OnePlace'
        /\ at'["batch"] = at["batch"] \cup at["buffer"]
    <3>1. Hand(at["buffer"], "buffer", "batch")
      BY <1>2 DEF TakeBuffer
    <3>2. "buffer" \in Place /\ "batch" \in Place
      BY PlaceNames
    <3> QED
      BY <1>2, <3>1, <3>2, HandKeeps DEF TypeOK
  <2> QED
    BY <2>1, <2>2
<1>3. CASE RunTimer
  BY <1>2, <1>3 DEF TypeOK, RunTimer, DispatcherPC, BatchInDispatch, pool, flushChan, shared, env
<1>4. CASE RunFlush
  BY <1>2, <1>4 DEF TypeOK, RunFlush, DispatcherPC, BatchInDispatch, pool, shared, env
<1>5. CASE RunStops
  BY <1>5, KeepKeeps
     DEF TypeOK, RunStops, DispatcherPC, BatchInDispatch, items, pool, flushChan, env
<1> QED
  BY <1>1, <1>3, <1>4, <1>5 DEF Run

(* Entering doWorkerHandle moves the items to the handler.                 *)
LEMMA StartKeeps ==
  ASSUME ItemInv, NEW h \in Handler, NEW from \in {"batch", "popper"},
         StartHandling(h, from), UNCHANGED << accepted, base >>
  PROVE  /\ at' \in [Place -> SUBSET Item]
         /\ st' \in [Handler -> {"off", "idle", "handle", "requeue", "force"}]
         /\ workerActiveNum' \in Int
         /\ NothingVanishes' /\ OnePlace'
         /\ at'[from] = {}
         /\ \A p \in Place \ {from, h} : at'[p] = at[p]
<1>1. h \in Place /\ from \in Place /\ h # from
  BY PlaceNames
<1>2. Hand(at[from], from, h)
  BY DEF StartHandling
<1>3. /\ at' \in [Place -> SUBSET Item]
      /\ NothingVanishes' /\ OnePlace'
      /\ at'[from] = {}
      /\ \A p \in Place \ {from, h} : at'[p] = at[p]
  BY <1>1, <1>2, HandKeeps DEF ItemInv, TypeOK
<1> QED
  BY <1>3 DEF StartHandling, ItemInv, TypeOK

LEMMA ItemInvDispatch == ItemInv /\ Dispatch => ItemInv'
<1> SUFFICES ASSUME ItemInv, Dispatch PROVE ItemInv'
  OBVIOUS
<1> USE DEF ItemInv
<1>0. Continue \in DispatcherPC
  BY DEF Continue, DispatcherPC
<1>1. ASSUME NEW w \in Worker, DispatchOffer(w) PROVE ItemInv'
  <2>1. w \in Handler
    BY DEF Handler
  <2> QED
    BY <1>1, <2>1, StartKeeps
       DEF DispatchOffer, TypeOK, DispatcherPC, BatchInDispatch, flushChan, shared, env
<1>2. CASE DispatchFull
  BY <1>2, KeepKeeps
     DEF DispatchFull, TypeOK, DispatcherPC, BatchInDispatch, items, pool, flushChan, shared, env
<1>3. CASE DispatchScale
  <2>1. st' \in [Handler -> {"off", "idle", "handle", "requeue", "force"}] /\ workerNum' \in Int
    BY <1>3 DEF DispatchScale, TypeOK
  <2>2. BatchInDispatch'
    BY <1>3 DEF DispatchScale, BatchInDispatch, items
  <2>3. TypeOK'
    BY <1>0, <1>3, <2>1 DEF DispatchScale, TypeOK, DispatcherPC, items, flushChan, shared, env
  <2> QED
    BY <1>3, <2>2, <2>3, KeepKeeps DEF DispatchScale
<1>4. ASSUME NEW w \in Worker, DispatchSend(w) PROVE ItemInv'
  <2>1. w \in Handler
    BY DEF Handler
  <2> QED
    BY <1>0, <1>4, <2>1, StartKeeps
       DEF DispatchSend, TypeOK, BatchInDispatch, flushChan, shared, env
<1>5. CASE DispatchFlush
  <2>1. "flusher" \in Handler
    BY DEF Handler
  <2> QED
    BY <1>5, <2>1, StartKeeps
       DEF DispatchFlush, TypeOK, DispatcherPC, BatchInDispatch, shared, env
<1>6. CASE DispatchCancelled
  <2>1. /\ at' \in [Place -> SUBSET Item] /\ at'["batch"] = {}
        /\ NothingVanishes' /\ OnePlace'
    <3>1. UNCHANGED << accepted, base >> /\ Hand(at["batch"], "batch", "buffer")
      BY <1>6 DEF DispatchCancelled, ReturnBatch
    <3>2. "batch" \in Place /\ "buffer" \in Place
      BY PlaceNames
    <3> QED
      BY <3>1, <3>2, HandKeeps DEF TypeOK
  <2> QED
    BY <1>0, <1>6, <2>1
       DEF DispatchCancelled, TypeOK, BatchInDispatch, pool, flushChan, shared, env
<1> QED
  BY <1>1, <1>2, <1>3, <1>4, <1>5, <1>6 DEF Dispatch

LEMMA ItemInvFlush == ItemInv /\ Flush => ItemInv'
<1> SUFFICES ASSUME ItemInv, Flush PROVE ItemInv'
  OBVIOUS
<1> USE DEF ItemInv
<1>1. CASE FlushDirectDone
  BY <1>1, KeepKeeps
     DEF FlushDirectDone, TypeOK, DispatcherPC, BatchInDispatch, items, pool, flushChan, shared, env
<1>2. CASE FlushWaited
  BY <1>2, KeepKeeps
     DEF FlushWaited, TypeOK, DispatcherPC, BatchInDispatch, items, pool, flushChan, shared, env
<1>3. CASE FlushReceive
  <2>1. "flusher" \in Handler /\ "batch" \in Place \ {"popper", "flusher"}
    BY PlaceNames DEF Handler
  <2> QED
    BY <1>3, <2>1, StartKeeps
       DEF FlushReceive, PopperSends, InFlushLoop, TypeOK, DispatcherPC, BatchInDispatch, flushChan, shared, env
<1>4. CASE FlushTick
  BY <1>4, KeepKeeps
     DEF FlushTick, InFlushLoop, TypeOK, DispatcherPC, BatchInDispatch, items, pool, shared, env
<1>5. CASE FlushStops
  BY <1>5, KeepKeeps
     DEF FlushStops, InFlushLoop, TypeOK, DispatcherPC, BatchInDispatch, items, pool, shared, env
<1> QED
  BY <1>1, <1>2, <1>3, <1>4, <1>5 DEF Flush

(* Either outcome of basePushForShutdown moves the item, the loss included. *)
LEMMA PushForShutdownKeeps ==
  ASSUME ItemInv, NEW from \in Handler \cup {"buffer"}, NEW x \in at[from],
         NEW expired \in BOOLEAN, PushForShutdown(x, from, expired), UNCHANGED accepted
  PROVE  /\ at' \in [Place -> SUBSET Item]
         /\ base' \in Seq(Item) /\ Len(base') <= BaseLength
         /\ NothingVanishes' /\ OnePlace'
         /\ at'["batch"] = at["batch"]
<1>1. /\ from \in Place /\ "lost" \in Place /\ from # "lost"
      /\ "batch" \in Place \ {from, "lost"}
  BY PlaceNames
<1>2. CASE Return(x, from)
  BY <1>1, <1>2, ReturnKeeps DEF ItemInv, TypeOK
<1>3. CASE Hand({x}, from, "lost") /\ UNCHANGED base
  <2>1. {x} \in SUBSET at[from]
    OBVIOUS
  <2> QED
    BY <1>1, <1>3, <2>1, HandKeeps DEF ItemInv, TypeOK
<1> QED
  BY <1>2, <1>3 DEF PushForShutdown

LEMMA ItemInvShutdown == ItemInv /\ Shutdown => ItemInv'
<1> SUFFICES ASSUME ItemInv, Shutdown PROVE ItemInv'
  OBVIOUS
<1> USE DEF ItemInv
<1>1. CASE DrainReceive
  <2>1. /\ at' \in [Place -> SUBSET Item] /\ at'["batch"] = at["batch"]
        /\ NothingVanishes' /\ OnePlace'
    <3>1. "popper" \in Place /\ "buffer" \in Place /\ "batch" \in Place
      BY PlaceNames
    <3>2. Hand(at["popper"], "popper", "buffer") /\ UNCHANGED << accepted, base >>
      BY <1>1 DEF DrainReceive
    <3> QED
      BY <3>1, <3>2, HandKeeps DEF TypeOK
  <2> QED
    BY <1>1, <2>1 DEF DrainReceive, PopperSends, TypeOK, BatchInDispatch, pool, flushChan, shared, env
<1>2. CASE DrainClosed
  BY <1>2, KeepKeeps
     DEF DrainClosed, TypeOK, DispatcherPC, BatchInDispatch, items, pool, flushChan, shared, env
<1>3. ASSUME NEW x \in Item, ShutdownPush(x) PROVE ItemInv'
  <2>1. /\ x \in at["buffer"] /\ UNCHANGED accepted
        /\ PushForShutdown(x, "buffer", pc = "repushLate")
    BY <1>3 DEF ShutdownPush
  <2>2. /\ at' \in [Place -> SUBSET Item]
        /\ base' \in Seq(Item) /\ Len(base') <= BaseLength
        /\ NothingVanishes' /\ OnePlace'
        /\ at'["batch"] = at["batch"]
    BY <2>1, PushForShutdownKeeps
  <2> QED
    BY <1>3, <2>2
       DEF ShutdownPush, TypeOK, DispatcherPC, BatchInDispatch, pool, flushChan, shared, env
<1>4. CASE ShutdownPushed
  BY <1>4, KeepKeeps
     DEF ShutdownPushed, TypeOK, DispatcherPC, BatchInDispatch, items, pool, flushChan, shared, env
<1>5. CASE ShutdownWaited
  BY <1>5, KeepKeeps
     DEF ShutdownWaited, TypeOK, DispatcherPC, BatchInDispatch, items, pool, flushChan, shared, env
<1> QED
  BY <1>1, <1>2, <1>3, <1>4, <1>5 DEF Shutdown

(* The handlers and the workers keep the invariant.                        *)
LEMMA ItemInvHandler ==
  ASSUME ItemInv, NEW h \in Handler, HandlerReturns(h) \/ Requeueing(h)
  PROVE  ItemInv'
<1> USE DEF ItemInv
<1>0. h \in Place /\ "handled" \in Place /\ "batch" \in Place \ {h, "handled"} /\ h # "handled"
  BY PlaceNames
<1>1. CASE HandlerReturns(h)
  <2>1. PICK U \in SUBSET at[h] :
          /\ U # {} => failures < MaxFailures
          /\ failures' = IF U = {} THEN failures ELSE failures + 1
          /\ Settle(h, U)
    BY <1>1 DEF HandlerReturns
  <2>2. /\ at' \in [Place -> SUBSET Item] /\ at'["batch"] = at["batch"]
        /\ NothingVanishes' /\ OnePlace'
    <3>1. Hand(at[h] \ U, h, "handled") /\ at[h] \ U \in SUBSET at[h]
      BY <2>1 DEF Settle
    <3>2. UNCHANGED << accepted, base >>
      BY <1>1 DEF HandlerReturns
    <3> QED
      BY <1>0, <3>1, <3>2, HandKeeps DEF TypeOK
  <2>3. failures' \in 0..MaxFailures
    BY <2>1, ConstantsAssumption DEF TypeOK
  <2> QED
    BY <1>1, <2>2, <2>3 DEF HandlerReturns, TypeOK, BatchInDispatch, flushChan, shared
<1>2. ASSUME NEW x \in Item, Requeue(h, x) PROVE ItemInv'
  <2>1. /\ at' \in [Place -> SUBSET Item] /\ at'["batch"] = at["batch"]
        /\ base' \in Seq(Item) /\ Len(base') <= BaseLength
        /\ NothingVanishes' /\ OnePlace'
    BY <1>0, <1>2, ReturnKeeps DEF Requeue, TypeOK
  <2> QED
    BY <1>2, <2>1 DEF Requeue, TypeOK, BatchInDispatch, pool, flushChan, shared, env
<1>3. CASE RequeueFails(h)
  BY <1>3, KeepKeeps
     DEF RequeueFails, TypeOK, BatchInDispatch, items, flushChan, shared, env
<1>4. ASSUME NEW x \in Item, ForcePush(h, x) PROVE ItemInv'
  <2>1. x \in at[h] /\ PushForShutdown(x, h, FALSE) /\ UNCHANGED accepted
    BY <1>4 DEF ForcePush
  <2>2. /\ at' \in [Place -> SUBSET Item]
        /\ base' \in Seq(Item) /\ Len(base') <= BaseLength
        /\ NothingVanishes' /\ OnePlace'
        /\ at'["batch"] = at["batch"]
    BY <2>1, PushForShutdownKeeps
  <2> QED
    BY <1>4, <2>2 DEF ForcePush, TypeOK, BatchInDispatch, flushChan, shared, env
<1>5. CASE HandleDone(h)
  BY <1>5, KeepKeeps
     DEF HandleDone, TypeOK, BatchInDispatch, items, flushChan, shared, env
<1> QED
  BY <1>1, <1>2, <1>3, <1>4, <1>5 DEF Requeueing

LEMMA ItemInvWorker ==
  ASSUME ItemInv, NEW w \in Worker, WorkerSelect(w)
  PROVE  ItemInv'
<1>1. w \in Handler
  BY DEF Handler
<1> QED
  BY <1>1, KeepKeeps
     DEF ItemInv, WorkerSelect, WorkerStops, WorkerIdle, StopWorking, TypeOK, BatchInDispatch,
         items, flushChan, shared, env

LEMMA ItemInvNext == ItemInv /\ [Next]_vars => ItemInv'
<1> SUFFICES ASSUME ItemInv, [Next]_vars PROVE ItemInv'
  OBVIOUS
<1>1. CASE Callers
  BY <1>1, ItemInvCallers
<1>2. CASE Popper
  BY <1>2, ItemInvPopper
<1>3. CASE Dispatcher
  BY <1>3, ItemInvRun, ItemInvDispatch, ItemInvFlush, ItemInvShutdown DEF Dispatcher
<1>4. ASSUME NEW h \in Handler, HandlerReturns(h) \/ Requeueing(h) PROVE ItemInv'
  BY <1>4, ItemInvHandler
<1>5. ASSUME NEW w \in Worker, WorkerSelect(w) PROVE ItemInv'
  BY <1>5, ItemInvWorker
<1>6. CASE UNCHANGED vars
  BY <1>6, KeepKeeps
     DEF ItemInv, TypeOK, BatchInDispatch, vars, items, pool, flushChan, shared, env
<1> QED
  BY <1>1, <1>2, <1>3, <1>4, <1>5, <1>6 DEF Next, Stopped

(* The invariant about items holds in every reachable state ...            *)
THEOREM ItemsSafe == Spec => []ItemInv
BY ItemInvInit, ItemInvNext, PTL DEF Spec

(* ... and so do its parts: the variables keep their types,                *)
THEOREM TypeCorrect == Spec => []TypeOK
<1>1. ItemInv => TypeOK
  BY DEF ItemInv
<1> QED
  BY <1>1, ItemsSafe, PTL

(* every accepted item stays somewhere until it is finished,               *)
THEOREM Conservation == Spec => []NothingVanishes
<1>1. ItemInv => NothingVanishes
  BY DEF ItemInv
<1> QED
  BY <1>1, ItemsSafe, PTL

(* and is never in two places.                                             *)
THEOREM Exclusion == Spec => []OnePlace
<1>1. ItemInv => OnePlace
  BY DEF ItemInv
<1> QED
  BY <1>1, ItemsSafe, PTL

-----------------------------------------------------------------------------
(* WorkerPoolQueue implements WorkQueue.                                   *)

Fates == [x \in Item |-> FateOf(x)]
AbstractStep == Promise!Next \/ Fates' = Fates

(* What a goroutine or the base queue holds is pending.                    *)
LEMMA HeldIsPending ==
  ASSUME ItemInv, NEW x \in Item, x \in BaseItems \/ Somewhere(x, Place \ Finished)
  PROVE  FateOf(x) = "pending"
<1>1. x \in accepted
  BY DEF ItemInv, NothingVanishes, Somewhere
<1>2. \A p \in Finished : x \notin at[p]
  BY DEF ItemInv, OnePlace, Somewhere, Place
<1> QED
  BY <1>1, <1>2 DEF FateOf, Finished

(* A step that leaves the finished items and the accepted ones alone.      *)
LEMMA FatesKept ==
  ASSUME UNCHANGED accepted, \A p \in Finished : at'[p] = at[p]
  PROVE  Fates' = Fates
BY DEF Fates, FateOf, Finished

(* A step that finishes exactly the pending items S with one outcome.      *)
LEMMA FatesFinish ==
  ASSUME NEW S \in SUBSET Item, NEW out \in Finished,
         \A x \in S : FateOf(x) = "pending",
         at'[out] = at[out] \cup S,
         \A p \in Finished \ {out} : at'[p] = at[p],
         UNCHANGED accepted
  PROVE  AbstractStep
<1>1. CASE S = {}
  <2>1. \A p \in Finished : at'[p] = at[p]
    BY <1>1
  <2> QED
    BY <2>1, FatesKept DEF AbstractStep
<1>2. CASE S # {}
  <2>1. \A x \in Item \ S : FateOf(x)' = FateOf(x)
    BY DEF FateOf, Finished
  <2>2. \A x \in S : FateOf(x)' = out
    BY DEF FateOf, Finished
  <2>3. Fates' = [x \in Item |-> IF x \in S THEN out ELSE Fates[x]]
    BY <2>1, <2>2 DEF Fates
  <2>4. Promise!Finish(S, out)
    BY <1>2, <2>3 DEF Promise!Finish, Fates
  <2> QED
    BY <2>4 DEF AbstractStep, Promise!Next, Finished
<1> QED
  BY <1>1, <1>2

(* Handing items between places where they are pending.                    *)
LEMMA HandIsStutter ==
  ASSUME ItemInv, NEW from \in Place \ Finished, NEW to \in Place \ Finished,
         NEW S, Hand(S, from, to), UNCHANGED accepted
  PROVE  AbstractStep
<1>1. \A p \in Finished : at'[p] = at[p]
  BY DEF Hand, ItemInv, TypeOK, Place
<1> QED
  BY <1>1, FatesKept DEF AbstractStep

LEMMA ReturnIsStutter ==
  ASSUME ItemInv, NEW from \in Place \ Finished, NEW x, Return(x, from), UNCHANGED accepted
  PROVE  AbstractStep
<1>1. \A p \in Finished : at'[p] = at[p]
  BY DEF Return, ItemInv, TypeOK, Place
<1> QED
  BY <1>1, FatesKept DEF AbstractStep

LEMMA PushForShutdownImplements ==
  ASSUME ItemInv, NEW from \in Place \ Finished, NEW x \in at[from], NEW expired \in BOOLEAN,
         PushForShutdown(x, from, expired), UNCHANGED accepted
  PROVE  AbstractStep
<1>1. CASE Return(x, from)
  BY <1>1, ReturnIsStutter
<1>2. CASE Hand({x}, from, "lost")
  <2>1. x \in Item /\ "lost" \in Finished
    BY DEF ItemInv, TypeOK, Finished
  <2>2. FateOf(x) = "pending"
    BY <2>1, HeldIsPending DEF Somewhere
  <2>3. at'["lost"] = at["lost"] \cup {x} /\ \A p \in Finished \ {"lost"} : at'[p] = at[p]
    BY <1>2, <2>1 DEF Hand, ItemInv, TypeOK, Place
  <2>4. {x} \in SUBSET Item /\ \A y \in {x} : FateOf(y) = "pending"
    BY <2>1, <2>2
  <2> QED
    BY <2>1, <2>3, <2>4, FatesFinish
<1> QED
  BY <1>1, <1>2 DEF PushForShutdown

LEMMA HoldingPlaces ==
  /\ Handler \subseteq Place \ Finished
  /\ {"popper", "buffer", "batch", "flusher"} \subseteq Place \ Finished
BY PlaceNames DEF Finished

LEMMA CallersImplement == ItemInv /\ Callers => AbstractStep
<1> SUFFICES ASSUME ItemInv, Callers PROVE AbstractStep
  OBVIOUS
<1>1. ASSUME NEW x \in Item, Push(x) PROVE AbstractStep
  <2>1. \A p \in Place : x \notin at[p]
    BY <1>1 DEF Push, ItemInv, NothingVanishes, Somewhere
  <2>2. FateOf(x) = "new" /\ FateOf(x)' = "pending"
    BY <1>1, <2>1, PlaceNames DEF Push, FateOf
  <2>3. \A y \in Item \ {x} : FateOf(y)' = FateOf(y)
    BY <1>1 DEF Push, FateOf
  <2>4. Fates' = [Fates EXCEPT ![x] = "pending"]
    BY <2>2, <2>3 DEF Fates
  <2>5. Promise!Accept(x)
    BY <2>2, <2>4 DEF Promise!Accept, Fates
  <2> QED
    BY <2>5 DEF AbstractStep, Promise!Next
<1>2. CASE RemoveReceive
  <2>1. {Head(base)} \in SUBSET Item /\ Head(base) \in BaseItems
    BY <1>2, HeadTaken DEF RemoveReceive, ItemInv
  <2>2. \A x \in {Head(base)} : FateOf(x) = "pending"
    BY <2>1, HeldIsPending
  <2>3. /\ at'["removed"] = at["removed"] \cup {Head(base)}
        /\ \A p \in Finished \ {"removed"} : at'[p] = at[p]
    BY <1>2, PlaceNames DEF RemoveReceive, ItemInv, TypeOK, Place
  <2>4. "removed" \in Finished /\ UNCHANGED accepted
    BY <1>2 DEF Finished, RemoveReceive
  <2> QED
    BY <2>1, <2>2, <2>3, <2>4, FatesFinish
<1>3. CASE UNCHANGED items
  BY <1>3, FatesKept DEF AbstractStep, items
<1> QED
  BY <1>1, <1>2, <1>3
     DEF Callers, RemoveLock, Removal, RemoveNext, SetWorkerMaxNumber, FlushWithContext,
         FlushGivesUp, Cancel, items

LEMMA PopperImplements == ItemInv /\ Popper => AbstractStep
<1> SUFFICES ASSUME ItemInv, Popper PROVE AbstractStep
  OBVIOUS
<1>1. \A p \in Finished : at'[p] = at[p]
  BY HoldingPlaces DEF Popper, PopItem, PopRemove, PopItemCancelled, items, ItemInv, TypeOK, Place
<1> QED
  BY <1>1, FatesKept DEF AbstractStep, Popper, PopItem, PopRemove, PopItemCancelled, items

LEMMA DispatcherImplements == ItemInv /\ Dispatcher => AbstractStep
<1> SUFFICES ASSUME ItemInv, Dispatcher PROVE AbstractStep
  OBVIOUS
<1>1. CASE UNCHANGED items
  BY <1>1, FatesKept DEF AbstractStep, items
<1>2. ASSUME NEW from \in Place \ Finished, NEW to \in Place \ Finished, NEW S,
             Hand(S, from, to), UNCHANGED accepted
      PROVE  AbstractStep
  BY <1>2, HandIsStutter
<1>3. CASE RunReceive
  <2>1. \A p \in Finished : at'[p] = at[p]
    BY <1>3, HoldingPlaces DEF RunReceive, PopperSends, Hand, ItemInv, TypeOK, Place
  <2> QED
    BY <1>3, <2>1, FatesKept DEF AbstractStep, RunReceive
<1>4. CASE RunTimer \/ RunFlush
  BY <1>2, <1>4, HoldingPlaces DEF RunTimer, RunFlush, TakeBuffer
<1>5. ASSUME NEW w \in Worker, DispatchOffer(w) \/ DispatchSend(w) PROVE AbstractStep
  BY <1>2, <1>5, HoldingPlaces DEF DispatchOffer, DispatchSend, StartHandling, Handler
<1>6. CASE DispatchFlush \/ DispatchCancelled \/ FlushReceive
  BY <1>2, <1>6, HoldingPlaces
     DEF DispatchFlush, DispatchCancelled, ReturnBatch, FlushReceive, StartHandling
<1>7. CASE DrainReceive
  BY <1>2, <1>7, HoldingPlaces DEF DrainReceive
<1>8. ASSUME NEW x \in Item, ShutdownPush(x) PROVE AbstractStep
  BY <1>8, PushForShutdownImplements, HoldingPlaces DEF ShutdownPush
<1> QED
  BY <1>1, <1>3, <1>4, <1>5, <1>6, <1>7, <1>8
     DEF Dispatcher, Run, RunStops, Dispatch, DispatchFull, DispatchScale,
         Flush, FlushDirectDone, FlushWaited, FlushTick, FlushStops,
         Shutdown, DrainClosed, ShutdownPushed, ShutdownWaited, items

LEMMA HandlerImplements ==
  ASSUME ItemInv, NEW h \in Handler, HandlerReturns(h) \/ Requeueing(h)
  PROVE  AbstractStep
<1>0. h \in Place \ Finished
  BY HoldingPlaces
<1>1. CASE HandlerReturns(h)
  <2>1. PICK U \in SUBSET at[h] : Settle(h, U)
    BY <1>1 DEF HandlerReturns
  <2> DEFINE S == at[h] \ U
  <2>2. S \in SUBSET Item /\ "handled" \in Finished /\ UNCHANGED accepted
    BY <1>0, <1>1 DEF ItemInv, TypeOK, Finished, HandlerReturns
  <2>3. \A x \in S : FateOf(x) = "pending"
    BY <1>0, <2>2, HeldIsPending DEF Somewhere
  <2>4. at'["handled"] = at["handled"] \cup S /\ \A p \in Finished \ {"handled"} : at'[p] = at[p]
    BY <1>0, <2>1, <2>2 DEF Settle, Hand, ItemInv, TypeOK, Place
  <2> HIDE DEF S
  <2> QED
    BY <2>2, <2>3, <2>4, FatesFinish
<1>2. ASSUME NEW x \in Item, Requeue(h, x) PROVE AbstractStep
  BY <1>0, <1>2, ReturnIsStutter DEF Requeue
<1>3. CASE RequeueFails(h) \/ HandleDone(h)
  BY <1>3, FatesKept DEF RequeueFails, HandleDone, AbstractStep, items
<1>4. ASSUME NEW x \in Item, ForcePush(h, x) PROVE AbstractStep
  BY <1>0, <1>4, PushForShutdownImplements DEF ForcePush
<1> QED
  BY <1>1, <1>2, <1>3, <1>4 DEF Requeueing

(* The queue keeps its promise: seen through the places where the items    *)
(* are, every step is one of WorkQueue or changes nothing.                 *)
THEOREM Implementation == Spec => ImplementsWorkQueue
<1>1. Init => Promise!Init
  <2> SUFFICES ASSUME Init PROVE Fates = [x \in Item |-> "new"]
    BY DEF Promise!Init, Fates
  <2>1. \A x \in Item : FateOf(x) = "new"
    BY PlaceNames DEF Init, FateOf
  <2> QED
    BY <2>1 DEF Fates
<1>2. ItemInv /\ [Next]_vars => [Promise!Next]_[x \in Item |-> FateOf(x)]
  <2> SUFFICES ASSUME ItemInv, [Next]_vars PROVE AbstractStep
    BY DEF AbstractStep, Fates
  <2>1. CASE Callers
    BY <2>1, CallersImplement
  <2>2. CASE Popper
    BY <2>2, PopperImplements
  <2>3. CASE Dispatcher
    BY <2>3, DispatcherImplements
  <2>4. ASSUME NEW h \in Handler, HandlerReturns(h) \/ Requeueing(h) PROVE AbstractStep
    BY <2>4, HandlerImplements
  <2>5. ASSUME NEW w \in Worker, WorkerSelect(w) PROVE AbstractStep
    BY <2>5, FatesKept DEF WorkerSelect, WorkerStops, WorkerIdle, AbstractStep, items
  <2>6. CASE UNCHANGED vars
    BY <2>6, FatesKept DEF vars, items, AbstractStep
  <2> QED
    BY <2>1, <2>2, <2>3, <2>4, <2>5, <2>6 DEF Next, Stopped
<1> QED
  BY <1>1, <1>2, ItemsSafe, PTL DEF Spec, Promise!Spec, ImplementsWorkQueue

-----------------------------------------------------------------------------
(* The pool of workers.                                                    *)

LEMMA FiniteHandlers == IsFiniteSet(Worker) /\ IsFiniteSet(Handler)
BY ConstantsAssumption, FS_AddElement DEF Handler

(* The sets of running workers and of active handlers change with st only. *)
LEMMA Counts ==
  /\ IsFiniteSet(Running) /\ IsFiniteSet(Handling)
  /\ Cardinality(Running) \in Nat /\ Cardinality(Handling) \in Nat
BY FiniteHandlers, FS_Subset, FS_CardinalityType DEF Running, Handling

LEMMA StKept ==
  ASSUME UNCHANGED st
  PROVE  Running' = Running /\ Handling' = Handling
BY DEF Running, Handling, Active

(* A handler that starts to handle: one active handler more.               *)
LEMMA StartCounts ==
  ASSUME TypeOK, NEW h \in Handler, ~Active(h), h \in Worker => st[h] # "off",
         st' = [st EXCEPT ![h] = "handle"]
  PROVE  /\ Running' = Running
         /\ Cardinality(Handling') = Cardinality(Handling) + 1
<1>1. \A g \in Handler : st'[g] = IF g = h THEN "handle" ELSE st[g]
  BY DEF TypeOK
<1>2. Running' = Running
  BY <1>1 DEF Running, Handler
<1>3. Handling' = Handling \cup {h} /\ h \notin Handling
  BY <1>1 DEF Handling, Active
<1> QED
  BY <1>2, <1>3, Counts, FS_AddElement

LEMMA PoolInvInit == Init => PoolInv
<1> SUFFICES ASSUME Init PROVE PoolInv
  OBVIOUS
<1>1. \A h \in Handler : st[h] = "off"
  BY DEF Init
<1>2. Running = {} /\ Handling = {}
  BY <1>1 DEF Running, Handling, Active, Handler
<1>3. PoolAccounting
  BY <1>2, FS_EmptySet, ConstantsAssumption DEF PoolAccounting, Init
<1>4. FlusherInFlush
  BY <1>1 DEF FlusherInFlush, Handler
<1>5. BlockedSendHasWorker
  BY DEF BlockedSendHasWorker, Init
<1> QED
  BY <1>3, <1>4, <1>5 DEF PoolInv

(* Steps that change nothing of the pool, nor enter the blocking send, nor *)
(* leave the dispatcher's own handling.                                    *)
LEMMA PoolKept ==
  ASSUME TypeOK, PoolInv, UNCHANGED pool,
         pc' = "send" /\ ~cancelled' => pc = "send" /\ ~cancelled,
         pc \in {"flushDirect", "flushLoop"} /\ st["flusher"] # "off"
           => pc' \in {"flushDirect", "flushLoop"}
  PROVE  PoolInv'
<1>1. UNCHANGED << st, workerNum, workerActiveNum >>
  BY DEF pool
<1> QED
  BY <1>1, StKept DEF PoolInv, PoolAccounting, FlusherInFlush, BlockedSendHasWorker

LEMMA PoolInvCallers == ItemInv /\ PoolInv /\ Callers => PoolInv'
<1> SUFFICES ASSUME ItemInv, PoolInv, Callers PROVE PoolInv'
  OBVIOUS
<1>1. UNCHANGED << pool, pc >> /\ (cancelled => cancelled')
  BY DEF Callers, Push, RemoveLock, Removal, RemoveNext, RemoveReceive, SetWorkerMaxNumber, FlushWithContext, FlushGivesUp,
         Cancel, shared
<1> QED
  BY <1>1, PoolKept DEF ItemInv

LEMMA PoolInvPopper == ItemInv /\ PoolInv /\ Popper => PoolInv'
<1> SUFFICES ASSUME ItemInv, PoolInv, Popper PROVE PoolInv'
  OBVIOUS
<1>1. UNCHANGED << pool, pc, cancelled >>
  BY DEF Popper, PopItem, PopRemove, PopItemCancelled, shared
<1> QED
  BY <1>1, PoolKept DEF ItemInv

LEMMA PoolInvDispatcher == ItemInv /\ PoolInv /\ Dispatcher => PoolInv'
<1> SUFFICES ASSUME ItemInv, PoolInv, Dispatcher PROVE PoolInv'
  OBVIOUS
<1> USE DEF ItemInv
<1>0. Continue \notin {"send", "flushDirect", "flushLoop"}
  BY DEF Continue
<1>1. ASSUME UNCHANGED pool, UNCHANGED cancelled \/ cancelled', pc' # "send",
             pc \in {"flushDirect", "flushLoop"} => st["flusher"] = "off"
      PROVE  PoolInv'
  BY <1>1, PoolKept
<1>2. CASE Run
  BY <1>1, <1>2 DEF Run, RunReceive, RunTimer, RunFlush, RunStops, shared
<1>3. ASSUME NEW w \in Worker, DispatchOffer(w) \/ DispatchSend(w) PROVE PoolInv'
  <2>1. /\ w \in Handler /\ ~Active(w) /\ st[w] # "off"
        /\ st' = [st EXCEPT ![w] = "handle"]
        /\ workerActiveNum' = workerActiveNum + 1
        /\ workerNum' = workerNum
        /\ pc' \notin {"send", "flushDirect", "flushLoop"}
        /\ pc \notin {"flushDirect", "flushLoop"}
    BY <1>0, <1>3 DEF DispatchOffer, DispatchSend, StartHandling, Active, Handler
  <2>2. Running' = Running /\ Cardinality(Handling') = Cardinality(Handling) + 1
    BY <2>1, StartCounts
  <2>3. st'["flusher"] = st["flusher"]
    BY <2>1, PlaceNames DEF TypeOK, Handler
  <2> QED
    BY <2>1, <2>2, <2>3 DEF PoolInv, PoolAccounting, FlusherInFlush, BlockedSendHasWorker
<1>4. ASSUME DispatchFlush \/ FlushReceive PROVE PoolInv'
  <2>1. /\ st["flusher"] = "off"
        /\ st' = [st EXCEPT !["flusher"] = "handle"]
        /\ workerActiveNum' = workerActiveNum + 1
        /\ workerNum' = workerNum
        /\ pc' \in {"flushDirect", "flushLoop"}
    BY <1>4 DEF DispatchFlush, FlushReceive, InFlushLoop, StartHandling, PoolInv, FlusherInFlush
  <2>2. "flusher" \in Handler /\ "flusher" \notin Worker /\ ~Active("flusher")
    BY <2>1, PlaceNames DEF Handler, Active
  <2>3. Running' = Running /\ Cardinality(Handling') = Cardinality(Handling) + 1
    BY <2>1, <2>2, StartCounts
  <2>4. st'["flusher"] = "handle"
    BY <2>1, <2>2 DEF TypeOK
  <2> QED
    BY <2>1, <2>3, <2>4 DEF PoolInv, PoolAccounting, FlusherInFlush, BlockedSendHasWorker
<1>5. CASE DispatchFull \/ DispatchCancelled
  BY <1>0, <1>1, <1>5 DEF DispatchFull, DispatchCancelled, shared
<1>6. CASE DispatchScale
  <2>1. /\ pc \in {"scale", "scaleFull"}
        /\ pc' = IF pc = "scaleFull" THEN "send" ELSE Continue
        /\ workerActiveNum' = workerActiveNum
    BY <1>6 DEF DispatchScale
  <2>2. st["flusher"] = "off"
    BY <2>1 DEF PoolInv, FlusherInFlush
  <2>3. ASSUME NeedsWorker, MayStart, workerNum' = workerNum + 1,
               NEW w \in Worker, st[w] = "off", st' = [st EXCEPT ![w] = "idle"]
        PROVE  PoolInv'
    <3>1. \A g \in Handler : st'[g] = IF g = w THEN "idle" ELSE st[g]
      BY <2>3 DEF TypeOK
    <3>2. Running' = Running \cup {w} /\ w \notin Running
      BY <2>3, <3>1 DEF Running, Handler
    <3>3. Handling' = Handling
      BY <2>3, <3>1 DEF Handling, Active, Handler
    <3>4. Cardinality(Running') = Cardinality(Running) + 1
      BY <3>2, Counts, FS_AddElement
    <3>5. workerNum' <= IF WorkerLimit = 0 THEN 1 ELSE WorkerLimit
      BY <2>3, ConstantsAssumption DEF MayStart, TypeOK
    <3>6. st'["flusher"] = "off"
      BY <2>2, <3>1, PlaceNames DEF Handler
    <3>7. PoolAccounting'
      BY <2>1, <2>3, <3>3, <3>4, <3>5 DEF PoolInv, PoolAccounting
    <3>8. BlockedSendHasWorker'
      BY <3>1 DEF BlockedSendHasWorker, Handler
    <3> QED
      BY <3>6, <3>7, <3>8 DEF PoolInv, FlusherInFlush
  <2>4. ASSUME ~(NeedsWorker /\ MayStart), UNCHANGED << st, workerNum >> PROVE PoolInv'
    <3>1. ASSUME pc' = "send" PROVE workerNum # 0
      BY <2>1, <2>4, <3>1, <1>0 DEF NeedsWorker, MayStart, TypeOK
    <3>2. workerNum # 0 => Running # {}
      BY FS_EmptySet DEF PoolInv, PoolAccounting
    <3>3. BlockedSendHasWorker'
      BY <2>4, <3>1, <3>2 DEF BlockedSendHasWorker, Running
    <3> QED
      BY <2>1, <2>2, <2>4, <3>3, StKept DEF PoolInv, PoolAccounting, FlusherInFlush
  <2> QED
    BY <1>6, <2>3, <2>4 DEF DispatchScale
<1>7. CASE FlushDirectDone \/ FlushWaited \/ FlushTick \/ FlushStops
  BY <1>1, <1>7 DEF FlushDirectDone, FlushWaited, FlushTick, FlushStops, InFlushLoop, shared
<1>8. CASE Shutdown
  BY <1>1, <1>8
     DEF Shutdown, DrainReceive, DrainClosed, ShutdownPush, ShutdownPushed, ShutdownWaited, shared
<1> QED
  BY <1>2, <1>3, <1>4, <1>5, <1>6, <1>7, <1>8 DEF Dispatcher, Dispatch, Flush

(* A handler that returns from doWorkerHandle: one active handler less.    *)
LEMMA PoolInvHandler ==
  ASSUME ItemInv, PoolInv, NEW h \in Handler, HandlerReturns(h) \/ Requeueing(h)
  PROVE  PoolInv'
<1> USE DEF ItemInv
<1>0. UNCHANGED << pc, cancelled, workerNum >> /\ Active(h)
  BY DEF Requeueing, HandlerReturns, Requeue, RequeueFails, ForcePush, HandleDone, pool, shared, Active
<1>1. ASSUME st'[h] # "off", h = "flusher" => st'[h] # "idle",
             \A g \in Handler \ {h} : st'[g] = st[g]
      PROVE  Running' = Running /\ FlusherInFlush' /\ BlockedSendHasWorker'
  <2>1. Running' = Running
    BY <1>0, <1>1 DEF Running, Active, Handler
  <2>2. FlusherInFlush'
    <3>1. CASE h = "flusher"
      BY <1>0, <1>1, <3>1 DEF PoolInv, FlusherInFlush, Active
    <3>2. CASE h # "flusher"
      BY <1>0, <1>1, <3>2, PlaceNames DEF PoolInv, FlusherInFlush, Handler
    <3> QED
      BY <3>1, <3>2
  <2>3. BlockedSendHasWorker'
    BY <1>0, <2>1 DEF PoolInv, BlockedSendHasWorker, Running
  <2> QED
    BY <2>1, <2>2, <2>3
<1>2. ASSUME st' = [st EXCEPT ![h] = "requeue"] \/ st' = [st EXCEPT ![h] = "force"],
             UNCHANGED workerActiveNum
      PROVE  PoolInv'
  <2>1. /\ st'[h] \in {"requeue", "force"}
        /\ \A g \in Handler \ {h} : st'[g] = st[g]
    BY <1>2 DEF TypeOK
  <2>2. Handling' = Handling
    BY <1>0, <2>1 DEF Handling, Active
  <2> QED
    BY <1>0, <1>1, <1>2, <2>1, <2>2 DEF PoolInv, PoolAccounting
<1>3. CASE HandleDone(h)
  <2>1. /\ st' = [st EXCEPT ![h] = IF h = "flusher" THEN "off" ELSE "idle"]
        /\ workerActiveNum' = workerActiveNum - 1
    BY <1>3 DEF HandleDone
  <2>2. /\ st'[h] = IF h = "flusher" THEN "off" ELSE "idle"
        /\ \A g \in Handler \ {h} : st'[g] = st[g]
    BY <2>1 DEF TypeOK
  <2>3. Handling' = Handling \ {h} /\ h \in Handling
    BY <1>0, <2>2 DEF Handling, Active
  <2>4. Cardinality(Handling') = Cardinality(Handling) - 1
    BY <2>3, Counts, FS_RemoveElement
  <2>5. Running' = Running
    BY <1>0, <2>2, PlaceNames DEF Running, Active, Handler
  <2>6. FlusherInFlush'
    <3>1. CASE h = "flusher"
      BY <2>2, <3>1 DEF FlusherInFlush
    <3>2. CASE h # "flusher"
      BY <1>0, <2>2, <3>2 DEF PoolInv, FlusherInFlush, Handler
    <3> QED
      BY <3>1, <3>2
  <2>7. BlockedSendHasWorker'
    BY <1>0, <2>5 DEF PoolInv, BlockedSendHasWorker, Running
  <2> QED
    BY <1>0, <2>1, <2>4, <2>5, <2>6, <2>7 DEF PoolInv, PoolAccounting
<1>4. ASSUME NEW x \in Item, Requeue(h, x) PROVE PoolInv'
  BY <1>0, <1>4, PoolKept DEF Requeue
<1> QED
  BY <1>2, <1>3, <1>4 DEF Requeueing, HandlerReturns, RequeueFails, ForcePush

(* A worker that ends: one running worker less, but not the last one while *)
(* the dispatcher may be sending.                                          *)
LEMMA PoolInvWorker ==
  ASSUME ItemInv, PoolInv, NEW w \in Worker, WorkerSelect(w)
  PROVE  PoolInv'
<1> USE DEF ItemInv
<1>1. /\ w \in Handler /\ st[w] = "idle" /\ st' = [st EXCEPT ![w] = "off"]
      /\ workerNum' = workerNum - 1
      /\ UNCHANGED << workerActiveNum, pc, cancelled >>
      /\ CtxWorkerDone \/ MayEnd
  BY DEF WorkerSelect, WorkerStops, WorkerIdle, StopWorking, shared, Handler
<1>2. \A g \in Handler : st'[g] = IF g = w THEN "off" ELSE st[g]
  BY <1>1 DEF TypeOK
<1>3. Running' = Running \ {w} /\ w \in Running
  BY <1>1, <1>2 DEF Running, Handler
<1>4. /\ IsFiniteSet(Running')
      /\ Cardinality(Running') = Cardinality(Running) - 1
  BY <1>3, Counts, FS_RemoveElement
<1>5. Handling' = Handling
  BY <1>1, <1>2 DEF Handling, Active
<1>6. FlusherInFlush'
  BY <1>1, <1>2, PlaceNames DEF PoolInv, FlusherInFlush, Handler
<1>7. PoolAccounting'
  BY <1>1, <1>4, <1>5, ConstantsAssumption, Counts DEF PoolInv, PoolAccounting
<1>8. BlockedSendHasWorker'
  <2> SUFFICES ASSUME pc = "send", ~cancelled PROVE \E v \in Worker : st'[v] # "off"
    BY <1>1 DEF BlockedSendHasWorker
  <2>1. workerNum > 1
    BY <1>1 DEF CtxWorkerDone, MayEnd
  <2>2. Cardinality(Running') # 0
    BY <2>1, <1>4, Counts DEF PoolInv, PoolAccounting
  <2>3. Running' # {}
    BY <2>2, FS_EmptySet
  <2> QED
    BY <2>3 DEF Running
<1> QED
  BY <1>6, <1>7, <1>8 DEF PoolInv

LEMMA PoolInvNext == ItemInv /\ PoolInv /\ [Next]_vars => PoolInv'
<1> SUFFICES ASSUME ItemInv, PoolInv, [Next]_vars PROVE PoolInv'
  OBVIOUS
<1>1. CASE Callers
  BY <1>1, PoolInvCallers
<1>2. CASE Popper
  BY <1>2, PoolInvPopper
<1>3. CASE Dispatcher
  BY <1>3, PoolInvDispatcher
<1>4. ASSUME NEW h \in Handler, HandlerReturns(h) \/ Requeueing(h) PROVE PoolInv'
  BY <1>4, PoolInvHandler
<1>5. ASSUME NEW w \in Worker, WorkerSelect(w) PROVE PoolInv'
  BY <1>5, PoolInvWorker
<1>6. CASE UNCHANGED vars
  <2>1. UNCHANGED << pool, pc, cancelled >>
    BY <1>6 DEF vars, shared
  <2> QED
    BY <2>1, PoolKept DEF ItemInv
<1> QED
  BY <1>1, <1>2, <1>3, <1>4, <1>5, <1>6 DEF Next, Stopped

(* The invariant about the pool holds in every reachable state ...         *)
THEOREM PoolSafe == Spec => []PoolInv
BY PoolInvInit, PoolInvNext, ItemsSafe, PTL DEF Spec

(* ... hence the counters that doDispatchBatchToWorker, the workers and    *)
(* the administrator's page read are exact, and the pool is bounded;       *)
THEOREM PoolCount == Spec => []PoolAccounting
<1>1. PoolInv => PoolAccounting
  BY DEF PoolInv
<1> QED
  BY <1>1, PoolSafe, PTL

(* and a batch that is being sent has a worker to receive it.              *)
THEOREM NoLostDispatch == Spec => []BlockedSendHasWorker
<1>1. PoolInv => BlockedSendHasWorker
  BY DEF PoolInv
<1> QED
  BY <1>1, PoolSafe, PTL

-----------------------------------------------------------------------------
(* The shutdown.  Past the drain the popper has closed its channel, empty- *)
(* handed; past the push nothing is left in the buffer; the dispatcher has *)
(* no items in its own hands when it handles none; and the timeout has     *)
(* only expired when an item was lost.                                     *)
ShutInv ==
  /\ pc \in {"repush", "repushLate", "await", "done"} => popClosed
  /\ popClosed => at["popper"] = {}
  /\ pc \in {"await", "done"} => at["buffer"] = {}
  /\ st["flusher"] = "off" => at["flusher"] = {}
  /\ pc = "repushLate" => at["lost"] # {}

(* What handing items on, and returning one, does to each place.           *)
LEMMA HandPlaces ==
  ASSUME at \in [Place -> SUBSET Item], NEW from \in Place, NEW to \in Place, from # to,
         NEW S, Hand(S, from, to)
  PROVE  /\ at'[from] = at[from] \ S /\ at'[to] = at[to] \cup S
         /\ \A p \in Place \ {from, to} : at'[p] = at[p]
BY DEF Hand

LEMMA ReturnPlaces ==
  ASSUME at \in [Place -> SUBSET Item], NEW from \in Place, NEW x, Return(x, from)
  PROVE  /\ at'[from] = at[from] \ {x}
         /\ \A p \in Place \ {from} : at'[p] = at[p]
BY DEF Return

LEMMA StartPlaces ==
  ASSUME TypeOK, NEW h \in Handler, NEW from \in {"batch", "popper"}, StartHandling(h, from)
  PROVE  /\ st'[h] = "handle" /\ \A k \in Handler \ {h} : st'[k] = st[k]
         /\ at'[from] = {} /\ at'[h] = at[h] \cup at[from]
         /\ \A p \in Place \ {from, h} : at'[p] = at[p]
<1>1. h \in Place /\ from \in Place /\ h # from
  BY PlaceNames
<1>2. Hand(at[from], from, h) /\ st' = [st EXCEPT ![h] = "handle"]
  BY DEF StartHandling
<1> QED
  BY <1>1, <1>2, HandPlaces DEF TypeOK

LEMMA FourPlaces ==
  /\ {"popper", "buffer", "batch", "flusher", "lost", "handled", "removed"} \subseteq Place
  /\ "flusher" \in Handler
BY PlaceNames DEF Handler

LEMMA ShutInvInit == Init => ShutInv
BY FourPlaces DEF Init, ShutInv

LEMMA ShutInvCallers == ItemInv /\ ShutInv /\ (Callers \/ Popper) => ShutInv'
<1> SUFFICES ASSUME ItemInv, ShutInv, Callers \/ Popper PROVE ShutInv'
  OBVIOUS
<1> USE FourPlaces DEF ItemInv, TypeOK
<1>1. ASSUME NEW x \in Item, Push(x) PROVE ShutInv'
  BY <1>1 DEF Push, ShutInv, pool, shared
<1>2. CASE RemoveLock \/ Removal
  BY <1>2 DEF RemoveLock, Removal, RemoveNext, RemoveReceive, ShutInv, items, pool
<1>3. ASSUME NEW n \in 0..WorkerLimit, SetWorkerMaxNumber(n) PROVE ShutInv'
  BY <1>3 DEF SetWorkerMaxNumber, ShutInv, items, pool, shared
<1>4. CASE FlushWithContext \/ FlushGivesUp \/ Cancel
  BY <1>4 DEF FlushWithContext, FlushGivesUp, Cancel, ShutInv, items, pool, shared
<1>5. CASE PopItem \/ PopRemove
  BY <1>5 DEF PopItem, PopRemove, ShutInv, items, pool
<1>6. CASE PopItemCancelled
  BY <1>6 DEF PopItemCancelled, ShutInv, items, pool
<1> QED
  BY <1>1, <1>2, <1>3, <1>4, <1>5, <1>6 DEF Callers, Popper

LEMMA ShutInvDispatcher == ItemInv /\ ShutInv /\ Dispatcher => ShutInv'
<1> SUFFICES ASSUME ItemInv, ShutInv, Dispatcher PROVE ShutInv'
  OBVIOUS
<1> USE FourPlaces DEF ItemInv, TypeOK
<1>1. CASE RunReceive
  <2>1. /\ pc = "select" /\ pc' \in {"select", "offer"}
        /\ at'["popper"] = {} /\ at'["flusher"] = at["flusher"] /\ at'["lost"] = at["lost"]
    BY <1>1 DEF RunReceive, PopperSends, Hand
  <2> QED
    BY <1>1, <2>1 DEF RunReceive, PopperSends, ShutInv, pool, shared
<1>2. CASE RunTimer \/ RunFlush
  <2>1. /\ pc = "select" /\ pc' \in {"select", "offer", "flushWait"}
        /\ at'["popper"] = at["popper"] /\ at'["flusher"] = at["flusher"] /\ at'["lost"] = at["lost"]
    BY <1>2, HandPlaces DEF RunTimer, RunFlush, TakeBuffer
  <2> QED
    BY <1>2, <2>1 DEF RunTimer, RunFlush, ShutInv, pool, shared
<1>3. CASE RunStops
  BY <1>3 DEF RunStops, ShutInv, items, pool
<1>4. ASSUME NEW w \in Worker, DispatchOffer(w) \/ DispatchSend(w) PROVE ShutInv'
  <2>1. w \in Handler /\ w # "flusher" /\ w \notin {"popper", "buffer", "batch", "lost"}
    BY PlaceNames DEF Handler
  <2>2. /\ pc \in {"offer", "send"} /\ pc' \in {"scale", "flushWait", "select"}
        /\ StartHandling(w, "batch") /\ UNCHANGED shared
    BY <1>4 DEF DispatchOffer, DispatchSend, Continue
  <2>3. /\ st'["flusher"] = st["flusher"]
        /\ \A p \in {"popper", "flusher", "lost"} : at'[p] = at[p]
    BY <2>1, <2>2, StartPlaces
  <2> QED
    BY <2>2, <2>3 DEF ShutInv, shared
<1>5. CASE DispatchFull
  BY <1>5 DEF DispatchFull, ShutInv, items, pool, shared
<1>6. CASE DispatchScale
  <2>1. pc' \in {"send", "flushWait", "select"} /\ st'["flusher"] = st["flusher"] /\ UNCHANGED << items, shared >>
    BY <1>6, PlaceNames DEF DispatchScale, Continue
  <2> QED
    BY <2>1 DEF ShutInv, items, shared
<1>7. CASE DispatchFlush \/ FlushReceive
  <2>1. \E from \in {"batch", "popper"} : StartHandling("flusher", from)
    BY <1>7 DEF DispatchFlush, FlushReceive
  <2>2. pc' \in {"flushDirect", "flushLoop"} /\ UNCHANGED shared
    BY <1>7 DEF DispatchFlush, FlushReceive
  <2>3. st'["flusher"] = "handle" /\ (at'["popper"] = at["popper"] \/ at'["popper"] = {})
    BY <2>1, StartPlaces
  <2> QED
    BY <2>2, <2>3 DEF ShutInv, shared
<1>8. CASE DispatchCancelled
  <2>1. /\ pc' \in {"flushWait", "select"}
        /\ \A p \in {"popper", "flusher", "lost"} : at'[p] = at[p]
    BY <1>8, HandPlaces DEF DispatchCancelled, ReturnBatch, Continue
  <2> QED
    BY <1>8, <2>1 DEF DispatchCancelled, ShutInv, pool, shared
<1>9. CASE FlushDirectDone \/ FlushWaited \/ FlushTick \/ FlushStops
  <2>1. pc' \in {"flushWait", "flushLoop", "flushOnce", "select"} /\ UNCHANGED << items, st, shared >>
    BY <1>9 DEF FlushDirectDone, FlushWaited, FlushTick, FlushStops, pool
  <2> QED
    BY <2>1 DEF ShutInv, items, shared
<1>10. CASE DrainReceive
  <2>1. /\ pc = "drain" /\ at'["popper"] = {}
        /\ \A p \in {"flusher", "lost"} : at'[p] = at[p]
    BY <1>10, HandPlaces DEF DrainReceive
  <2> QED
    BY <1>10, <2>1 DEF DrainReceive, PopperSends, ShutInv, pool, shared
<1>11. CASE DrainClosed
  BY <1>11 DEF DrainClosed, RangeEnds, ShutInv, items, pool, shared
<1>12. ASSUME NEW x \in Item, ShutdownPush(x) PROVE ShutInv'
  <2>1. /\ \A p \in {"popper", "flusher"} : at'[p] = at[p]
        /\ at["lost"] \subseteq at'["lost"]
    BY <1>12, HandPlaces, ReturnPlaces DEF ShutdownPush, PushForShutdown
  <2>2. pc \in {"repush", "repushLate"} /\ pc' = (IF x \in at'["lost"] THEN "repushLate" ELSE pc) /\ UNCHANGED << pool, shared >>
    BY <1>12 DEF ShutdownPush
  <2> QED
    BY <2>1, <2>2 DEF ShutInv, pool, shared
<1>13. CASE ShutdownPushed \/ ShutdownWaited
  BY <1>13 DEF ShutdownPushed, ShutdownWaited, ShutInv, items, pool, shared
<1> QED
  BY <1>1, <1>2, <1>3, <1>4, <1>5, <1>6, <1>7, <1>8, <1>9, <1>10, <1>11, <1>12, <1>13
     DEF Dispatcher, Run, Dispatch, Flush, Shutdown

LEMMA ShutInvHandler ==
  ASSUME ItemInv, ShutInv, NEW h \in Handler, HandlerReturns(h) \/ Requeueing(h)
  PROVE  ShutInv'
<1> USE FourPlaces DEF ItemInv, TypeOK
<1>1. h \in Place /\ h \notin {"popper", "buffer", "batch", "handled", "removed", "lost"}
  BY PlaceNames
<1>2. UNCHANGED << pc, shared >>
  BY DEF Requeueing, HandlerReturns, Requeue, RequeueFails, ForcePush, HandleDone
<1> DEFINE Kept == /\ \A p \in {"popper", "buffer"} : at'[p] = at[p]
                   /\ at["lost"] \subseteq at'["lost"]
                   /\ at'["flusher"] \subseteq at["flusher"]
<1>3. Kept
  <2>1. CASE HandlerReturns(h)
    <3>1. PICK U \in SUBSET at[h] : Hand(at[h] \ U, h, "handled")
      BY <2>1 DEF HandlerReturns, Settle
    <3> QED
      BY <1>1, <3>1, HandPlaces
  <2>2. ASSUME NEW x \in Item, Return(x, h) PROVE Kept
    BY <1>1, <2>2, ReturnPlaces
  <2>3. ASSUME NEW x \in Item, Hand({x}, h, "lost") PROVE Kept
    BY <1>1, <2>3, HandPlaces
  <2>4. CASE RequeueFails(h) \/ HandleDone(h)
    BY <2>4 DEF RequeueFails, HandleDone, items
  <2> QED
    BY <2>1, <2>2, <2>3, <2>4 DEF Requeueing, Requeue, ForcePush, PushForShutdown
<1>4. st'["flusher"] = "off" => at'["flusher"] = {}
  <2>1. CASE h # "flusher"
    <3>1. st'["flusher"] = st["flusher"]
      BY <2>1 DEF Requeueing, HandlerReturns, Requeue, RequeueFails, ForcePush, HandleDone, pool
    <3> QED
      BY <1>3, <3>1 DEF ShutInv
  <2>2. CASE h = "flusher"
    BY <2>2, <1>3 DEF Requeueing, HandlerReturns, Requeue, RequeueFails, ForcePush, HandleDone, pool, ShutInv
  <2> QED
    BY <2>1, <2>2
<1> QED
  BY <1>2, <1>3, <1>4 DEF ShutInv, shared

LEMMA ShutInvNext == ItemInv /\ ShutInv /\ [Next]_vars => ShutInv'
<1> SUFFICES ASSUME ItemInv, ShutInv, [Next]_vars PROVE ShutInv'
  OBVIOUS
<1>1. CASE Callers \/ Popper
  BY <1>1, ShutInvCallers
<1>2. CASE Dispatcher
  BY <1>2, ShutInvDispatcher
<1>3. ASSUME NEW h \in Handler, HandlerReturns(h) \/ Requeueing(h) PROVE ShutInv'
  BY <1>3, ShutInvHandler
<1>4. ASSUME NEW w \in Worker, WorkerSelect(w) PROVE ShutInv'
  <2>1. UNCHANGED << items, pc, shared >> /\ st'["flusher"] = st["flusher"]
    BY <1>4, PlaceNames, FourPlaces DEF WorkerSelect, WorkerStops, WorkerIdle, StopWorking, ItemInv, TypeOK
  <2> QED
    BY <2>1 DEF ShutInv, items, shared
<1>5. CASE UNCHANGED vars
  BY <1>5 DEF ShutInv, vars, items, pool, shared
<1> QED
  BY <1>1, <1>2, <1>3, <1>4, <1>5 DEF Next, Stopped

(* When ShutdownWait returns, whatever the goroutines were doing when the  *)
(* queue was cancelled, an accepted item is finished, back in the base     *)
(* queue, or with a worker that outlived the timeout.                      *)
THEOREM ShutdownSafe == Spec => []ShutdownLeavesNothing
<1>1. Spec => []ShutInv
  BY ItemsSafe, ShutInvInit, ShutInvNext, PTL DEF Spec
<1>2. ItemInv /\ PoolInv /\ ShutInv => ShutdownLeavesNothing
  <2> SUFFICES ASSUME ItemInv, PoolInv, ShutInv, pc = "done", NEW x \in accepted, x \notin BaseItems
               PROVE  Somewhere(x, Finished \cup Worker)
    BY DEF ShutdownLeavesNothing
  <2>1. PICK p \in Place : x \in at[p]
    BY DEF ItemInv, TypeOK, NothingVanishes, Somewhere
  <2>2. at["popper"] = {} /\ at["buffer"] = {}
    BY DEF ShutInv
  <2>3. at["batch"] = {}
    BY DEF ItemInv, BatchInDispatch
  <2>4. at["flusher"] = {}
    BY DEF PoolInv, FlusherInFlush, ShutInv
  <2>5. p \in Finished \cup Worker
    BY <2>1, <2>2, <2>3, <2>4 DEF Place, Handler
  <2> QED
    BY <2>1, <2>5 DEF Somewhere
<1> QED
  BY <1>1, <1>2, ItemsSafe, PoolSafe, PTL

(* Where an item can be lost, and that nothing is lost elsewhere.          *)
LossStep ==
  \E x \in Item : (\E h \in Handler : ForcePush(h, x)) \/ ShutdownPush(x)

LEMMA LostKept ==
  ASSUME ItemInv, [Next]_vars, ~LossStep
  PROVE  at'["lost"] = at["lost"] /\ accepted \subseteq accepted'
<1> USE FourPlaces DEF ItemInv, TypeOK
<1>1. CASE Callers \/ Popper \/ Stopped \/ UNCHANGED vars
  BY <1>1 DEF Callers, Popper, Stopped, Push, RemoveLock, Removal, RemoveNext, RemoveReceive, SetWorkerMaxNumber, FlushWithContext,
              FlushGivesUp, Cancel, PopItem, PopRemove, PopItemCancelled, vars, items
<1>2. CASE Run
  BY <1>2, HandPlaces DEF Run, RunReceive, RunTimer, RunFlush, RunStops, TakeBuffer, Hand, items
<1>3. CASE Dispatch \/ Flush
  <2>1. ASSUME NEW h \in Handler, NEW from \in {"batch", "popper"}, StartHandling(h, from),
               UNCHANGED accepted
        PROVE  at'["lost"] = at["lost"] /\ accepted \subseteq accepted'
    <3>1. "lost" \in Place \ {from, h}
      BY PlaceNames
    <3> QED
      BY <2>1, <3>1, StartPlaces
  <2>2. CASE DispatchCancelled
    BY <2>2, HandPlaces DEF DispatchCancelled, ReturnBatch
  <2>3. CASE DispatchFull \/ DispatchScale \/ FlushDirectDone \/ FlushWaited \/ FlushTick \/ FlushStops
    BY <2>3 DEF DispatchFull, DispatchScale, FlushDirectDone, FlushWaited, FlushTick, FlushStops, items
  <2>4. ASSUME NEW w \in Worker, DispatchOffer(w) \/ DispatchSend(w)
        PROVE  at'["lost"] = at["lost"] /\ accepted \subseteq accepted'
    BY <2>1, <2>4 DEF DispatchOffer, DispatchSend, Handler
  <2>5. CASE DispatchFlush \/ FlushReceive
    BY <2>1, <2>5 DEF DispatchFlush, FlushReceive
  <2> QED
    BY <1>3, <2>2, <2>3, <2>4, <2>5 DEF Dispatch, Flush
<1>4. CASE Shutdown
  BY <1>4, HandPlaces DEF Shutdown, DrainReceive, DrainClosed, ShutdownPushed, ShutdownWaited, LossStep, items
<1>5. ASSUME NEW h \in Handler, HandlerReturns(h) \/ Requeueing(h)
      PROVE  at'["lost"] = at["lost"] /\ accepted \subseteq accepted'
  <2>1. h \in Place /\ h # "lost" /\ h # "handled"
    BY PlaceNames
  <2>2. CASE HandlerReturns(h)
    <3>1. PICK U \in SUBSET at[h] : Hand(at[h] \ U, h, "handled")
      BY <2>2 DEF HandlerReturns, Settle
    <3> QED
      BY <2>1, <2>2, <3>1, HandPlaces DEF HandlerReturns
  <2>3. ASSUME NEW x \in Item, Requeue(h, x)
        PROVE  at'["lost"] = at["lost"] /\ accepted \subseteq accepted'
    BY <2>1, <2>3, ReturnPlaces DEF Requeue
  <2>4. CASE RequeueFails(h) \/ HandleDone(h)
    BY <2>4 DEF RequeueFails, HandleDone, items
  <2> QED
    BY <1>5, <2>2, <2>3, <2>4 DEF Requeueing, LossStep
<1>6. ASSUME NEW w \in Worker, WorkerSelect(w)
      PROVE  at'["lost"] = at["lost"] /\ accepted \subseteq accepted'
  BY <1>6 DEF WorkerSelect, WorkerStops, WorkerIdle, items
<1> QED
  BY <1>1, <1>2, <1>3, <1>4, <1>5, <1>6 DEF Next, Dispatcher

(* When the base queue is full and one more item is on its way back, more  *)
(* items are unfinished than the base queue has room for.                  *)
LEMMA FullIsOverload ==
  ASSUME ItemInv, NEW p \in Place \ Finished, NEW x \in at[p], Len(base) >= BaseLength
  PROVE  Cardinality(Pending) > BaseLength
<1> USE DEF ItemInv, TypeOK
<1>1. IsFiniteSet(Pending) /\ Cardinality(Pending) \in Nat
  BY ConstantsAssumption, FS_Subset, FS_CardinalityType DEF Pending
<1>2. Len(base) = BaseLength /\ BaseLength \in Nat /\ x \in Item
  BY ConstantsAssumption
<1> DEFINE n == BaseLength + 1
           f == [i \in 1..n |-> IF i = n THEN x ELSE base[i]]
<1>3. IsFiniteSet(1..n) /\ Cardinality(1..n) = n
  <2>1. n \in Nat
    BY <1>2
  <2> QED
    BY <2>1, <1>2, FS_Interval
<1>4. \A i \in 1..n : f[i] \in Pending
  <2>1. Finished \subseteq Place
    BY DEF Finished, Place
  <2>2. BaseItems \cup {x} \subseteq accepted
    BY <1>2 DEF NothingVanishes, Somewhere, BaseItems
  <2>3. \A q \in Finished : at[q] \cap (BaseItems \cup {x}) = {}
    BY <2>1 DEF OnePlace
  <2>4. BaseItems \cup {x} \subseteq Pending
    BY <2>2, <2>3 DEF Pending
  <2>5. \A i \in 1..n : f[i] \in BaseItems \cup {x}
    BY <1>2 DEF BaseItems
  <2> QED
    BY <2>4, <2>5
<1>5. \A i, j \in 1..n : f[i] = f[j] => i = j
  <2>1. x \notin BaseItems
    BY DEF OnePlace
  <2>2. \A i \in 1..n : i # n => i \in 1..Len(base) /\ f[i] = base[i]
    BY <1>2
  <2> QED
    BY <2>1, <2>2 DEF OnePlace, BaseItems
<1>6. f \in [1..n -> Pending]
  BY <1>4
<1>7. ASSUME n > Cardinality(Pending) PROVE FALSE
  <2> HIDE DEF f
  <2>1. \E i, j \in 1..n : i # j /\ f[i] = f[j]
    BY <1>1, <1>3, <1>6, <1>7, FS_PigeonHole
  <2> QED
    BY <2>1, <1>5
<1> QED
  BY <1>1, <1>2, <1>7

(* What excuses a loss.                                                    *)
Overload == Cardinality(Pending) > BaseLength \/ pc = "repushLate"

LEMMA LossIsOverload == ItemInv /\ [Next]_vars => (at'["lost"] # at["lost"] => Overload)
<1> SUFFICES ASSUME ItemInv, [Next]_vars, at'["lost"] # at["lost"] PROVE Overload
  OBVIOUS
<1> USE FourPlaces DEF ItemInv, TypeOK
<1>1. LossStep
  BY LostKept
<1>2. ASSUME NEW from \in Place \ Finished, NEW x \in at[from], NEW expired \in BOOLEAN,
             PushForShutdown(x, from, expired), expired => pc = "repushLate"
      PROVE  Overload
  <2>1. CASE Return(x, from)
    BY <1>2, <2>1, ReturnPlaces DEF Finished
  <2>2. CASE Len(base) >= BaseLength
    BY <1>2, <2>2, FullIsOverload DEF Overload
  <2>3. CASE expired
    BY <1>2, <2>3 DEF Overload
  <2> QED
    BY <1>2, <2>1, <2>2, <2>3 DEF PushForShutdown
<1>3. ASSUME NEW h \in Handler, NEW x \in Item, ForcePush(h, x) PROVE Overload
  <2>1. h \in Place \ Finished
    BY PlaceNames DEF Finished
  <2> QED
    BY <1>2, <1>3, <2>1 DEF ForcePush
<1>4. ASSUME NEW x \in Item, ShutdownPush(x) PROVE Overload
  <2>1. "buffer" \in Place \ Finished
    BY DEF Finished
  <2>2. /\ x \in at["buffer"] /\ PushForShutdown(x, "buffer", pc = "repushLate")
    BY <1>4 DEF ShutdownPush
  <2> QED
    BY <1>2, <2>1, <2>2
<1> QED
  BY <1>1, <1>3, <1>4 DEF LossStep

(* However often handlers fail and whenever the queue is shut down, an     *)
(* item is given up only when more items are unfinished than the base      *)
(* queue is long, or after a push of the shutdown has timed out.           *)
THEOREM NoLossWithinLength == Spec => LossNeedsOverload
<1>1. ItemInv /\ [Next]_vars => [at'["lost"] # at["lost"] => Overload]_vars
  BY LossIsOverload
<1> QED
  BY <1>1, ItemsSafe, PTL DEF Spec, LossNeedsOverload, Overload

-----------------------------------------------------------------------------
(* Flushes.  The popper's channel is only closed when the queue is shut    *)
(* down; the workers that doFlush has waited for stay away until it ends;  *)
(* who handles nothing holds nothing; and from a dispatch to the end of    *)
(* the flush the buffer is empty, unless a shut down queue has returned    *)
(* the batch to it.                                                        *)
FlushInv ==
  /\ popClosed => cancelled
  /\ pc \in {"flushLoop", "flushOnce"} => WorkersEnded
  /\ \A w \in Worker : st[w] \in {"off", "idle"} => at[w] = {}
  /\ pc \in {"offer", "scale", "scaleFull", "send"} \cup
            {"flushDirect", "flushWait", "flushLoop", "flushOnce"} /\ ~cancelled
       => at["buffer"] = {}

LEMMA WorkerPlaces ==
  /\ Worker \subseteq Place /\ Worker \subseteq Handler
  /\ \A w \in Worker : w \notin {"popper", "buffer", "batch", "flusher", "handled", "removed", "lost"}
BY ConstantsAssumption DEF Place, Handler

LEMMA FlushInvInit == Init => FlushInv
BY FourPlaces, WorkerPlaces DEF Init, FlushInv

LEMMA FlushInvCallers == ItemInv /\ FlushInv /\ (Callers \/ Popper) => FlushInv'
<1> SUFFICES ASSUME ItemInv, FlushInv, Callers \/ Popper PROVE FlushInv'
  OBVIOUS
<1>1. UNCHANGED << pc, st >> /\ (cancelled => cancelled')
  BY DEF Callers, Popper, Push, RemoveLock, Removal, RemoveNext, RemoveReceive, SetWorkerMaxNumber, FlushWithContext, FlushGivesUp,
         Cancel, PopItem, PopRemove, PopItemCancelled, pool, shared
<1>2. popClosed' => cancelled'
  BY DEF FlushInv, Callers, Popper, Push, RemoveLock, Removal, RemoveNext, RemoveReceive, SetWorkerMaxNumber, FlushWithContext,
         FlushGivesUp, Cancel, PopItem, PopRemove, PopItemCancelled, shared
<1>3. at'["buffer"] = at["buffer"] /\ \A w \in Worker : at'[w] = at[w]
  BY FourPlaces, WorkerPlaces
     DEF ItemInv, TypeOK, Callers, Popper, Push, RemoveLock, Removal, RemoveNext, RemoveReceive, SetWorkerMaxNumber,
         FlushWithContext, FlushGivesUp, Cancel, PopItem, PopRemove, PopItemCancelled, items
<1> QED
  BY <1>1, <1>2, <1>3 DEF FlushInv, WorkersEnded

(* A step of the dispatcher that leaves the workers alone.                 *)
LEMMA FlushKept ==
  ASSUME FlushInv, \A w \in Worker : st'[w] = st[w] /\ at'[w] = at[w],
         popClosed' = popClosed, cancelled => cancelled',
         pc' \in {"flushLoop", "flushOnce"} => WorkersEnded,
         \/ at'["buffer"] = {} \/ cancelled'
         \/ pc' \in {"select", "drain", "repush", "repushLate", "await", "done"}
  PROVE  FlushInv'
BY DEF FlushInv, WorkersEnded, DispatcherPC

LEMMA FlushInvDispatcher == ItemInv /\ FlushInv /\ Dispatcher => FlushInv'
<1> SUFFICES ASSUME ItemInv, FlushInv, Dispatcher PROVE FlushInv'
  OBVIOUS
<1> USE FourPlaces, WorkerPlaces DEF ItemInv, TypeOK
<1>1. CASE RunReceive
  <2>1. /\ pc' = "offer" => at'["buffer"] = {}
        /\ pc' \in {"select", "offer"}
        /\ \A w \in Worker : at'[w] = at[w]
    BY <1>1 DEF RunReceive, PopperSends, Hand
  <2> QED
    BY <1>1, <2>1, FlushKept DEF RunReceive, PopperSends, pool, shared
<1>2. CASE RunTimer \/ RunFlush
  <2>1. /\ at'["buffer"] = {} /\ \A w \in Worker : at'[w] = at[w]
        /\ pc' \in {"select", "offer", "flushWait"}
    BY <1>2, HandPlaces DEF RunTimer, RunFlush, TakeBuffer
  <2> QED
    BY <1>2, <2>1, FlushKept DEF RunTimer, RunFlush, pool, shared
<1>3. CASE RunStops
  BY <1>3, FlushKept DEF RunStops, items, pool
<1>4. ASSUME NEW v \in Worker, DispatchOffer(v) \/ DispatchSend(v) PROVE FlushInv'
  <2>1. /\ pc \in {"offer", "send"} /\ pc' \in {"scale", "flushWait", "select"}
        /\ StartHandling(v, "batch") /\ UNCHANGED shared
    BY <1>4 DEF DispatchOffer, DispatchSend, Continue
  <2>2. /\ st'[v] = "handle" /\ at'["buffer"] = at["buffer"]
        /\ \A w \in Worker \ {v} : st'[w] = st[w] /\ at'[w] = at[w]
    BY <2>1, StartPlaces
  <2> QED
    BY <2>1, <2>2 DEF FlushInv, shared
<1>5. CASE DispatchFull
  BY <1>5, FlushKept DEF DispatchFull, FlushInv, items, pool, shared
<1>6. CASE DispatchScale
  <2>1. /\ pc \in {"scale", "scaleFull"} /\ pc' \in {"send", "flushWait", "select"}
        /\ UNCHANGED << items, shared >>
    BY <1>6 DEF DispatchScale, Continue
  <2>2. \A w \in Worker : st'[w] = st[w] \/ (st[w] = "off" /\ st'[w] = "idle")
    BY <1>6 DEF DispatchScale
  <2> QED
    BY <2>1, <2>2 DEF FlushInv, items, shared
<1>7. CASE DispatchFlush \/ FlushReceive
  <2>1. \E from \in {"batch", "popper"} : StartHandling("flusher", from)
    BY <1>7 DEF DispatchFlush, FlushReceive
  <2>2. /\ \A w \in Worker : st'[w] = st[w] /\ at'[w] = at[w]
        /\ at'["buffer"] = at["buffer"]
    BY <2>1, StartPlaces
  <2>3. /\ pc' = "flushDirect" \/ (pc' = "flushLoop" /\ pc \in {"flushLoop", "flushOnce"})
        /\ pc \in {"send", "flushLoop", "flushOnce"} /\ UNCHANGED shared
    BY <1>7 DEF DispatchFlush, FlushReceive, InFlushLoop
  <2> QED
    BY <2>2, <2>3 DEF FlushInv, WorkersEnded, shared
<1>8. CASE DispatchCancelled
  <2>1. /\ cancelled /\ pc' \in {"flushWait", "select"} /\ UNCHANGED << pool, shared >>
        /\ \A w \in Worker : at'[w] = at[w]
    BY <1>8, HandPlaces DEF DispatchCancelled, ReturnBatch, Continue
  <2> QED
    BY <2>1, FlushKept DEF pool, shared
<1>9. CASE FlushDirectDone \/ FlushWaited \/ FlushTick \/ FlushStops
  <2>1. /\ pc \in {"flushDirect", "flushWait", "flushLoop", "flushOnce"}
        /\ pc' \in {"flushWait", "flushLoop", "flushOnce", "select"}
        /\ pc' \in {"flushLoop", "flushOnce"} => WorkersEnded
        /\ UNCHANGED << items, st, shared >>
    BY <1>9 DEF FlushDirectDone, FlushWaited, FlushTick, FlushStops, InFlushLoop, FlushInv, pool
  <2> QED
    BY <2>1, FlushKept DEF FlushInv, items, shared
<1>10. CASE Shutdown
  <2>1. /\ pc' \in {"drain", "repush", "repushLate", "await", "done"} /\ UNCHANGED << pool, shared >>
        /\ \A w \in Worker : at'[w] = at[w]
    <3>1. CASE DrainReceive
      BY <3>1, HandPlaces DEF DrainReceive
    <3>2. ASSUME NEW x \in Item, ShutdownPush(x)
          PROVE  /\ pc' \in {"repush", "repushLate"} /\ UNCHANGED << pool, shared >>
                 /\ \A w \in Worker : at'[w] = at[w]
      <4>1. Return(x, "buffer") \/ Hand({x}, "buffer", "lost")
        BY <3>2 DEF ShutdownPush, PushForShutdown
      <4>2. \A w \in Worker : at'[w] = at[w]
        BY <4>1, HandPlaces, ReturnPlaces
      <4> QED
        BY <3>2, <4>2 DEF ShutdownPush
    <3>3. CASE DrainClosed \/ ShutdownPushed \/ ShutdownWaited
      BY <3>3 DEF DrainClosed, ShutdownPushed, ShutdownWaited, items
    <3> QED
      BY <1>10, <3>1, <3>2, <3>3 DEF Shutdown
  <2> QED
    BY <2>1, FlushKept DEF pool, shared
<1> QED
  BY <1>1, <1>2, <1>3, <1>4, <1>5, <1>6, <1>7, <1>8, <1>9, <1>10
     DEF Dispatcher, Run, Dispatch, Flush

LEMMA FlushInvHandler ==
  ASSUME ItemInv, FlushInv, NEW h \in Handler, HandlerReturns(h) \/ Requeueing(h)
  PROVE  FlushInv'
<1> USE FourPlaces, WorkerPlaces DEF ItemInv, TypeOK
<1>1. h \in Place /\ h \notin {"popper", "buffer", "batch", "handled", "removed", "lost"}
  BY PlaceNames
<1>2. UNCHANGED << pc, shared >> /\ st[h] \notin {"off", "idle"}
  BY DEF Requeueing, HandlerReturns, Requeue, RequeueFails, ForcePush, HandleDone
<1> DEFINE Kept == at'["buffer"] = at["buffer"] /\ \A w \in Worker \ {h} : at'[w] = at[w]
<1>3. Kept
  <2>1. CASE HandlerReturns(h)
    <3>1. PICK U \in SUBSET at[h] : Hand(at[h] \ U, h, "handled")
      BY <2>1 DEF HandlerReturns, Settle
    <3> QED
      BY <1>1, <3>1, HandPlaces
  <2>2. ASSUME NEW x \in Item, Return(x, h) PROVE Kept
    BY <1>1, <2>2, ReturnPlaces
  <2>3. ASSUME NEW x \in Item, Hand({x}, h, "lost") PROVE Kept
    BY <1>1, <2>3, HandPlaces
  <2>4. CASE RequeueFails(h) \/ HandleDone(h)
    BY <2>4 DEF RequeueFails, HandleDone, items
  <2> QED
    BY <2>1, <2>2, <2>3, <2>4 DEF Requeueing, Requeue, ForcePush, PushForShutdown
<1>4. \A w \in Worker \ {h} : st'[w] = st[w]
  BY DEF Requeueing, HandlerReturns, Requeue, RequeueFails, ForcePush, HandleDone, pool
<1>5. st'[h] \in {"off", "idle"} => at'[h] = {}
  BY <1>2 DEF Requeueing, HandlerReturns, Requeue, RequeueFails, ForcePush, HandleDone, pool, items
<1>6. WorkersEnded => h \notin Worker
  BY <1>2 DEF WorkersEnded
<1> QED
  BY <1>2, <1>3, <1>4, <1>5, <1>6 DEF FlushInv, WorkersEnded, shared

LEMMA FlushInvNext == ItemInv /\ FlushInv /\ [Next]_vars => FlushInv'
<1> SUFFICES ASSUME ItemInv, FlushInv, [Next]_vars PROVE FlushInv'
  OBVIOUS
<1>1. CASE Callers \/ Popper
  BY <1>1, FlushInvCallers
<1>2. CASE Dispatcher
  BY <1>2, FlushInvDispatcher
<1>3. ASSUME NEW h \in Handler, HandlerReturns(h) \/ Requeueing(h) PROVE FlushInv'
  BY <1>3, FlushInvHandler
<1>4. ASSUME NEW v \in Worker, WorkerSelect(v) PROVE FlushInv'
  <2>1. /\ UNCHANGED << items, pc, shared >> /\ st[v] = "idle" /\ st'[v] = "off"
        /\ \A w \in Worker \ {v} : st'[w] = st[w]
    BY <1>4, WorkerPlaces DEF WorkerSelect, WorkerStops, WorkerIdle, StopWorking, ItemInv, TypeOK
  <2> QED
    BY <2>1 DEF FlushInv, WorkersEnded, items, shared
<1>5. CASE UNCHANGED vars
  BY <1>5 DEF FlushInv, WorkersEnded, vars, items, pool, shared
<1> QED
  BY <1>1, <1>2, <1>3, <1>4, <1>5 DEF Next, Stopped

(* Only the end of doFlush closes its request.                             *)
LEMMA FlushCloses ==
  ASSUME ItemInv, FlushInv, [Next]_vars, flushing, ~flushing', ~cancelled
  PROVE  FlushTick /\ pc = "flushOnce"
<1>1. CASE Dispatcher
  <2>1. FlushTick \/ FlushStops
    BY <1>1 DEF Dispatcher, Run, Dispatch, Flush, Shutdown, RunReceive, RunTimer, RunFlush, RunStops,
                DispatchOffer, DispatchFull, DispatchScale, DispatchSend, DispatchFlush,
                DispatchCancelled, FlushDirectDone, FlushWaited, FlushReceive, DrainReceive,
                DrainClosed, ShutdownPush, ShutdownPushed, ShutdownWaited, flushChan
  <2>2. ~FlushStops
    BY DEF FlushStops, FlushInv
  <2> QED
    BY <2>1, <2>2 DEF FlushTick, InFlushLoop
<1>2. CASE ~Dispatcher
  BY <1>2 DEF Next, vars, flushChan, Callers, Popper, Push, RemoveLock, Removal, RemoveNext, RemoveReceive, SetWorkerMaxNumber,
              FlushWithContext, FlushGivesUp, Cancel, PopItem, PopRemove, PopItemCancelled,
              HandlerReturns, Requeueing, Requeue, RequeueFails, ForcePush, HandleDone,
              WorkerSelect, WorkerStops, WorkerIdle, Stopped
<1> QED
  BY <1>1, <1>2

(* A flush that ends while the queue runs has emptied it: every accepted   *)
(* item is finished or in the popper's hand (workergroup.go:179-238).      *)
THEOREM FlushEmpties == Spec => FlushDrains
<1>1. Spec => []FlushInv
  BY ItemsSafe, FlushInvInit, FlushInvNext, PTL DEF Spec
<1>2. Spec => []ShutInv
  BY ItemsSafe, ShutInvInit, ShutInvNext, PTL DEF Spec
<1>3. ItemInv /\ ShutInv /\ FlushInv /\ [Next]_vars =>
        [flushing /\ ~flushing' /\ ~cancelled =>
           \A x \in accepted : Somewhere(x, Finished \cup {"popper"})]_vars
  <2> SUFFICES ASSUME ItemInv, ShutInv, FlushInv, [Next]_vars, flushing, ~flushing', ~cancelled,
                      NEW x \in accepted
               PROVE  Somewhere(x, Finished \cup {"popper"})
    OBVIOUS
  <2>1. pc = "flushOnce" /\ st["flusher"] = "off" /\ base = << >>
    BY FlushCloses DEF FlushTick, InFlushLoop
  <2>2. x \notin BaseItems
    BY <2>1 DEF BaseItems
  <2>3. PICK p \in Place : x \in at[p]
    BY <2>2 DEF ItemInv, TypeOK, NothingVanishes, Somewhere
  <2>4. /\ at["flusher"] = {} /\ at["batch"] = {} /\ at["buffer"] = {}
        /\ \A w \in Worker : at[w] = {}
    BY <2>1 DEF ItemInv, BatchInDispatch, ShutInv, FlushInv, WorkersEnded
  <2>5. p \in Finished \cup {"popper"}
    BY <2>3, <2>4 DEF Place, Handler
  <2> QED
    BY <2>3, <2>5 DEF Somewhere
<1> QED
  BY <1>1, <1>2, <1>3, ItemsSafe, PTL DEF Spec, FlushDrains

-----------------------------------------------------------------------------
(* What waits.  The dispatcher only leaves doRun when the queue is shared    *)
(* down; until then the timer runs for a buffer that is not empty, and a   *)
(* flush request is held only in doDispatchBatchToWorker and doFlush.      *)
TimedInv ==
  /\ pc \in {"drain", "repush", "repushLate", "await", "done"} => cancelled
  /\ at["buffer"] # {} => timer \/ cancelled
  /\ flushing => pc \in OnTheWay \/ cancelled

(* A step that leaves the dispatcher, its timer and its buffer alone.      *)
LEMMA TimedKept ==
  ASSUME TimedInv, UNCHANGED << pc, timer, flushing >>, at'["buffer"] = at["buffer"],
         cancelled => cancelled'
  PROVE  TimedInv'
BY DEF TimedInv

LEMMA TimedInvInit == Init => TimedInv
BY FourPlaces DEF Init, TimedInv

LEMMA TimedInvCallers == ItemInv /\ TimedInv /\ (Callers \/ Popper) => TimedInv'
<1> SUFFICES ASSUME ItemInv, TimedInv, Callers \/ Popper PROVE TimedInv'
  OBVIOUS
<1>1. UNCHANGED << pc, timer, flushing >> /\ (cancelled => cancelled')
  BY DEF Callers, Popper, Push, RemoveLock, Removal, RemoveNext, RemoveReceive, SetWorkerMaxNumber, FlushWithContext, FlushGivesUp,
         Cancel, PopItem, PopRemove, PopItemCancelled, flushChan, shared
<1>2. at'["buffer"] = at["buffer"]
  BY FourPlaces
     DEF ItemInv, TypeOK, Callers, Popper, Push, RemoveLock, Removal, RemoveNext, RemoveReceive, SetWorkerMaxNumber,
         FlushWithContext, FlushGivesUp, Cancel, PopItem, PopRemove, PopItemCancelled, items
<1> QED
  BY <1>1, <1>2, TimedKept

LEMMA TimedInvDispatcher == ItemInv /\ FlushInv /\ TimedInv /\ Dispatcher => TimedInv'
<1> SUFFICES ASSUME ItemInv, FlushInv, TimedInv, Dispatcher PROVE TimedInv'
  OBVIOUS
<1> USE FourPlaces DEF ItemInv, TypeOK
<1>1. CASE RunReceive
  <2>1. (at'["buffer"] = {} /\ timer' = timer /\ pc' = "offer") \/ (timer' /\ pc' = pc)
    BY <1>1 DEF RunReceive, PopperSends, StartTimer
  <2>2. UNCHANGED << flushing, cancelled >> /\ pc = "select"
    BY <1>1 DEF RunReceive, PopperSends, flushChan, shared
  <2> QED
    BY <2>1, <2>2 DEF TimedInv, OnTheWay
<1>2. CASE RunTimer
  <2>1. at'["buffer"] = {} /\ pc = "select" /\ pc' \in {"select", "offer"}
    BY <1>2, HandPlaces DEF RunTimer, TakeBuffer
  <2> QED
    BY <1>2, <2>1 DEF RunTimer, TimedInv, OnTheWay, flushChan, shared
<1>3. CASE RunFlush
  <2>1. at'["buffer"] = {} /\ pc' \in {"flushWait", "offer"}
    BY <1>3, HandPlaces DEF RunFlush, TakeBuffer
  <2> QED
    BY <1>3, <2>1 DEF RunFlush, TimedInv, OnTheWay, shared
<1>4. CASE RunStops
  BY <1>4 DEF RunStops, TimedInv
<1>5. ASSUME NEW h \in Handler, NEW from \in {"batch", "popper"}, StartHandling(h, from),
             UNCHANGED << timer, shared >>,
             \/ pc \in OnTheWay /\ pc' \in OnTheWay
             \/ pc' = Continue /\ UNCHANGED flushing
      PROVE  TimedInv'
  <2>1. at'["buffer"] = at["buffer"]
    BY <1>5, StartPlaces, PlaceNames
  <2>2. pc' \in OnTheWay \/ (pc' = "select" /\ ~flushing')
    BY <1>5 DEF Continue, OnTheWay
  <2> QED
    BY <1>5, <2>1, <2>2 DEF TimedInv, OnTheWay, shared
<1>6. ASSUME NEW w \in Worker, DispatchOffer(w) \/ DispatchSend(w) PROVE TimedInv'
  BY <1>5, <1>6, WorkerPlaces DEF DispatchOffer, DispatchSend, OnTheWay, flushChan
<1>7. CASE DispatchFlush \/ FlushReceive
  BY <1>5, <1>7 DEF DispatchFlush, FlushReceive, InFlushLoop, OnTheWay
<1>8. CASE DispatchFull \/ DispatchScale \/ FlushDirectDone \/ FlushWaited
  <2>1. UNCHANGED << items, timer, flushing, shared >>
    BY <1>8 DEF DispatchFull, DispatchScale, FlushDirectDone, FlushWaited, flushChan
  <2>2. pc' \in OnTheWay \/ (pc' = "select" /\ ~flushing')
    BY <1>8, <2>1 DEF DispatchFull, DispatchScale, FlushDirectDone, FlushWaited, Continue, OnTheWay
  <2> QED
    BY <2>1, <2>2 DEF TimedInv, OnTheWay, items, shared
<1>9. CASE DispatchCancelled
  BY <1>9 DEF DispatchCancelled, TimedInv, shared
<1>10. CASE FlushTick \/ FlushStops
  <2>1. /\ pc' \in OnTheWay \/ (pc' = "select" /\ ~flushing')
        /\ UNCHANGED << items, timer, shared >>
    BY <1>10 DEF FlushTick, FlushStops, OnTheWay
  <2> QED
    BY <2>1 DEF TimedInv, OnTheWay, items, shared
<1>11. CASE Shutdown
  <2>1. pc \in {"drain", "repush", "repushLate", "await", "done"} /\ UNCHANGED shared
    BY <1>11 DEF Shutdown, DrainReceive, DrainClosed, ShutdownPush, ShutdownPushed, ShutdownWaited
  <2> QED
    BY <2>1 DEF TimedInv, shared
<1> QED
  BY <1>1, <1>2, <1>3, <1>4, <1>6, <1>7, <1>8, <1>9, <1>10, <1>11
     DEF Dispatcher, Run, Dispatch, Flush

LEMMA TimedInvHandler ==
  ASSUME ItemInv, TimedInv, NEW h \in Handler, HandlerReturns(h) \/ Requeueing(h)
  PROVE  TimedInv'
<1> USE FourPlaces DEF ItemInv, TypeOK
<1>1. h \in Place /\ h \notin {"popper", "buffer", "batch", "handled", "removed", "lost"}
  BY PlaceNames
<1>2. UNCHANGED << pc, timer, flushing, cancelled >>
  BY DEF Requeueing, HandlerReturns, Requeue, RequeueFails, ForcePush, HandleDone, flushChan, shared
<1>3. at'["buffer"] = at["buffer"]
  <2>1. CASE HandlerReturns(h)
    <3>1. PICK U \in SUBSET at[h] : Hand(at[h] \ U, h, "handled")
      BY <2>1 DEF HandlerReturns, Settle
    <3> QED
      BY <1>1, <3>1, HandPlaces
  <2>2. ASSUME NEW x \in Item, Return(x, h) \/ Hand({x}, h, "lost") PROVE at'["buffer"] = at["buffer"]
    BY <1>1, <2>2, ReturnPlaces, HandPlaces
  <2>3. CASE RequeueFails(h) \/ HandleDone(h)
    BY <2>3 DEF RequeueFails, HandleDone, items
  <2> QED
    BY <2>1, <2>2, <2>3 DEF Requeueing, Requeue, ForcePush, PushForShutdown
<1> QED
  BY <1>2, <1>3, TimedKept

LEMMA TimedInvNext == ItemInv /\ FlushInv /\ TimedInv /\ [Next]_vars => TimedInv'
<1> SUFFICES ASSUME ItemInv, FlushInv, TimedInv, [Next]_vars PROVE TimedInv'
  OBVIOUS
<1>1. CASE Callers \/ Popper
  BY <1>1, TimedInvCallers
<1>2. CASE Dispatcher
  BY <1>2, TimedInvDispatcher
<1>3. ASSUME NEW h \in Handler, HandlerReturns(h) \/ Requeueing(h) PROVE TimedInv'
  BY <1>3, TimedInvHandler
<1>4. ASSUME NEW w \in Worker, WorkerSelect(w) PROVE TimedInv'
  BY <1>4, TimedKept DEF WorkerSelect, WorkerStops, WorkerIdle, items, flushChan, shared
<1>5. CASE UNCHANGED vars
  BY <1>5, TimedKept DEF vars, items, flushChan, shared
<1> QED
  BY <1>1, <1>2, <1>3, <1>4, <1>5 DEF Next, Stopped

(* Who waits for the mutex of the base queue: the popper has its item and  *)
(* its channel is open, and RemoveAll, if it finds the queue empty, is     *)
(* starved by the popper.                                                  *)
PopInv ==
  /\ popWaits => at["popper"] # {} /\ ~popClosed
  /\ removal = "receiving" => base # << >> \/ popWaits

LEMMA PopInvInit == Init => PopInv
BY DEF Init, PopInv

LEMMA BaseGrows ==
  ASSUME NEW x, base \in Seq(Item), x \in Item, base' = Append(base, x)
  PROVE  base' # << >>
OBVIOUS

LEMMA PopKept ==
  ASSUME TypeOK, PopInv, UNCHANGED shared, base' = base \/ base' # << >>,
         popWaits => at'["popper"] = at["popper"]
  PROVE  PopInv'
BY DEF PopInv, shared, TypeOK

LEMMA PopInvCallers == TypeOK /\ PopInv /\ (Callers \/ Popper) => PopInv'
<1> SUFFICES ASSUME TypeOK, PopInv, Callers \/ Popper PROVE PopInv'
  OBVIOUS
<1>1. ASSUME NEW x \in Item, Push(x) PROVE PopInv'
  <2>1. base' # << >>
    BY <1>1, BaseGrows DEF Push, TypeOK
  <2> QED
    BY <1>1, <2>1, PopKept DEF Push
<1>2. CASE RemoveLock
  BY <1>2 DEF RemoveLock, PopInv, items
<1>3. CASE Removal
  BY <1>3, PlaceNames DEF Removal, RemoveNext, RemoveReceive, PopInv, items, TypeOK
<1>4. ASSUME NEW n \in 0..WorkerLimit, SetWorkerMaxNumber(n) PROVE PopInv'
  BY <1>4, PopKept DEF SetWorkerMaxNumber, items
<1>5. CASE FlushWithContext \/ FlushGivesUp
  BY <1>5, PopKept DEF FlushWithContext, FlushGivesUp, items
<1>6. CASE Cancel
  BY <1>6 DEF Cancel, PopInv, items
<1>7. CASE PopItem
  BY <1>7, PlaceNames DEF PopItem, PopInv, TypeOK
<1>8. CASE PopRemove
  BY <1>8 DEF PopRemove, PopInv, items
<1>9. CASE PopItemCancelled
  BY <1>9 DEF PopItemCancelled, PopInv, items
<1> QED
  BY <1>1, <1>2, <1>3, <1>4, <1>5, <1>6, <1>7, <1>8, <1>9 DEF Callers, Popper

(* What basePushForShutdown of an item does to the base queue and the      *)
(* popper.                                                                 *)
LEMMA PopPushed ==
  ASSUME TypeOK, NEW x \in Item, NEW p \in Place \ {"popper"}, NEW e,
         PushForShutdown(x, p, e)
  PROVE  (base' = base \/ base' # << >>) /\ at'["popper"] = at["popper"]
<1>1. CASE Return(x, p)
  BY <1>1, BaseGrows, PlaceNames DEF Return, TypeOK
<1>2. CASE Hand({x}, p, "lost") /\ UNCHANGED base
  BY <1>2, PlaceNames DEF Hand, TypeOK
<1> QED
  BY <1>1, <1>2 DEF PushForShutdown

LEMMA PopInvDispatcher == TypeOK /\ PopInv /\ Dispatcher => PopInv'
<1> SUFFICES ASSUME TypeOK, PopInv, Dispatcher PROVE PopInv'
  OBVIOUS
<1>1. CASE RunReceive \/ FlushReceive \/ DrainReceive
  BY <1>1, PopKept DEF RunReceive, FlushReceive, DrainReceive, PopperSends
<1>2. CASE RunTimer \/ RunFlush \/ DispatchCancelled
  BY <1>2, PopKept, PlaceNames DEF RunTimer, RunFlush, DispatchCancelled, TakeBuffer, ReturnBatch, Hand, TypeOK
<1>3. CASE RunStops
  BY <1>3 DEF RunStops, PopInv, items
<1>4. ASSUME NEW w \in Worker, DispatchOffer(w) \/ DispatchSend(w) PROVE PopInv'
  <2>1. /\ w \in Place /\ w # "popper"
        /\ Hand(at["batch"], "batch", w) /\ UNCHANGED base /\ UNCHANGED shared
    BY <1>4, PlaceNames DEF DispatchOffer, DispatchSend, StartHandling, Handler, Place
  <2>2. at'["popper"] = at["popper"]
    BY <2>1, PlaceNames DEF Hand, TypeOK
  <2> QED
    BY <2>1, <2>2, PopKept
<1>5. CASE DispatchFlush
  BY <1>5, PopKept, PlaceNames DEF DispatchFlush, StartHandling, Hand, TypeOK
<1>6. CASE DispatchFull \/ DispatchScale
  BY <1>6, PopKept DEF DispatchFull, DispatchScale, items
<1>7. CASE FlushDirectDone \/ FlushWaited \/ FlushTick \/ FlushStops
  BY <1>7, PopKept DEF FlushDirectDone, FlushWaited, FlushTick, FlushStops, items
<1>8. ASSUME NEW x \in Item, ShutdownPush(x) PROVE PopInv'
  BY <1>8, PopPushed, PopKept, PlaceNames DEF ShutdownPush
<1>9. CASE DrainClosed \/ ShutdownPushed \/ ShutdownWaited
  BY <1>9, PopKept DEF DrainClosed, ShutdownPushed, ShutdownWaited, items
<1> QED
  BY <1>1, <1>2, <1>3, <1>4, <1>5, <1>6, <1>7, <1>8, <1>9 DEF Dispatcher, Run, Dispatch, Flush, Shutdown

LEMMA PopInvHandler ==
  ASSUME TypeOK, PopInv, NEW h \in Handler, HandlerReturns(h) \/ Requeueing(h)
  PROVE  PopInv'
<1>1. CASE HandlerReturns(h)
  BY <1>1, PopKept, PlaceNames DEF HandlerReturns, Settle, Hand, TypeOK
<1>2. ASSUME NEW x \in Item, Requeue(h, x) PROVE PopInv'
  BY <1>2, PopKept, BaseGrows, PlaceNames DEF Requeue, Return, TypeOK
<1>3. ASSUME NEW x \in Item, ForcePush(h, x) PROVE PopInv'
  BY <1>3, PopPushed, PopKept, PlaceNames DEF ForcePush
<1>4. CASE RequeueFails(h) \/ HandleDone(h)
  BY <1>4, PopKept DEF RequeueFails, HandleDone, items
<1> QED
  BY <1>1, <1>2, <1>3, <1>4 DEF Requeueing

LEMMA PopInvNext == TypeOK /\ PopInv /\ [Next]_vars => PopInv'
<1> SUFFICES ASSUME TypeOK, PopInv, [Next]_vars PROVE PopInv'
  OBVIOUS
<1>1. CASE Callers \/ Popper
  BY <1>1, PopInvCallers
<1>2. CASE Dispatcher
  BY <1>2, PopInvDispatcher
<1>3. ASSUME NEW h \in Handler, HandlerReturns(h) \/ Requeueing(h) PROVE PopInv'
  BY <1>3, PopInvHandler
<1>4. ASSUME NEW w \in Worker, WorkerSelect(w) PROVE PopInv'
  BY <1>4, PopKept DEF WorkerSelect, WorkerStops, WorkerIdle, items
<1>5. CASE UNCHANGED vars
  BY <1>5, PopKept DEF vars, items
<1> QED
  BY <1>1, <1>2, <1>3, <1>4, <1>5 DEF Next, Stopped

(* Until the shutdown no item and no flush request is left with somebody   *)
(* who waits for another event: the timer runs for the buffer, handlers    *)
(* handle what they hold, a request is held only on the way to its end,    *)
(* and who waits for the mutex of the base queue waits for a RemoveAll     *)
(* that goes on unless the popper itself has starved it.                   *)
THEOREM NobodyStrands == Spec => []NothingStranded
<1>1. Spec => [](ItemInv /\ FlushInv)
  BY ItemsSafe, FlushInvInit, FlushInvNext, PTL DEF Spec
<1>2. Spec => []TimedInv
  BY <1>1, TimedInvInit, TimedInvNext, PTL DEF Spec
<1>3. Spec => [](ShutInv /\ PoolInv)
  BY ItemsSafe, PoolSafe, ShutInvInit, ShutInvNext, PTL DEF Spec
<1>5. Spec => []PopInv
  <2>1. ItemInv => TypeOK
    BY DEF ItemInv
  <2> QED
    BY <1>1, <2>1, PopInvInit, PopInvNext, PTL DEF Spec
<1>4. ItemInv /\ FlushInv /\ TimedInv /\ ShutInv /\ PoolInv /\ PopInv => NothingStranded
  <2> SUFFICES ASSUME ItemInv, FlushInv, TimedInv, ShutInv, PoolInv, PopInv, ~cancelled
               PROVE  /\ at["buffer"] # {} => pc = "select" /\ timer
                      /\ \A h \in Handler : at[h] # {} => Active(h)
                      /\ flushing => pc \in OnTheWay
                      /\ popWaits => at["popper"] # {} /\ ~popClosed
                      /\ removal = "receiving" => base # << >> \/ RemovalStarved
    BY DEF NothingStranded
  <2>1. at["buffer"] # {} => pc = "select" /\ timer
    BY DEF ItemInv, TypeOK, DispatcherPC, FlushInv, TimedInv
  <2>2. ASSUME NEW h \in Handler, at[h] # {} PROVE Active(h)
    <3>1. st[h] \notin {"off", "idle"}
      BY <2>2 DEF Handler, FlushInv, ShutInv, PoolInv, FlusherInFlush
    <3> QED
      BY <3>1 DEF ItemInv, TypeOK, Active
  <2>3. flushing => pc \in OnTheWay
    BY DEF TimedInv
  <2>4. /\ popWaits => at["popper"] # {} /\ ~popClosed
        /\ removal = "receiving" => base # << >> \/ RemovalStarved
    BY DEF PopInv, RemovalStarved
  <2> QED
    BY <2>1, <2>2, <2>3, <2>4
<1> QED
  BY <1>1, <1>2, <1>3, <1>4, <1>5, PTL
==============================================================================
