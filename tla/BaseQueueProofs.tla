--------------------------- MODULE BaseQueueProofs ---------------------------
(***************************************************************************)
(* Proofs about the unique base queues.  First RedisQueue, for every       *)
(* number of nodes, every length and any use of RemoveAll, with broken     *)
(* connections, cancelled contexts and crashes; then ChannelQueue, for     *)
(* every number of pushers, every length and all data.                     *)
(***************************************************************************)
EXTENDS RedisQueue, ChannelQueue, FiniteSetTheorems, TLAPS

(***************************************************************************)
(* The queue in redis.                                                     *)
(***************************************************************************)
LEMMA OpFields ==
  ASSUME NEW o \in Op
  PROVE  /\ o.step \in {"idle", "removing", "counted", "reserved", "popped"}
         /\ o.step \in {"counted", "reserved", "popped"} => o.item \in Item
         /\ o.step \in {"counted", "reserved"} =>
              /\ o.via \in Via
              /\ [step |-> "reserved", item |-> o.item, via |-> o.via] \in Op
BY DEF Op, Idle

(* The items of the list after RPUSH and LPOP.                             *)
LEMMA RPushList ==
  ASSUME list \in Seq(Item), NEW x \in Item, list' = Append(list, x)
  PROVE  /\ list' \in Seq(Item)
         /\ Len(list') = Len(list) + 1
         /\ Listed' = Listed \cup {x}
         /\ x \notin Listed /\ (\A i, j \in 1..Len(list) : list[i] = list[j] => i = j)
              => \A i, j \in 1..Len(list') : list'[i] = list'[j] => i = j
<1>1. /\ list' \in Seq(Item)
      /\ Len(list') = Len(list) + 1
      /\ list'[Len(list) + 1] = x
      /\ \A i \in 1..Len(list) : list'[i] = list[i]
  OBVIOUS
<1>2. Len(list) \in Nat
  OBVIOUS
<1>3. Listed' = Listed \cup {x}
  BY <1>1, <1>2 DEF Listed
<1>4. ASSUME x \notin Listed, \A i, j \in 1..Len(list) : list[i] = list[j] => i = j,
             NEW i \in 1..Len(list'), NEW j \in 1..Len(list'), list'[i] = list'[j]
      PROVE  i = j
  <2>1. \A k \in 1..Len(list) : list[k] # x
    BY <1>4 DEF Listed
  <2> QED
    BY <1>1, <1>2, <1>4, <2>1
<1> QED
  BY <1>1, <1>3, <1>4

LEMMA LPopList ==
  ASSUME list \in Seq(Item), list # << >>, list' = Tail(list)
  PROVE  /\ list' \in Seq(Item)
         /\ Len(list') = Len(list) - 1
         /\ Head(list) \in Item
         /\ Listed = Listed' \cup {Head(list)}
         /\ (\A i, j \in 1..Len(list) : list[i] = list[j] => i = j)
              => /\ Head(list) \notin Listed'
                 /\ \A i, j \in 1..Len(list') : list'[i] = list'[j] => i = j
<1>1. /\ list' \in Seq(Item)
      /\ Len(list') = Len(list) - 1
      /\ Len(list) \in Nat /\ Len(list) >= 1
      /\ Head(list) = list[1]
      /\ Head(list) \in Item
      /\ \A i \in 1..Len(list') : list'[i] = list[i + 1]
  OBVIOUS
<1>2. Listed = Listed' \cup {Head(list)}
  <2>1. ASSUME NEW y \in Listed PROVE y \in Listed' \cup {Head(list)}
    <3>1. PICK i \in 1..Len(list) : y = list[i]
      BY <2>1 DEF Listed
    <3>2. CASE i = 1
      BY <3>1, <3>2, <1>1
    <3>3. CASE i # 1
      <4>1. i - 1 \in 1..Len(list') /\ y = list'[i - 1]
        BY <3>1, <3>3, <1>1
      <4> QED
        BY <4>1 DEF Listed
    <3> QED
      BY <3>2, <3>3
  <2>2. ASSUME NEW y \in Listed' PROVE y \in Listed
    <3>1. PICK i \in 1..Len(list') : y = list'[i]
      BY <2>2 DEF Listed
    <3>2. i + 1 \in 1..Len(list) /\ y = list[i + 1]
      BY <3>1, <1>1
    <3> QED
      BY <3>2 DEF Listed
  <2>3. Head(list) \in Listed
    BY <1>1 DEF Listed
  <2> QED
    BY <2>1, <2>2, <2>3
<1>3. ASSUME \A i, j \in 1..Len(list) : list[i] = list[j] => i = j
      PROVE  /\ Head(list) \notin Listed'
             /\ \A i, j \in 1..Len(list') : list'[i] = list'[j] => i = j
  <2>1. \A i \in 1..Len(list') : i + 1 \in 1..Len(list) /\ list'[i] = list[i + 1]
    BY <1>1
  <2>2. Head(list) \notin Listed'
    <3> SUFFICES ASSUME NEW i \in 1..Len(list'), Head(list) = list'[i] PROVE FALSE
      BY DEF Listed
    <3> QED
      BY <1>1, <1>3, <2>1
  <2>3. ASSUME NEW i \in 1..Len(list'), NEW j \in 1..Len(list'), list'[i] = list'[j]
        PROVE  i = j
    <3>1. i + 1 = j + 1
      BY <1>3, <2>1, <2>3
    <3> QED
      BY <3>1, <1>1
  <2> QED
    BY <2>2, <2>3
<1> QED
  BY <1>1, <1>2, <1>3

(* The nodes that are pushing are a finite set.                            *)
LEMMA PushingFinite ==
  ASSUME op \in [Node -> Op]
  PROVE  /\ Cardinality(Node) \in Nat
         /\ IsFiniteSet(Pushing)
         /\ Cardinality(Pushing) \in Nat
         /\ Cardinality(Pushing) <= Cardinality(Node)
<1>1. Pushing \subseteq Node /\ IsFiniteSet(Node)
  BY ConstantsAssumption, LengthAssumption DEF Pushing
<1> QED
  BY <1>1, FS_Subset, FS_CardinalityType

LEMMA RedisInvInit == Init => RedisInv
<1> SUFFICES ASSUME Init PROVE RedisInv
  OBVIOUS
<1> USE DEF Init
<1>1. TypeOK
  BY ConstantsAssumption, LengthAssumption DEF TypeOK, Op
<1>2. StaleNeedsInterruption /\ OwedInSet /\ OwedSomewhere
  BY DEF StaleNeedsInterruption, OwedInSet, OwedSomewhere
<1>3. Len(list) = 0 /\ Listed = {}
  BY DEF Listed
<1>4. LengthBound
  <2>1. Pushing = {}
    BY DEF Pushing, Doing, Idle
  <2>2. Cardinality(Pushing) = 0
    BY <2>1, FS_EmptySet
  <2> QED
    BY <1>3, <2>2, PushingFinite, <1>1, ConstantsAssumption, LengthAssumption DEF LengthBound, TypeOK
<1>5. DistinctInv
  BY <1>3 DEF DistinctInv, Apart, Taken, Doing, Idle
<1> QED
  BY <1>1, <1>2, <1>4, <1>5 DEF RedisInv, OwedInv

-----------------------------------------------------------------------------
(* Types, one case for each action.                                        *)
LEMMA TypePush ==
  ASSUME TypeOK, NEW n \in Node, Push(n)
  PROVE  TypeOK'
<1> USE DEF TypeOK
<1>0. op[n] \in Op /\ Idle \in Op
  BY DEF Op
<1>1. ASSUME NEW x \in Item, NEW via \in Via, PushLen(n, x, via) PROVE TypeOK'
  <2>1. [step |-> "counted", item |-> x, via |-> via] \in Op
    BY DEF Op
  <2>2. pushes' \in 0..MaxPush
    BY <1>1, ConstantsAssumption DEF PushLen, MayPush, Via
  <2> QED
    BY <1>1, <2>1, <2>2 DEF PushLen, redis, popped
<1>2. ASSUME NEW x \in Item, NEW via \in Via, PushTimesOut(n, x, via) \/ PushLenFails(n, x, via)
      PROVE  TypeOK'
  BY <1>2 DEF PushTimesOut, PushLenFails, Leaves, redis, bounds
<1>3. ASSUME NEW ok \in BOOLEAN, EndPush(n, ok)
      PROVE  /\ op' \in [Node -> Op]
             /\ fly' \in [Node -> SUBSET Item]
             /\ back' \in [Node -> SUBSET Item]
  BY <1>0, <1>3 DEF EndPush, Leaves
<1>4. CASE PushSAdd(n)
  <2>1. op[n].item \in Item
    BY <1>0, <1>4, OpFields DEF PushSAdd, Doing
  <2>2. [step |-> "reserved", item |-> op[n].item, via |-> op[n].via] \in Op
    BY <1>0, <1>4, OpFields DEF PushSAdd, Doing
  <2> QED
    BY <1>3, <1>4, <2>1, <2>2 DEF PushSAdd, history, bounds
<1>5. CASE PushSAddFails(n)
  <2>1. op[n].item \in Item
    BY <1>0, <1>5, OpFields DEF PushSAddFails, Doing
  <2> QED
    BY <1>3, <1>5, <2>1 DEF PushSAddFails, Spoil, bounds
<1>6. CASE PushRPush(n)
  <2>1. op[n].item \in Item
    BY <1>0, <1>6, OpFields DEF PushRPush, Doing
  <2> QED
    BY <1>3, <1>6, <2>1, RPushList DEF PushRPush, bounds
<1>7. CASE PushRPushFails(n)
  <2>1. op[n].item \in Item
    BY <1>0, <1>7, OpFields DEF PushRPushFails, Doing
  <2> QED
    BY <1>3, <1>7, <2>1, RPushList DEF PushRPushFails, Spoil, bounds
<1> QED
  BY <1>1, <1>2, <1>4, <1>5, <1>6, <1>7 DEF Push

LEMMA TypePop ==
  ASSUME TypeOK, NEW n \in Node, Pop(n)
  PROVE  TypeOK'
<1> USE DEF TypeOK
<1>0. op[n] \in Op /\ Idle \in Op
  BY DEF Op
<1>1. CASE PopLPop(n)
  <2>1. [step |-> "popped", item |-> Head(list)] \in Op
    BY <1>1, LPopList DEF PopLPop, TakeFirst, Op
  <2> QED
    BY <1>1, <2>1, LPopList DEF PopLPop, TakeFirst, popped, history, bounds
<1>2. CASE PopLPopFails(n)
  BY <1>2, LPopList DEF PopLPopFails, Spoil, popped, bounds
<1>3. ASSUME Doing(n, {"popped"}), Deliver(n)
      PROVE  op[n].item \in Item /\ op' \in [Node -> Op] /\ fly' \in [Node -> SUBSET Item]
  <2>1. op[n].item \in Item
    BY <1>0, <1>3, OpFields DEF Doing
  <2> QED
    BY <1>0, <1>3, <2>1 DEF Deliver
<1>4. CASE PopSRem(n)
  BY <1>3, <1>4 DEF PopSRem, Deliver, history, bounds
<1>5. CASE PopSRemFails(n)
  BY <1>3, <1>5 DEF PopSRemFails, Deliver, Spoil, bounds
<1> QED
  BY <1>1, <1>2, <1>4, <1>5 DEF Pop

LEMMA TypeRemoveAll ==
  ASSUME TypeOK, NEW n \in Node, RemoveAll(n)
  PROVE  TypeOK'
<1> USE DEF TypeOK
<1>0. Idle \in Op /\ [step |-> "removing"] \in Op
  BY DEF Op
<1>1. ASSUME NEW key \in {"list", "set"}, Del(key) \/ UNCHANGED << redis, owed >>
      PROVE  list' \in Seq(Item) /\ set' \subseteq Item /\ owed' \subseteq Item
  <2>1. CASE key = "list" /\ list' = << >> /\ owed' = owed \ Listed /\ UNCHANGED set
    BY <2>1
  <2>2. CASE key = "set" /\ set' = {} /\ UNCHANGED << list, owed >>
    BY <2>2
  <2>3. CASE UNCHANGED << redis, owed >>
    BY <2>3 DEF redis
  <2> QED
    BY <1>1, <2>1, <2>2, <2>3 DEF Del
<1>2. CASE RemoveAllFirst(n)
  BY <1>0, <1>1, <1>2, ConstantsAssumption, LengthAssumption DEF RemoveAllFirst, RemovalOrder, popped
<1>3. CASE RemoveAllSecond(n)
  BY <1>0, <1>1, <1>3 DEF RemoveAllSecond, RemovalOrder, Spoil, popped, bounds
<1> QED
  BY <1>2, <1>3 DEF RemoveAll

LEMMA TypeProcess ==
  ASSUME TypeOK, NEW n \in Node, Process(n)
  PROVE  TypeOK'
<1> USE DEF TypeOK
<1>1. ASSUME NEW x \in Item, Dispatch(n, x) \/ Handled(n, x) \/ GivenBack(n, x) PROVE TypeOK'
  BY <1>1 DEF Dispatch, Handled, GivenBack, redis, history, bounds
<1>2. CASE Shutdown(n) \/ Drain(n)
  BY <1>2 DEF Shutdown, Drain, redis, popped, history, bounds
<1>3. CASE Restart(n) \/ Crash(n)
  <2>1. op[n] \in Op /\ Idle \in Op
    BY DEF Op
  <2>2. Touched(n) \subseteq Item
    <3>1. CASE Doing(n, {"removing"})
      BY <3>1 DEF Touched
    <3>2. CASE op[n] = Idle
      BY <3>2 DEF Touched, Doing, Idle
    <3>3. CASE ~Doing(n, {"removing"}) /\ op[n] # Idle
      <4>1. op[n].step # "idle" /\ op[n].step # "removing"
        BY <2>1, <3>3 DEF Op, Doing, Idle
      <4> QED
        BY <2>1, <3>3, <4>1, OpFields DEF Touched
    <3> QED
      BY <3>1, <3>2, <3>3
  <2> QED
    BY <1>3, <2>1, <2>2, ConstantsAssumption DEF Restart, Crash, End, Spoil, redis
<1> QED
  BY <1>1, <1>2, <1>3 DEF Process

LEMMA TypeNext == TypeOK /\ [Next]_vars => TypeOK'
<1> SUFFICES ASSUME TypeOK, [Next]_vars PROVE TypeOK'
  OBVIOUS
<1>1. CASE UNCHANGED vars
  BY <1>1 DEF TypeOK, vars, redis, popped, history, bounds
<1> QED
  BY <1>1, TypePush, TypePop, TypeRemoveAll, TypeProcess DEF Next, Step

(* Every variable keeps its type: no operation invents an item.            *)
THEOREM TypeCorrect == Spec => []TypeOK
<1>1. Init => TypeOK
  BY RedisInvInit DEF RedisInv
<1> QED
  BY <1>1, TypeNext, PTL DEF Spec

-----------------------------------------------------------------------------
(* A step of one node leaves the others as they are.                       *)
LEMMA Others ==
  ASSUME TypeOK, NEW n \in Node, Step(n), NEW m \in Node, m # n
  PROVE  /\ op'[m] = op[m]
         /\ fly'[m] = fly[m] /\ hand'[m] = hand[m] /\ back'[m] = back[m]
<1> USE DEF TypeOK, popped
<1>1. CASE Push(n)
  BY <1>1 DEF Push, PushLen, PushTimesOut, PushLenFails, PushSAdd, PushSAddFails,
                PushRPush, PushRPushFails, EndPush, Leaves
<1>2. CASE Pop(n)
  BY <1>2 DEF Pop, PopLPop, TakeFirst, PopLPopFails, PopSRem, PopSRemFails, Deliver
<1>3. CASE RemoveAll(n)
  BY <1>3 DEF RemoveAll, RemoveAllFirst, RemoveAllSecond
<1>4. CASE Process(n)
  BY <1>4 DEF Process, Dispatch, Handled, GivenBack, Shutdown, Drain, Restart, Crash, End
<1> QED
  BY <1>1, <1>2, <1>3, <1>4 DEF Step

(* What is in the set or owed stays accounted for.                         *)
LEMMA OwedPush ==
  ASSUME TypeOK, OwedInv, NEW n \in Node, Push(n)
  PROVE  OwedInv'
<1> USE DEF TypeOK, OwedInv
<1>0. \A m \in Node \ {n} : /\ op'[m] = op[m] /\ fly'[m] = fly[m]
                          /\ hand'[m] = hand[m] /\ back'[m] = back[m]
  BY Others DEF Step
<1>1. ASSUME NEW x \in Item, NEW via \in Via, PushLen(n, x, via) PROVE OwedInv'
  <2>1. /\ set' = set /\ Listed' = Listed /\ spoiled' = spoiled /\ owed' = owed
        /\ fly' = fly /\ hand' = hand /\ back' = back
        /\ op[n].step = "idle" /\ op'[n].step = "counted"
    BY <1>1 DEF PushLen, Listed, redis, popped, Idle
  <2>2. StaleNeedsInterruption'
    BY <1>0, <2>1 DEF StaleNeedsInterruption, InFlight, Doing
  <2>3. OwedInSet'
    BY <1>0, <2>1 DEF OwedInSet, Taken, Doing
  <2>4. OwedSomewhere'
    BY <1>0, <2>1 DEF OwedSomewhere, Held, Taken, Doing
  <2> QED
    BY <2>2, <2>3, <2>4
<1>2. ASSUME NEW x \in Item, NEW via \in Via, PushTimesOut(n, x, via) \/ PushLenFails(n, x, via)
      PROVE  OwedInv'
  <2>1. /\ set' = set /\ Listed' = Listed /\ spoiled' = spoiled /\ owed' = owed \ {x}
        /\ hand' = hand /\ op' = op
        /\ back[n] \subseteq back'[n] \cup {x} /\ fly[n] \subseteq fly'[n] \cup {x}
    BY <1>2 DEF PushTimesOut, PushLenFails, Leaves, Listed, redis
  <2>2. StaleNeedsInterruption'
    BY <2>1 DEF StaleNeedsInterruption, InFlight, Doing
  <2>3. OwedInSet'
    BY <2>1 DEF OwedInSet, Taken, Doing
  <2>4. OwedSomewhere'
    BY <1>0, <2>1 DEF OwedSomewhere, Held, Taken, Doing
  <2> QED
    BY <2>2, <2>3, <2>4
<1>3. ASSUME NEW ok \in BOOLEAN, EndPush(n, ok)
      PROVE  /\ op'[n].step = "idle"
             /\ back[n] \subseteq back'[n] \cup {op[n].item}
             /\ fly[n] \subseteq fly'[n] \cup {op[n].item}
  BY <1>3 DEF EndPush, Leaves, Idle
<1>4. CASE PushSAdd(n)
  <2>1. /\ Listed' = Listed /\ spoiled' = spoiled /\ owed' = owed /\ hand' = hand
        /\ op[n].step = "counted"
    BY <1>4 DEF PushSAdd, Listed, history, Doing
  <2>2. CASE IsNew(op[n].item)
    <3>1. /\ op'[n].step = "reserved" /\ op'[n].item = op[n].item
          /\ set' = set \cup {op[n].item}
          /\ back' = back /\ fly' = fly
      BY <1>4, <2>2 DEF PushSAdd
    <3>2. StaleNeedsInterruption'
      BY <1>0, <2>1, <2>2, <3>1 DEF StaleNeedsInterruption, InFlight, Doing
    <3>3. OwedInSet'
      BY <1>0, <2>1, <2>2, <3>1 DEF OwedInSet, Taken, Doing
    <3>4. OwedSomewhere'
      BY <1>0, <2>1, <2>2, <3>1 DEF OwedSomewhere, Held, Taken, Doing
    <3> QED
      BY <3>2, <3>3, <3>4
  <2>3. CASE ~IsNew(op[n].item)
    <3>1. /\ op'[n].step = "idle" /\ set' = set
          /\ back[n] \subseteq back'[n] \cup {op[n].item}
          /\ fly[n] \subseteq fly'[n] \cup {op[n].item}
          /\ op[n].item \in set
      BY <1>3, <1>4, <2>3 DEF PushSAdd, IsNew
    <3>2. StaleNeedsInterruption'
      BY <1>0, <2>1, <2>3, <3>1 DEF StaleNeedsInterruption, InFlight, Doing
    <3>3. OwedInSet'
      BY <1>0, <2>1, <2>3, <3>1 DEF OwedInSet, Taken, Doing
    <3>4. OwedSomewhere'
      <4> SUFFICES ASSUME NEW x \in owed',
                          x \notin Listed' \cup spoiled'
                   PROVE  \E m \in Node : Held(m, x)' \/ Taken(m, x)'
        BY DEF OwedSomewhere
      <4>1. PICK m \in Node : Held(m, x) \/ Taken(m, x)
        BY <2>1 DEF OwedSomewhere
      <4>2. CASE m # n
        BY <1>0, <4>1, <4>2 DEF Held, Taken, Doing
      <4>3. CASE m = n /\ x # op[n].item
        BY <2>1, <3>1, <4>1, <4>3 DEF Held, Taken, Doing
      <4>4. CASE x = op[n].item
        <5>1. PICK k \in Node : Taken(k, x)
          BY <2>1, <3>1, <4>4 DEF OwedInSet
        <5>2. k # n
          BY <5>1, <2>1 DEF Taken, Doing
        <5> QED
          BY <1>0, <5>1, <5>2 DEF Taken, Doing
      <4> QED
        BY <4>2, <4>3, <4>4
    <3> QED
      BY <3>2, <3>3, <3>4
  <2> QED
    BY <2>2, <2>3
<1>5. CASE PushSAddFails(n)
  <2>1. /\ Listed' = Listed /\ spoiled' = spoiled \cup {op[n].item} /\ owed' = owed
        /\ hand' = hand /\ op[n].step = "counted"
        /\ set' \subseteq set \cup {op[n].item}
        /\ op'[n].step = "idle" /\ back[n] \subseteq back'[n] \cup {op[n].item}
        /\ fly[n] \subseteq fly'[n] \cup {op[n].item}
    BY <1>3, <1>5 DEF PushSAddFails, Spoil, Listed, Doing
  <2>2. StaleNeedsInterruption'
    BY <1>0, <2>1 DEF StaleNeedsInterruption, InFlight, Doing
  <2>3. OwedInSet'
    BY <1>0, <2>1 DEF OwedInSet, Taken, Doing
  <2>4. OwedSomewhere'
    BY <1>0, <2>1 DEF OwedSomewhere, Held, Taken, Doing
  <2> QED
    BY <2>2, <2>3, <2>4
<1>6. CASE PushRPush(n)
  <2>1. /\ Listed' = Listed \cup {op[n].item} /\ spoiled' = spoiled
        /\ owed' = owed \cup {op[n].item}
        /\ hand' = hand /\ op[n].step = "reserved"
        /\ set' = set
        /\ op'[n].step = "idle" /\ back[n] \subseteq back'[n] \cup {op[n].item}
        /\ fly[n] \subseteq fly'[n] \cup {op[n].item}
    BY <1>3, <1>6, OpFields, RPushList DEF PushRPush, Doing
  <2>2. StaleNeedsInterruption'
    BY <1>0, <2>1 DEF StaleNeedsInterruption, InFlight, Doing
  <2>3. OwedInSet'
    BY <1>0, <2>1 DEF OwedInSet, Taken, Doing
  <2>4. OwedSomewhere'
    BY <1>0, <2>1 DEF OwedSomewhere, Held, Taken, Doing
  <2> QED
    BY <2>2, <2>3, <2>4
<1>7. CASE PushRPushFails(n)
  <2>1. Listed \subseteq Listed'
    BY <1>7, OpFields, RPushList DEF PushRPushFails, Doing, Listed
  <2>2. /\ spoiled' = spoiled \cup {op[n].item} /\ owed' = owed
        /\ hand' = hand /\ op[n].step = "reserved"
        /\ set' = set
        /\ op'[n].step = "idle" /\ back[n] \subseteq back'[n] \cup {op[n].item}
        /\ fly[n] \subseteq fly'[n] \cup {op[n].item}
    BY <1>3, <1>7 DEF PushRPushFails, Spoil, Doing
  <2>3. StaleNeedsInterruption'
    BY <1>0, <2>1, <2>2 DEF StaleNeedsInterruption, InFlight, Doing
  <2>4. OwedInSet'
    BY <1>0, <2>1, <2>2 DEF OwedInSet, Taken, Doing
  <2>5. OwedSomewhere'
    BY <1>0, <2>1, <2>2 DEF OwedSomewhere, Held, Taken, Doing
  <2> QED
    BY <2>3, <2>4, <2>5
<1> QED
  BY <1>1, <1>2, <1>4, <1>5, <1>6, <1>7 DEF Push

LEMMA OwedPop ==
  ASSUME TypeOK, OwedInv, NEW n \in Node, Pop(n)
  PROVE  OwedInv'
<1> USE DEF TypeOK, OwedInv
<1>0. \A m \in Node \ {n} : /\ op'[m] = op[m] /\ fly'[m] = fly[m]
                          /\ hand'[m] = hand[m] /\ back'[m] = back[m]
  BY Others DEF Step
<1>1. CASE PopLPop(n)
  <2>1. /\ Listed = Listed' \cup {Head(list)} /\ spoiled' = spoiled /\ owed' = owed
        /\ fly' = fly /\ hand' = hand /\ back' = back /\ set' = set
        /\ op[n].step = "idle"
        /\ op'[n].step = "popped" /\ op'[n].item = Head(list)
    BY <1>1, LPopList DEF PopLPop, TakeFirst, popped, history, Idle
  <2>2. StaleNeedsInterruption'
    BY <1>0, <2>1 DEF StaleNeedsInterruption, InFlight, Doing
  <2>3. OwedInSet'
    BY <1>0, <2>1 DEF OwedInSet, Taken, Doing
  <2>4. OwedSomewhere'
    BY <1>0, <2>1 DEF OwedSomewhere, Held, Taken, Doing
  <2> QED
    BY <2>2, <2>3, <2>4
<1>2. CASE PopLPopFails(n)
  <2>1. /\ Listed = Listed' \cup {Head(list)} /\ spoiled' = spoiled \cup {Head(list)}
        /\ owed' = owed /\ fly' = fly /\ hand' = hand /\ back' = back
        /\ set' = set /\ op' = op
    BY <1>2, LPopList DEF PopLPopFails, Spoil, popped
  <2>2. StaleNeedsInterruption'
    BY <2>1 DEF StaleNeedsInterruption, InFlight, Doing
  <2>3. OwedInSet'
    BY <2>1 DEF OwedInSet, Taken, Doing
  <2>4. OwedSomewhere'
    BY <2>1 DEF OwedSomewhere, Held, Taken, Doing
  <2> QED
    BY <2>2, <2>3, <2>4
<1>3. CASE PopSRem(n)
  <2>1. /\ Listed' = Listed /\ spoiled' = spoiled
        /\ owed' = owed /\ back' = back /\ set' = set \ {op[n].item}
        /\ op[n].step = "popped" /\ op'[n].step = "idle"
        /\ fly'[n] = fly[n] \cup {op[n].item} /\ hand' = hand
    BY <1>3 DEF PopSRem, Deliver, Listed, Doing, Idle, history
  <2>2. StaleNeedsInterruption'
    BY <1>0, <2>1 DEF StaleNeedsInterruption, InFlight, Doing
  <2>3. OwedInSet'
    BY <1>0, <2>1 DEF OwedInSet, Taken, Doing
  <2>4. OwedSomewhere'
    BY <1>0, <2>1 DEF OwedSomewhere, Held, Taken, Doing
  <2> QED
    BY <2>2, <2>3, <2>4
<1>4. CASE PopSRemFails(n)
  <2>1. /\ Listed' = Listed /\ spoiled' = spoiled \cup {op[n].item}
        /\ owed' = owed /\ back' = back /\ set' \subseteq set
        /\ op[n].step = "popped" /\ op'[n].step = "idle"
        /\ fly'[n] = fly[n] \cup {op[n].item} /\ hand' = hand
    BY <1>4 DEF PopSRemFails, Deliver, Spoil, Listed, Doing, Idle
  <2>2. StaleNeedsInterruption'
    BY <1>0, <2>1 DEF StaleNeedsInterruption, InFlight, Doing
  <2>3. OwedInSet'
    BY <1>0, <2>1 DEF OwedInSet, Taken, Doing
  <2>4. OwedSomewhere'
    BY <1>0, <2>1 DEF OwedSomewhere, Held, Taken, Doing
  <2> QED
    BY <2>2, <2>3, <2>4
<1> QED
  BY <1>1, <1>2, <1>3, <1>4 DEF Pop

(* The list goes first: what leaves it is owed no more; the entries it     *)
(* leaves in the set are the concern of the node that is removing.         *)
LEMMA OwedRemoveAll ==
  ASSUME TypeOK, OwedInv, NEW n \in Node, RemoveAll(n)
  PROVE  OwedInv'
<1> USE DEF TypeOK, OwedInv
<1>0. \A m \in Node \ {n} : /\ op'[m] = op[m] /\ fly'[m] = fly[m]
                          /\ hand'[m] = hand[m] /\ back'[m] = back[m]
  BY Others DEF Step
<1>1. CASE RemoveAllFirst(n)
  <2>1. /\ spoiled' = spoiled /\ fly' = fly /\ hand' = hand /\ back' = back /\ set' = set
        /\ op[n].step = "idle" /\ op'[n].step = "removing"
        /\ owed' \subseteq owed /\ owed' \cap Listed \subseteq Listed'
    BY <1>1 DEF RemoveAllFirst, RemovalOrder, Del, redis, popped, Idle, Listed
  <2>2. StaleNeedsInterruption'
    BY <1>0, <2>1 DEF StaleNeedsInterruption, InFlight, Doing
  <2>3. OwedInSet'
    BY <1>0, <2>1 DEF OwedInSet, Taken, Doing
  <2>4. OwedSomewhere'
    BY <1>0, <2>1 DEF OwedSomewhere, Held, Taken, Doing
  <2> QED
    BY <2>2, <2>3, <2>4
<1>2. CASE RemoveAllSecond(n)
  <2>1. /\ Listed' = Listed /\ owed' = owed
        /\ fly' = fly /\ hand' = hand /\ back' = back
        /\ op[n].step = "removing" /\ op'[n].step = "idle"
        /\ spoiled \subseteq spoiled'
        /\ set' = {} \/ (set' = set /\ set \subseteq spoiled')
    BY <1>2 DEF RemoveAllSecond, RemovalOrder, Del, Spoil, redis, popped, Idle, Listed, Doing
  <2>2. StaleNeedsInterruption'
    BY <2>1 DEF StaleNeedsInterruption
  <2>3. OwedInSet'
    BY <2>1 DEF OwedInSet
  <2>4. OwedSomewhere'
    BY <1>0, <2>1 DEF OwedSomewhere, Held, Taken, Doing
  <2> QED
    BY <2>2, <2>3, <2>4
<1> QED
  BY <1>1, <1>2 DEF RemoveAll

LEMMA OwedProcess ==
  ASSUME TypeOK, OwedInv, NEW n \in Node, Process(n)
  PROVE  OwedInv'
<1> USE DEF TypeOK, OwedInv
<1>0. \A m \in Node \ {n} : /\ op'[m] = op[m] /\ fly'[m] = fly[m]
                          /\ hand'[m] = hand[m] /\ back'[m] = back[m]
  BY Others DEF Step
<1>1. ASSUME NEW x \in Item, Handled(n, x) PROVE OwedInv'
  <2>1. /\ Listed' = Listed /\ owed' = owed \ {x} /\ fly' = fly /\ back' = back /\ op' = op
        /\ spoiled' = spoiled /\ set' = set /\ hand'[n] = hand[n] \ {x}
    BY <1>1 DEF Handled, redis, Listed
  <2>2. StaleNeedsInterruption' /\ OwedInSet'
    BY <2>1 DEF StaleNeedsInterruption, InFlight, OwedInSet, Taken, Doing
  <2>3. OwedSomewhere'
    BY <1>0, <2>1 DEF OwedSomewhere, Held, Taken, Doing
  <2> QED
    BY <2>2, <2>3
<1>2. ASSUME NEW x \in Item, Dispatch(n, x) \/ GivenBack(n, x) PROVE OwedInv'
  <2>1. /\ Listed' = Listed /\ owed' = owed /\ op' = op
        /\ spoiled' = spoiled /\ set' = set
        /\ fly[n] \cup hand[n] \cup back[n] \subseteq fly'[n] \cup hand'[n] \cup back'[n]
    BY <1>2 DEF Dispatch, GivenBack, redis, history, Listed
  <2>2. StaleNeedsInterruption' /\ OwedInSet'
    BY <2>1 DEF StaleNeedsInterruption, InFlight, OwedInSet, Taken, Doing
  <2>3. OwedSomewhere'
    BY <1>0, <2>1 DEF OwedSomewhere, Held, Taken, Doing
  <2> QED
    BY <2>2, <2>3
<1>3. CASE Shutdown(n) \/ Drain(n)
  <2>1. /\ Listed' = Listed /\ owed' = owed /\ op' = op
        /\ spoiled' = spoiled /\ set' = set
        /\ fly' = fly /\ hand' = hand /\ back' = back
    BY <1>3 DEF Shutdown, Drain, redis, popped, history, Listed
  <2>2. StaleNeedsInterruption' /\ OwedInSet'
    BY <2>1 DEF StaleNeedsInterruption, InFlight, OwedInSet, Taken, Doing
  <2>3. OwedSomewhere'
    BY <2>1 DEF OwedSomewhere, Held, Taken, Doing
  <2> QED
    BY <2>2, <2>3
<1>4. CASE Restart(n) \/ Crash(n)
  <2>1. /\ Listed' = Listed /\ set' = set /\ op'[n].step = "idle"
        /\ owed' = owed \ (fly[n] \cup hand[n] \cup back[n])
        /\ spoiled' = spoiled \cup Touched(n)
    BY <1>4 DEF Restart, Drained, Crash, End, Spoil, redis, Listed, Idle
  <2>2. \A x \in set : InFlight(n, x) => x \in Touched(n)
    BY DEF InFlight, Touched, Doing, Idle
  <2>3. \A x \in Item : Taken(n, x) => x \in Touched(n)
    BY DEF Taken, Touched, Doing, Idle
  <2>4. \A x \in Item : Held(n, x) => x \in fly[n] \cup hand[n] \cup back[n] \cup Touched(n)
    BY DEF Held, Touched, Doing, Idle
  <2>5. StaleNeedsInterruption'
    BY <1>0, <2>1, <2>2 DEF StaleNeedsInterruption, InFlight, Doing
  <2>6. OwedInSet'
    <3>1. \A m \in Node \ {n}, x \in Item : Taken(m, x)' <=> Taken(m, x)
      BY <1>0 DEF Taken, Doing
    <3> QED
      BY <3>1, <2>1, <2>3 DEF OwedInSet
  <2>7. OwedSomewhere'
    <3>1. \A m \in Node \ {n}, x \in Item : Taken(m, x)' <=> Taken(m, x)
      BY <1>0 DEF Taken, Doing
    <3>2. \A m \in Node \ {n}, x \in Item : Held(m, x)' <=> Held(m, x)
      BY <1>0 DEF Held, Doing
    <3> QED
      BY <3>1, <3>2, <2>1, <2>3, <2>4 DEF OwedSomewhere
  <2> QED
    BY <2>5, <2>6, <2>7
<1> QED
  BY <1>1, <1>2, <1>3, <1>4 DEF Process

LEMMA OwedNext == TypeOK /\ OwedInv /\ [Next]_vars => OwedInv'
<1> SUFFICES ASSUME TypeOK, OwedInv, [Next]_vars PROVE OwedInv'
  OBVIOUS
<1>1. CASE UNCHANGED vars
  <2>1. Listed' = Listed
    BY <1>1 DEF vars, redis, Listed
  <2> QED
    BY <1>1, <2>1 DEF vars, redis, popped, history, OwedInv, StaleNeedsInterruption, OwedInSet,
                     OwedSomewhere, InFlight, Held, Taken, Doing
<1> QED
  BY <1>1, OwedPush, OwedPop, OwedRemoveAll, OwedProcess DEF Next, Step

-----------------------------------------------------------------------------
(* The list outgrows its length only by pushes that have counted it: a     *)
(* push that counts finds room, and each node has one.                     *)
LEMMA LengthKept ==
  ASSUME TypeOK, TypeOK', LengthBound, Len(list') <= Len(list), Pushing' \subseteq Pushing
  PROVE  LengthBound'
<1>1. /\ IsFiniteSet(Pushing)
      /\ Cardinality(Pushing) \in Nat /\ Cardinality(Pushing') \in Nat
      /\ Cardinality(Node) \in Nat
  BY PushingFinite, FS_Subset, FS_CardinalityType DEF TypeOK
<1>2. Cardinality(Pushing') <= Cardinality(Pushing)
  BY <1>1, FS_Subset
<1>3. Len(list) \in Nat /\ Len(list') \in Nat /\ Length \in Nat
  BY ConstantsAssumption, LengthAssumption DEF TypeOK
<1> QED
  BY <1>1, <1>2, <1>3 DEF LengthBound

LEMMA LengthPush ==
  ASSUME TypeOK, TypeOK', LengthBound, NEW n \in Node, Push(n)
  PROVE  LengthBound'
<1> USE DEF TypeOK
<1>0. \A m \in Node \ {n} : op'[m] = op[m]
  BY Others DEF Step
<1>1. /\ Cardinality(Node) \in Nat
      /\ IsFiniteSet(Pushing) /\ Cardinality(Pushing) \in Nat
      /\ IsFiniteSet(Pushing') /\ Cardinality(Pushing') \in Nat
      /\ Cardinality(Pushing') <= Cardinality(Node)
  <2>1. Pushing' \subseteq Node /\ Pushing \subseteq Node
    BY DEF Pushing
  <2> QED
    BY <2>1, ConstantsAssumption, LengthAssumption, FS_Subset, FS_CardinalityType
<1>2. Len(list) \in Nat /\ Len(list') \in Nat /\ Length \in Nat
  BY ConstantsAssumption, LengthAssumption
<1>3. ASSUME NEW x \in Item, NEW via \in Via, PushLen(n, x, via) PROVE LengthBound'
  <2>1. Len(list') < Length
    BY <1>3 DEF PushLen, HasRoom, redis
  <2> QED
    BY <1>1, <1>2, <2>1 DEF LengthBound
<1>4. CASE PushRPush(n) \/ PushRPushFails(n)
  <2>1. n \in Pushing /\ Pushing' = Pushing \ {n}
    BY <1>0, <1>4 DEF Pushing, PushRPush, PushRPushFails, EndPush, Leaves, Doing, Idle
  <2>2. Cardinality(Pushing') = Cardinality(Pushing) - 1
    BY <1>1, <2>1, FS_RemoveElement
  <2>3. Len(list') <= Len(list) + 1
    <3>1. CASE list' = list
      BY <1>2, <3>1
    <3>2. CASE list' = Append(list, op[n].item)
      BY <1>4, <3>2, OpFields, RPushList DEF PushRPush, PushRPushFails, Doing
    <3> QED
      BY <1>4, <3>1, <3>2 DEF PushRPush, PushRPushFails
  <2> QED
    BY <1>1, <1>2, <2>2, <2>3 DEF LengthBound
<1>5. ASSUME list' = list, n \in Pushing \/ op'[n] = op[n] PROVE LengthBound'
  <2>1. Pushing' \subseteq Pushing
    BY <1>0, <1>5 DEF Pushing, Doing
  <2>2. Len(list') <= Len(list)
    BY <1>2, <1>5
  <2> QED
    BY <2>1, <2>2, LengthKept
<1>6. CASE PushSAdd(n) \/ PushSAddFails(n)
  BY <1>5, <1>6 DEF PushSAdd, PushSAddFails, Pushing, Doing
<1>7. ASSUME NEW x \in Item, NEW via \in Via, PushTimesOut(n, x, via) \/ PushLenFails(n, x, via)
      PROVE  LengthBound'
  BY <1>5, <1>7 DEF PushTimesOut, PushLenFails, redis
<1> QED
  BY <1>3, <1>4, <1>6, <1>7 DEF Push

LEMMA LengthOthers ==
  ASSUME TypeOK, TypeOK', LengthBound, NEW n \in Node, Pop(n) \/ RemoveAll(n) \/ Process(n)
  PROVE  LengthBound'
<1> USE DEF TypeOK
<1>0. \A m \in Node \ {n} : op'[m] = op[m]
  BY Others DEF Step
<1>1. op'[n] = op[n] \/ op'[n].step \in {"popped", "idle", "removing"}
  <2>1. CASE Pop(n)
    BY <2>1 DEF Pop, PopLPop, TakeFirst, PopLPopFails, PopSRem, PopSRemFails, Deliver, Idle
  <2>2. CASE RemoveAll(n)
    BY <2>2 DEF RemoveAll, RemoveAllFirst, RemoveAllSecond, Idle
  <2>3. CASE Process(n)
    BY <2>3 DEF Process, Dispatch, Handled, GivenBack, Shutdown, Drain, Restart, Crash, End, Idle
  <2> QED
    BY <2>1, <2>2, <2>3
<1>2. Pushing' \subseteq Pushing
  BY <1>0, <1>1 DEF Pushing, Doing
<1>3. Len(list') <= Len(list)
  <2>1. CASE list' = list
    BY <2>1
  <2>2. CASE list' = << >>
    BY <2>2
  <2>3. CASE list # << >> /\ list' = Tail(list)
    BY <2>3, LPopList
  <2>4. CASE Pop(n)
    BY <2>1, <2>3, <2>4 DEF Pop, PopLPop, TakeFirst, PopLPopFails, PopSRem, PopSRemFails
  <2>5. CASE RemoveAll(n)
    BY <2>1, <2>2, <2>5 DEF RemoveAll, RemoveAllFirst, RemoveAllSecond, RemovalOrder, Del, redis
  <2>6. CASE Process(n)
    BY <2>1, <2>6 DEF Process, Dispatch, Handled, GivenBack, Shutdown, Drain, Restart, Crash, End, redis
  <2> QED
    BY <2>4, <2>5, <2>6
<1> QED
  BY <1>2, <1>3, LengthKept

LEMMA LengthNext == TypeOK /\ LengthBound /\ [Next]_vars => LengthBound'
<1> SUFFICES ASSUME TypeOK, LengthBound, [Next]_vars PROVE LengthBound'
  OBVIOUS
<1>1. TypeOK'
  BY TypeNext
<1>2. CASE UNCHANGED vars
  <2>1. Pushing' \subseteq Pushing /\ Len(list') <= Len(list)
    BY <1>2 DEF vars, redis, Pushing, Doing, TypeOK
  <2> QED
    BY <1>1, <2>1, LengthKept
<1> QED
  BY <1>1, <1>2, LengthPush, LengthOthers DEF Next, Step

-----------------------------------------------------------------------------
(* Without RemoveAll the set keeps the items of the list apart.            *)
LEMMA DistinctPush ==
  ASSUME TypeOK, DistinctInv, NEW n \in Node, Push(n)
  PROVE  DistinctInv'
<1> USE DEF TypeOK, DistinctInv
<1>0. \A m \in Node \ {n} : op'[m] = op[m]
  BY Others DEF Step
<1>1. removals' = removals
  BY DEF Push, PushLen, PushTimesOut, PushLenFails, PushSAdd, PushSAddFails, PushRPush,
         PushRPushFails, history, bounds
<1>2. SUFFICES ASSUME Apart PROVE Apart'
  BY <1>1
<1>3. /\ \A i, j \in 1..Len(list) : list[i] = list[j] => i = j
      /\ Listed \subseteq set
      /\ \A m \in Node : ~Doing(m, {"removing"})
      /\ \A m \in Node, x \in Item : Taken(m, x) =>
           x \in set \ Listed /\ \A k \in Node \ {m} : ~Taken(k, x)
  BY <1>2 DEF Apart
<1>4. \A m \in Node \ {n} : /\ Doing(m, {"removing"})' <=> Doing(m, {"removing"})
                            /\ \A x \in Item : Taken(m, x)' <=> Taken(m, x)
  BY <1>0 DEF Doing, Taken
<1>5. ASSUME list' = list, set \subseteq set', op'[n].step \in {"idle", "counted"} \/ op'[n] = op[n]
      PROVE  Apart'
  <2>1. Listed' = Listed
    BY <1>5 DEF Listed
  <2>2. ~Doing(n, {"removing"})' /\ \A x \in Item : Taken(n, x)' => Taken(n, x)
    BY <1>3, <1>5 DEF Doing, Taken
  <2> QED
    BY <1>3, <1>4, <1>5, <2>1, <2>2 DEF Apart
<1>6. ASSUME NEW x \in Item, NEW via \in Via, PushLen(n, x, via) PROVE Apart'
  BY <1>5, <1>6 DEF PushLen, redis
<1>7. ASSUME NEW x \in Item, NEW via \in Via, PushTimesOut(n, x, via) \/ PushLenFails(n, x, via)
      PROVE  Apart'
  BY <1>5, <1>7 DEF PushTimesOut, PushLenFails, redis
<1>8. CASE PushSAdd(n)
  <2>1. CASE IsNew(op[n].item)
    <3>0. op[n].item \notin set
      BY <2>1 DEF IsNew
    <3>1. /\ list' = list /\ set' = set \cup {op[n].item}
          /\ op'[n].step = "reserved" /\ op'[n].item = op[n].item
      BY <1>8, <2>1 DEF PushSAdd
    <3>2. Listed' = Listed
      BY <3>1 DEF Listed
    <3>3. ~Doing(n, {"removing"})' /\ \A x \in Item : Taken(n, x)' <=> x = op[n].item
      BY <3>1 DEF Doing, Taken
    <3>4. \A m \in Node : ~Taken(m, op[n].item)
      BY <1>3, <1>8, <3>0, OpFields DEF PushSAdd, Doing
    <3> QED
      BY <1>3, <1>4, <3>0, <3>1, <3>2, <3>3, <3>4 DEF Apart
  <2>2. CASE ~IsNew(op[n].item)
    BY <1>5, <1>8, <2>2 DEF PushSAdd, EndPush, Leaves, history, bounds, Idle
  <2> QED
    BY <2>1, <2>2
<1>9. CASE PushSAddFails(n)
  BY <1>5, <1>9 DEF PushSAddFails, EndPush, Idle
<1>10. CASE PushRPush(n) \/ PushRPushFails(n)
  <2>1. /\ set' = set /\ op'[n].step = "idle"
        /\ list' \in {list, Append(list, op[n].item)}
        /\ op[n].step = "reserved"
    BY <1>10 DEF PushRPush, PushRPushFails, EndPush, Leaves, Idle, Doing
  <2>2. CASE list' = list
    BY <1>5, <2>1, <2>2
  <2>3. CASE list' = Append(list, op[n].item)
    <3>1. op[n].item \in Item /\ Taken(n, op[n].item)
      BY <2>1, OpFields DEF Taken, Doing
    <3>2. op[n].item \in set \ Listed /\ \A k \in Node \ {n} : ~Taken(k, op[n].item)
      BY <1>3, <3>1
    <3>3. /\ Listed' = Listed \cup {op[n].item}
          /\ \A i, j \in 1..Len(list') : list'[i] = list'[j] => i = j
      BY <1>3, <2>3, <3>1, <3>2, RPushList
    <3>4. ~Doing(n, {"removing"})' /\ \A x \in Item : ~Taken(n, x)'
      BY <2>1 DEF Doing, Taken
    <3> QED
      BY <1>3, <1>4, <2>1, <3>2, <3>3, <3>4 DEF Apart
  <2> QED
    BY <2>1, <2>2, <2>3
<1> QED
  BY <1>6, <1>7, <1>8, <1>9, <1>10 DEF Push

LEMMA DistinctPop ==
  ASSUME TypeOK, DistinctInv, NEW n \in Node, Pop(n)
  PROVE  DistinctInv'
<1> USE DEF TypeOK, DistinctInv
<1>0. \A m \in Node \ {n} : op'[m] = op[m]
  BY Others DEF Step
<1>1. removals' = removals
  BY DEF Pop, PopLPop, PopLPopFails, PopSRem, PopSRemFails, history, bounds
<1>2. SUFFICES ASSUME Apart PROVE Apart'
  BY <1>1
<1>3. /\ \A i, j \in 1..Len(list) : list[i] = list[j] => i = j
      /\ Listed \subseteq set
      /\ \A m \in Node : ~Doing(m, {"removing"})
      /\ \A m \in Node, x \in Item : Taken(m, x) =>
           x \in set \ Listed /\ \A k \in Node \ {m} : ~Taken(k, x)
  BY <1>2 DEF Apart
<1>4. \A m \in Node \ {n} : /\ Doing(m, {"removing"})' <=> Doing(m, {"removing"})
                            /\ \A x \in Item : Taken(m, x)' <=> Taken(m, x)
  BY <1>0 DEF Doing, Taken
<1>5. CASE PopLPop(n) \/ PopLPopFails(n)
  <2>1. list # << >> /\ list' = Tail(list) /\ set' = set
    BY <1>5 DEF PopLPop, TakeFirst, PopLPopFails
  <2>2. /\ Head(list) \in Item
        /\ Listed = Listed' \cup {Head(list)}
        /\ Head(list) \notin Listed'
        /\ \A i, j \in 1..Len(list') : list'[i] = list'[j] => i = j
    BY <1>3, <2>1, LPopList
  <2>3. ~Doing(n, {"removing"})' /\ \A x \in Item : Taken(n, x)' => x = Head(list) \/ Taken(n, x)
    BY <1>3, <1>5 DEF PopLPop, TakeFirst, PopLPopFails, Doing, Taken
  <2> QED
    BY <1>3, <1>4, <2>1, <2>2, <2>3 DEF Apart
<1>6. CASE PopSRem(n) \/ PopSRemFails(n)
  <2>1. /\ op[n].step = "popped" /\ op'[n].step = "idle"
        /\ list' = list
        /\ set \ {op[n].item} \subseteq set'
    BY <1>6 DEF PopSRem, PopSRemFails, Deliver, Doing, Idle
  <2>2. op[n].item \in Item /\ Taken(n, op[n].item)
    BY <2>1, OpFields DEF Taken, Doing
  <2>3. op[n].item \notin Listed /\ \A k \in Node \ {n} : ~Taken(k, op[n].item)
    BY <1>3, <2>2
  <2>4. Listed' = Listed
    BY <2>1 DEF Listed
  <2>5. ~Doing(n, {"removing"})' /\ \A x \in Item : ~Taken(n, x)'
    BY <2>1 DEF Doing, Taken
  <2> QED
    BY <1>3, <1>4, <2>1, <2>3, <2>4, <2>5 DEF Apart
<1> QED
  BY <1>5, <1>6 DEF Pop

LEMMA DistinctOthers ==
  ASSUME TypeOK, TypeOK', DistinctInv, NEW n \in Node, RemoveAll(n) \/ Process(n)
  PROVE  DistinctInv'
<1> USE DEF TypeOK, DistinctInv
<1>1. CASE RemoveAllFirst(n)
  <2>1. removals' # 0
    BY <1>1, ConstantsAssumption, LengthAssumption DEF RemoveAllFirst
  <2> QED
    BY <2>1
<1>2. CASE RemoveAllSecond(n)
  <2>1. removals' # 0
    BY <1>2 DEF RemoveAllSecond, Apart, bounds
  <2> QED
    BY <2>1
<1>3. CASE Process(n)
  <2>0. \A m \in Node \ {n} : op'[m] = op[m]
    BY <1>3, Others DEF Step
  <2>1. /\ list' = list /\ set' = set /\ removals' = removals
        /\ op'[n] = op[n] \/ op'[n].step = "idle"
    BY <1>3 DEF Process, Dispatch, Handled, GivenBack, Shutdown, Drain, Restart, Crash, End,
              redis, history, bounds, Idle
  <2>2. Listed' = Listed
    BY <2>1 DEF Listed
  <2>3. \A m \in Node : /\ Doing(m, {"removing"})' => Doing(m, {"removing"})
                       /\ \A x \in Item : Taken(m, x)' => Taken(m, x)
    BY <2>0, <2>1 DEF Doing, Taken
  <2>4. Apart => Apart'
    BY <2>1, <2>2, <2>3 DEF Apart
  <2> QED
    BY <2>1, <2>4
<1> QED
  BY <1>1, <1>2, <1>3 DEF RemoveAll

LEMMA DistinctNext == TypeOK /\ DistinctInv /\ [Next]_vars => DistinctInv'
<1> SUFFICES ASSUME TypeOK, DistinctInv, [Next]_vars PROVE DistinctInv'
  OBVIOUS
<1>1. CASE UNCHANGED vars
  <2>1. Listed' = Listed
    BY <1>1 DEF vars, redis, Listed
  <2> QED
    BY <1>1, <2>1 DEF vars, redis, history, bounds, DistinctInv, Apart, Taken, Doing
<1> QED
  BY <1>1, TypeNext, DistinctPush, DistinctPop, DistinctOthers DEF Next, Step

-----------------------------------------------------------------------------
(* The inductive invariant of the queue.                                   *)
THEOREM RedisSafe == Spec => []RedisInv
<1>1. RedisInv /\ [Next]_vars => RedisInv'
  BY TypeNext, OwedNext, LengthNext, DistinctNext DEF RedisInv
<1> QED
  BY <1>1, RedisInvInit, PTL DEF Spec

(* Only an interrupted call or a crash leaves an entry in the set that     *)
(* blocks its item for ever (base_redis.go:68-77, 86-97, 127-130).         *)
THEOREM EntriesLive == Spec => []StaleNeedsInterruption
<1>1. RedisInv => StaleNeedsInterruption
  BY DEF RedisInv, OwedInv
<1> QED
  BY <1>1, RedisSafe, PTL

(* The list outgrows its length by one item for each other node at most    *)
(* (base_redis.go:60-66, 77).                                              *)
THEOREM LengthKnown == Spec => []LengthExceededByNodes
<1>1. RedisInv => LengthExceededByNodes
  <2> SUFFICES ASSUME RedisInv PROVE LengthExceededByNodes
    OBVIOUS
  <2>1. Len(list) \in Nat /\ Cardinality(Node) \in Nat /\ Cardinality(Pushing) \in Nat /\ Length \in Nat
    BY PushingFinite, ConstantsAssumption, LengthAssumption DEF RedisInv, TypeOK
  <2> QED
    BY <2>1 DEF RedisInv, LengthBound, LengthExceededByNodes
<1> QED
  BY <1>1, RedisSafe, PTL

(* Without RemoveAll no item is in the list twice (base_redis.go:68-76).   *)
THEOREM ItemsDistinct == Spec => []DuplicateNeedsRemoveAll
<1>1. RedisInv => DuplicateNeedsRemoveAll
  BY DEF RedisInv, DistinctInv, Apart, DuplicateNeedsRemoveAll
<1> QED
  BY <1>1, RedisSafe, PTL

(* A pushed item is in the list or with a node until it is handled,        *)
(* removed or given up, unless a call was interrupted                      *)
(* (workergroup.go:108-114).                                               *)
THEOREM OwedKept == Spec => []OwedIsKept
<1>1. RedisInv => OwedIsKept
  BY DEF RedisInv, OwedInv, OwedSomewhere, OwedIsKept, Taken, InFlight, Doing
<1> QED
  BY <1>1, RedisSafe, PTL

(***************************************************************************)
(* The queue in memory.                                                    *)
(***************************************************************************)
LEMMA AppendChannel ==
  ASSUME c \in Seq(Item), NEW x \in Item, c' = Append(c, x)
  PROVE  /\ c' \in Seq(Item) /\ Len(c') = Len(c) + 1
         /\ c' # << >>
         /\ InChannel' = InChannel \cup {x}
<1>1. /\ c' \in Seq(Item)
      /\ Len(c') = Len(c) + 1
      /\ c'[Len(c) + 1] = x
      /\ \A i \in 1..Len(c) : c'[i] = c[i]
      /\ Len(c) \in Nat
  OBVIOUS
<1> QED
  BY <1>1 DEF InChannel

LEMMA TailChannel ==
  ASSUME c \in Seq(Item), c # << >>, c' = Tail(c)
  PROVE  /\ c' \in Seq(Item)
         /\ Len(c) \in Nat /\ Len(c') = Len(c) - 1
         /\ Head(c) \in Item
         /\ InChannel \subseteq InChannel' \cup {Head(c)}
<1>1. /\ c' \in Seq(Item)
      /\ Len(c') = Len(c) - 1
      /\ Len(c) \in Nat /\ Len(c) >= 1
      /\ Head(c) = c[1] /\ Head(c) \in Item
      /\ \A i \in 1..Len(c') : c'[i] = c[i + 1]
  OBVIOUS
<1>2. ASSUME NEW i \in 1..Len(c), i # 1 PROVE i - 1 \in 1..Len(c') /\ c[i] = c'[i - 1]
  BY <1>1, <1>2
<1> QED
  BY <1>1, <1>2 DEF InChannel

LEMMA ChannelInvInit == ChannelInit => ChannelInv
<1> SUFFICES ASSUME ChannelInit PROVE ChannelInv
  OBVIOUS
<1>1. ChannelTypeOK
  BY LengthAssumption DEF ChannelInit, ChannelTypeOK, Idle
<1>2. \A x \in Item : ~(x \in entered \/ Sent(x))
  BY DEF ChannelInit, Sent, Idle
<1>3. RemovalStarvedByPopper
  BY DEF ChannelInit, RemovalStarvedByPopper
<1> QED
  BY <1>1, <1>2, <1>3 DEF ChannelInv

(* A step of a pusher: what it sends is in the channel before it is in the *)
(* set.                                                                    *)
LEMMA ChannelInvPush ==
  ASSUME ChannelInv, NEW p \in Pusher,
         PushSteps(p) \/ \E x \in Item : PushCall(p, x)
  PROVE  ChannelInv'
<1> USE DEF ChannelInv, ChannelTypeOK
<1>0. /\ push[p].step \in {"idle", "called", "absent", "sent"}
      /\ push[p].step # "idle" => push[p].item \in Item
  BY DEF Idle
<1>1. /\ pop' = pop /\ removal' = removal /\ raced' = raced
  BY DEF PushSteps, PushCall, PushContains, PushSend, PushGivesUp, PushAdd
<1>2. ASSUME c' = c, entered' = entered,
             \E o \in {Idle} \cup [step : {"called", "absent"}, item : Item] :
               push' = [push EXCEPT ![p] = o]
      PROVE  ChannelInv'
  <2>1. ChannelTypeOK'
    BY <1>1, <1>2
  <2>2. \A x \in Item : Sent(x)' => Sent(x)
    BY <1>2 DEF Sent, Idle
  <2>3. \A x \in Item : Covered(x) => Covered(x)'
    BY <1>1, <1>2 DEF Covered, InChannel
  <2>4. RemovalStarvedByPopper'
    BY <1>1, <1>2 DEF RemovalStarvedByPopper
  <2> QED
    BY <1>2, <2>1, <2>2, <2>3, <2>4
<1>3. ASSUME NEW x \in Item, PushCall(p, x) PROVE ChannelInv'
  BY <1>2, <1>3 DEF PushCall
<1>4. CASE PushContains(p)
  <2>1. [step |-> "absent", item |-> push[p].item] \in [step : {"called", "absent"}, item : Item]
    BY <1>0, <1>4 DEF PushContains
  <2> QED
    BY <1>2, <1>4, <2>1 DEF PushContains
<1>5. CASE PushGivesUp(p)
  BY <1>2, <1>5 DEF PushGivesUp
<1>6. CASE PushSend(p)
  <2>1. push[p].item \in Item /\ c' = Append(c, push[p].item) /\ entered' = entered /\ Len(c) < Length
    BY <1>0, <1>6 DEF PushSend, CanSend
  <2>2. /\ c' \in Seq(Item) /\ Len(c') = Len(c) + 1
        /\ c' # << >>
        /\ InChannel' = InChannel \cup {push[p].item}
    BY <2>1, AppendChannel
  <2>3. Len(c') <= Length
    BY <2>1, <2>2, LengthAssumption
  <2>4. ChannelTypeOK'
    BY <1>1, <1>6, <2>1, <2>2, <2>3 DEF PushSend
  <2>5. \A x \in Item : Sent(x)' => Sent(x) \/ x = push[p].item
    BY <1>6 DEF PushSend, Sent
  <2>6. \A x \in Item : Covered(x) \/ x = push[p].item => Covered(x)'
    BY <1>1, <2>2 DEF Covered
  <2>7. RemovalStarvedByPopper'
    BY <2>2 DEF RemovalStarvedByPopper
  <2> QED
    BY <2>1, <2>4, <2>5, <2>6, <2>7
<1>7. CASE PushAdd(p)
  <2>1. /\ push[p].item \in Item /\ Sent(push[p].item)
        /\ c' = c /\ entered' = entered \cup {push[p].item}
    BY <1>0, <1>7 DEF PushAdd, Sent, Idle
  <2>2. ChannelTypeOK'
    BY <1>1, <1>7, <2>1 DEF PushAdd
  <2>3. \A x \in Item : Sent(x)' => Sent(x)
    BY <1>7 DEF PushAdd, Sent, Idle
  <2>4. \A x \in Item : Covered(x) => Covered(x)'
    BY <1>1, <2>1 DEF Covered, InChannel
  <2>5. RemovalStarvedByPopper'
    BY <1>1, <2>1 DEF RemovalStarvedByPopper
  <2> QED
    BY <2>1, <2>2, <2>3, <2>4, <2>5
<1> QED
  BY <1>3, <1>4, <1>5, <1>6, <1>7 DEF PushSteps

(* The popper: what it removes from the set while its push has yet to      *)
(* enter it is noted as raced.                                             *)
LEMMA ChannelInvPop ==
  ASSUME ChannelInv, PopSteps \/ PopCancelled
  PROVE  ChannelInv'
<1> USE DEF ChannelInv, ChannelTypeOK
<1>1. CASE PopReceive
  <2>1. /\ c' \in Seq(Item) /\ Len(c') <= Length /\ Head(c) \in Item
        /\ InChannel \subseteq InChannel' \cup {Head(c)}
    BY <1>1, TailChannel, LengthAssumption DEF PopReceive
  <2>2. /\ pop = Idle /\ pop' = [step |-> "received", item |-> Head(c)]
        /\ entered' = entered /\ push' = push /\ removal' = removal /\ raced' = raced
    BY <1>1 DEF PopReceive
  <2>3. ChannelTypeOK'
    BY <2>1, <2>2
  <2>4. \A x \in Item : Sent(x)' <=> Sent(x)
    BY <2>2 DEF Sent
  <2>5. \A x \in Item : Covered(x) => Covered(x)'
    BY <2>1, <2>2 DEF Covered, Idle
  <2>6. RemovalStarvedByPopper'
    BY <2>2 DEF RemovalStarvedByPopper
  <2> QED
    BY <2>2, <2>3, <2>4, <2>5, <2>6
<1>2. CASE PopRemove
  <2>1. /\ pop.step = "received" /\ removal = "idle" /\ pop' = Idle
        /\ c' = c /\ push' = push /\ removal' = removal
        /\ entered' = entered \ {pop.item}
        /\ raced' = raced \cup {x \in {pop.item} : Sent(x)}
    BY <1>2 DEF PopRemove, MutexFree, Forget, NoteRace
  <2>2. pop.item \in Item
    BY <2>1 DEF Idle
  <2>3. ChannelTypeOK'
    BY <2>1, <2>2
  <2>4. \A x \in Item : Sent(x)' <=> Sent(x)
    BY <2>1 DEF Sent
  <2>5. ASSUME NEW x \in Item, x \in entered' \/ Sent(x)' PROVE Covered(x)'
    <3>1. CASE x = pop.item
      BY <2>1, <2>4, <2>5, <3>1 DEF Covered
    <3>2. CASE x # pop.item
      <4>1. Covered(x) /\ pop # [step |-> "received", item |-> x]
        BY <2>1, <2>4, <2>5, <3>2
      <4> QED
        BY <2>1, <4>1 DEF Covered, InChannel
    <3> QED
      BY <3>1, <3>2
  <2>6. RemovalStarvedByPopper'
    BY <2>1 DEF RemovalStarvedByPopper
  <2> QED
    BY <2>3, <2>5, <2>6
<1>3. CASE PopCancelled
  <2>1. /\ pop = Idle /\ pop' = [step |-> "ended"]
        /\ c' = c /\ entered' = entered /\ push' = push /\ removal' = removal /\ raced' = raced
    BY <1>3 DEF PopCancelled
  <2>2. ChannelTypeOK' /\ RemovalStarvedByPopper'
    BY <2>1 DEF RemovalStarvedByPopper, Idle
  <2>3. \A x \in Item : (Sent(x)' <=> Sent(x)) /\ (Covered(x) => Covered(x)')
    BY <2>1 DEF Sent, Covered, InChannel, Idle
  <2> QED
    BY <2>1, <2>2, <2>3
<1> QED
  BY <1>1, <1>2, <1>3 DEF PopSteps

LEMMA ChannelInvRemove ==
  ASSUME ChannelInv, RemoveLock \/ RemoveSteps
  PROVE  ChannelInv'
<1> USE DEF ChannelInv, ChannelTypeOK
<1>1. CASE RemoveLock \/ RemoveNext
  <2>1. /\ c' = c /\ entered' = entered /\ push' = push /\ pop' = pop /\ raced' = raced
        /\ removal' = "looping" \/ (removal' = "receiving" /\ c # << >>)
    BY <1>1 DEF RemoveLock, RemoveNext, Remaining
  <2>2. ChannelTypeOK' /\ RemovalStarvedByPopper'
    BY <2>1 DEF RemovalStarvedByPopper
  <2>3. \A x \in Item : Covered(x)'
    BY <2>1 DEF Covered
  <2> QED
    BY <2>2, <2>3
<1>2. CASE RemoveReceive
  <2>1. c' \in Seq(Item) /\ Len(c') <= Length
    BY <1>2, TailChannel, LengthAssumption DEF RemoveReceive
  <2>2. /\ entered' = entered /\ push' = push /\ pop' = pop /\ raced' = raced /\ removal' = "looping"
    BY <1>2 DEF RemoveReceive
  <2>3. ChannelTypeOK' /\ RemovalStarvedByPopper'
    BY <2>1, <2>2 DEF RemovalStarvedByPopper
  <2>4. \A x \in Item : Covered(x)'
    BY <2>2 DEF Covered
  <2> QED
    BY <2>3, <2>4
<1>3. CASE RemoveDone
  <2>1. /\ c' = c /\ push' = push /\ pop' = pop /\ removal' = "idle"
        /\ entered' = {} /\ raced' = raced \cup {x \in Item : Sent(x)}
    BY <1>3 DEF RemoveDone, NoteRace
  <2>2. ChannelTypeOK' /\ RemovalStarvedByPopper'
    BY <2>1 DEF RemovalStarvedByPopper
  <2>3. \A x \in Item : Sent(x)' => x \in raced'
    BY <2>1 DEF Sent
  <2> QED
    BY <2>1, <2>2, <2>3 DEF Covered
<1> QED
  BY <1>1, <1>2, <1>3 DEF RemoveSteps

LEMMA ChannelInvNext == ChannelInv /\ [ChannelNext]_channelVars => ChannelInv'
<1> SUFFICES ASSUME ChannelInv, [ChannelNext]_channelVars PROVE ChannelInv'
  OBVIOUS
<1>1. CASE UNCHANGED channelVars
  BY <1>1 DEF channelVars, ChannelInv, ChannelTypeOK, Covered, InChannel, Sent, RemovalStarvedByPopper
<1> QED
  BY <1>1, ChannelInvPush, ChannelInvPop, ChannelInvRemove DEF ChannelNext

-----------------------------------------------------------------------------
(* The inductive invariant of the queue.                                   *)
THEOREM ChannelSafe == ChannelSpec => []ChannelInv
BY ChannelInvInit, ChannelInvNext, PTL DEF ChannelSpec

(* Every variable keeps its type, and the channel its capacity.            *)
THEOREM ChannelTypeCorrect == ChannelSpec => []ChannelTypeOK
<1>1. ChannelInv => ChannelTypeOK
  BY DEF ChannelInv
<1> QED
  BY <1>1, ChannelSafe, PTL

(* Only the race of a push with the popper, or with RemoveAll, leaves an   *)
(* entry that blocks its datum (base_channel.go:57-64, 74-81).             *)
THEOREM ChannelEntriesLive == ChannelSpec => []StaleNeedsRace
<1>1. ChannelInv => StaleNeedsRace
  BY DEF ChannelInv, ChannelTypeOK, Covered, StaleNeedsRace
<1> QED
  BY <1>1, ChannelSafe, PTL

(* RemoveAll waits on an empty channel only because of the popper          *)
(* (base_channel.go:119-125, 74-81).                                       *)
THEOREM RemovalStarved == ChannelSpec => []RemovalStarvedByPopper
<1>1. ChannelInv => RemovalStarvedByPopper
  BY DEF ChannelInv
<1> QED
  BY <1>1, ChannelSafe, PTL
==============================================================================
