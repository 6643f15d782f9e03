----------------------------- MODULE ChannelQueue -----------------------------
(***************************************************************************)
(* modules/queue/base_channel.go: a unique base queue in memory.           *)
(*                                                                         *)
(* The queue is a buffered channel and a set of the data in it.  The mutex *)
(* mu protects the set, not the two together: a push sends between its two *)
(* visits to the set, the popper receives before its visit.  Only          *)
(* RemoveAll keeps mu over several steps; a visit to the set is one step   *)
(* that needs mu to be free.                                               *)
(***************************************************************************)
EXTENDS BaseQueue

CONSTANT
  Pusher    \* goroutines that call PushItem

VARIABLES
  c,        \* the channel
  entered,  \* q.set
  push,     \* what each pusher is doing
  pop,      \* what the popper is doing
  removal,  \* what RemoveAll is doing, if it runs
  raced     \* history: items taken out before their push had entered them in the set

channelVars == << c, entered, push, pop, removal, raced >>

InChannel  == {c[i] : i \in 1..Len(c)}
MutexFree  == removal = "idle"
Sent(x)    == \E p \in Pusher : push[p] = [step |-> "sent", item |-> x]
NoteRace(X) == raced' = raced \cup {x \in X : Sent(x)}

CanSend   == Len(c) < Length
Remaining == c # << >>

ChannelInit ==
  /\ c = << >>
  /\ entered = {}
  /\ push = [p \in Pusher |-> Idle]
  /\ pop = Idle
  /\ removal = "idle"
  /\ raced = {}

-----------------------------------------------------------------------------
(* PushItem.                                                               *)

PushCall(p, x) ==
  /\ push[p] = Idle
  /\ push' = [push EXCEPT ![p] = [step |-> "called", item |-> x]]
  /\ UNCHANGED << c, entered, pop, removal, raced >>

(* A datum that is in the set is refused: ErrAlreadyInQueue.               *)
PushContains(p) ==
  /\ push[p].step = "called"
  /\ MutexFree
  /\ push' = [push EXCEPT ![p] = IF push[p].item \in entered THEN Idle
                                ELSE [step |-> "absent", item |-> push[p].item]]
  /\ UNCHANGED << c, entered, pop, removal, raced >>

PushSend(p) ==
  /\ push[p].step = "absent"
  /\ CanSend
  /\ c' = Append(c, push[p].item)
  /\ push' = [push EXCEPT ![p] = [step |-> "sent", item |-> @.item]]
  /\ UNCHANGED << entered, pop, removal, raced >>

(* pushBlockTime is over, or the context is done.                          *)
PushGivesUp(p) ==
  /\ push[p].step = "absent"
  /\ push' = [push EXCEPT ![p] = Idle]
  /\ UNCHANGED << c, entered, pop, removal, raced >>

PushAdd(p) ==
  /\ push[p].step = "sent"
  /\ MutexFree
  /\ entered' = entered \cup {push[p].item}
  /\ push' = [push EXCEPT ![p] = Idle]
  /\ UNCHANGED << c, pop, removal, raced >>

-----------------------------------------------------------------------------
(* PopItem, called by one goroutine, again and again.                      *)

PopReceive ==
  /\ pop = Idle
  /\ c # << >>
  /\ c' = Tail(c)
  /\ pop' = [step |-> "received", item |-> Head(c)]
  /\ UNCHANGED << entered, push, removal, raced >>

(* Mutant of Forget: the set is left alone.                                *)
Forget_Never(x) == entered' = entered

Forget(x) == entered' = entered \ {x}

PopRemove ==
  /\ pop.step = "received"
  /\ MutexFree
  /\ Forget(pop.item)
  /\ pop' = Idle
  /\ NoteRace({pop.item})
  /\ UNCHANGED << c, push, removal >>

(* The context is done: the popper ends.                                   *)
PopCancelled ==
  /\ pop = Idle
  /\ pop' = [step |-> "ended"]
  /\ UNCHANGED << c, entered, push, removal, raced >>

-----------------------------------------------------------------------------
(* RemoveAll, under mu: as long as the channel is not empty, receive.      *)

RemoveLock ==
  /\ removal = "idle"
  /\ removal' = "looping"
  /\ UNCHANGED << c, entered, push, pop, raced >>

RemoveNext ==
  /\ removal = "looping"
  /\ Remaining
  /\ removal' = "receiving"
  /\ UNCHANGED << c, entered, push, pop, raced >>

RemoveReceive ==
  /\ removal = "receiving"
  /\ c # << >>
  /\ c' = Tail(c)
  /\ removal' = "looping"
  /\ UNCHANGED << entered, push, pop, raced >>

RemoveDone ==
  /\ removal = "looping"
  /\ ~Remaining
  /\ entered' = {}
  /\ removal' = "idle"
  /\ NoteRace(Item)
  /\ UNCHANGED << c, push, pop >>

-----------------------------------------------------------------------------
PushSteps(p) == PushContains(p) \/ PushSend(p) \/ PushGivesUp(p) \/ PushAdd(p)
PopSteps     == PopReceive \/ PopRemove
RemoveSteps  == RemoveNext \/ RemoveReceive \/ RemoveDone

ChannelNext ==
  \/ \E p \in Pusher : PushSteps(p) \/ \E x \in Item : PushCall(p, x)
  \/ PopSteps \/ PopCancelled
  \/ RemoveLock \/ RemoveSteps

ChannelSpec == ChannelInit /\ [][ChannelNext]_channelVars

(* The Go scheduler runs every goroutine that can run, and a sync.Mutex    *)
(* starves nobody who waits for it.                                        *)
LiveSpec ==
  /\ ChannelSpec
  /\ \A p \in Pusher : SF_channelVars(PushSteps(p))
  /\ SF_channelVars(PopSteps)
  /\ WF_channelVars(RemoveSteps)

-----------------------------------------------------------------------------
(* Properties.                                                             *)

(* Every variable keeps its type, and the channel its capacity.            *)
ChannelTypeOK ==
  /\ c \in Seq(Item)
  /\ Len(c) <= Length
  /\ entered \subseteq Item
  /\ push \in [Pusher -> {Idle} \cup [step : {"called", "absent", "sent"}, item : Item]]
  /\ pop \in {Idle, [step |-> "ended"]} \cup [step : {"received"}, item : Item]
  /\ removal \in {"idle", "looping", "receiving"}
  /\ raced \subseteq Item

(* A datum in the set blocks every later push of it.  It is in the queue,  *)
(* or on its way out, unless it was taken out of the channel and of the    *)
(* set before its own push entered it there: then it blocks its pushes for *)
(* ever (base_channel.go:57-64, 74-81).                                    *)
StaleNeedsRace ==
  \A x \in entered :
    \/ x \in InChannel
    \/ pop = [step |-> "received", item |-> x]
    \/ removal # "idle"
    \/ x \in raced

(* RemoveAll waits on an empty channel, and every push and HasItem for mu, *)
(* only if the popper has taken the last datum since RemoveAll looked at   *)
(* the length, and itself waits for mu (base_channel.go:119-125, 74-81).   *)
RemovalStarvedByPopper ==
  removal = "receiving" /\ c = << >> => pop.step = "received"

(* The inductive invariant of the proofs: what has been sent is covered    *)
(* already before it is entered in the set.                                *)
Covered(x) ==
  \/ x \in InChannel
  \/ pop = [step |-> "received", item |-> x]
  \/ removal # "idle"
  \/ x \in raced
ChannelInv ==
  /\ ChannelTypeOK
  /\ \A x \in Item : x \in entered \/ Sent(x) => Covered(x)
  /\ RemovalStarvedByPopper

(* A push returns (queue.go:40, "Its "Push" function doesn't block         *)
(* forever, it will return an error if the queue is full after the         *)
(* timeout").                                                              *)
PushReturns == \A p \in Pusher : push[p] # Idle ~> push[p] = Idle
===============================================================================
