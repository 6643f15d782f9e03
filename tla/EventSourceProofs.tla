--------------------------- MODULE EventSourceProofs ---------------------------
(***************************************************************************)
(* Proofs about EventSource: the type invariant, then one inductive        *)
(* invariant whose parts each action preserves: who has which mutex still  *)
(* has the messenger it is about (Owns), the channels are open and listed  *)
(* once (ChannelsOpen), a stream that listens on an open channel is listed *)
(* (Listed), a stream that depends on a messenger finds it in the map or   *)
(* is an orphan (Linked, and Swept while UnregisterAll runs), and who can  *)
(* have an open channel (Opened); at last, who keeps a messenger's mutex   *)
(* (Keepers) and whose the messengers are (Named).                         *)
(***************************************************************************)
EXTENDS EventSource, SequenceTheorems, TLAPS

LEMMA NoneDistinct == None # "run" /\ None \notin Client /\ "run" \notin Client
BY ConstantsAssumption DEF ConstantsAssumption, Sender

LEMMA UidOfType == \A x \in Client \cup Session : UidOf[x] \in Uid
BY ConstantsAssumption DEF ConstantsAssumption

(* What appending to the channels of a messenger, removing one, and going  *)
(* on to the next do.                                                      *)
LEMMA SeqMember ==
  ASSUME NEW S, NEW q \in Seq(S), NEW x
  PROVE  x \in ToSet(q) <=> \E i \in 1..Len(q) : q[i] = x
BY DEF ToSet

LEMMA Removed ==
  ASSUME NEW S, NEW q \in Seq(S), NEW x, Distinct(q)
  PROVE  /\ RemoveFirst(q, x) \in Seq(S)
         /\ Distinct(RemoveFirst(q, x))
         /\ ToSet(RemoveFirst(q, x)) = ToSet(q) \ {x}
<1>1. CASE x \notin ToSet(q)
  <2>1. ~ \E i \in 1..Len(q) : q[i] = x
    BY <1>1, SeqMember
  <2>2. RemoveFirst(q, x) = q
    BY <2>1 DEF RemoveFirst
  <2> QED BY <2>2, <1>1
<1>2. CASE x \in ToSet(q)
  <2>1. PICK k \in 1..Len(q) : q[k] = x
    BY <1>2, SeqMember
  <2>2. {i \in 1..Len(q) : q[i] = x} = {k}
    BY <2>1 DEF Distinct
  <2>3. Min({k}) = k
    BY <2>1 DEF Min
  <2>4. SelectInSeq(q, LAMBDA v : v = x) = k
    BY <2>2, <2>3 DEF SelectInSeq
  <2> DEFINE r == SubSeq(q, 1, k - 1) \o SubSeq(q, k + 1, Len(q))
  <2>5. RemoveFirst(q, x) = r
    BY <2>1, <2>4 DEF RemoveFirst, RemoveAt
  <2>6. /\ r \in Seq(S)
        /\ Len(r) = Len(q) - 1
        /\ \A i \in 1..Len(r) : r[i] = IF i < k THEN q[i] ELSE q[i + 1]
    <3> DEFINE before == SubSeq(q, 1, k - 1)
               after  == SubSeq(q, k + 1, Len(q))
    <3>1. /\ before \in Seq(S) /\ Len(before) = k - 1
          /\ \A i \in 1..(k - 1) : before[i] = q[i]
      BY <2>1
    <3>2. /\ after \in Seq(S) /\ Len(after) = Len(q) - k
          /\ \A i \in 1..(Len(q) - k) : after[i] = q[k + i]
      BY <2>1
    <3> HIDE DEF before, after
    <3>3. /\ before \o after \in Seq(S)
          /\ Len(before \o after) = Len(before) + Len(after)
          /\ \A i \in 1..(Len(before) + Len(after)) :
               (before \o after)[i] = IF i <= Len(before) THEN before[i] ELSE after[i - Len(before)]
      BY <3>1, <3>2, ConcatProperties
    <3>4. \A i \in 1..(Len(q) - 1) : (before \o after)[i] = IF i < k THEN q[i] ELSE q[i + 1]
      <4> SUFFICES ASSUME NEW i \in 1..(Len(q) - 1)
                   PROVE  (before \o after)[i] = IF i < k THEN q[i] ELSE q[i + 1]
        OBVIOUS
      <4>1. CASE i < k
        <5>1. i \in 1..(k - 1) /\ i \in 1..(Len(before) + Len(after)) /\ i <= Len(before)
          BY <4>1, <3>1, <3>2, <2>1
        <5> QED BY <5>1, <3>1, <3>3, <4>1
      <4>2. CASE ~(i < k)
        <5>1. /\ i - (k - 1) \in 1..(Len(q) - k) /\ k + (i - (k - 1)) = i + 1
              /\ i \in 1..(Len(before) + Len(after)) /\ ~(i <= Len(before))
          BY <4>2, <3>1, <3>2, <2>1
        <5> QED BY <5>1, <3>1, <3>2, <3>3, <4>2
      <4> QED BY <4>1, <4>2
    <3>5. r = before \o after
      BY DEF before, after
    <3>6. Len(r) = Len(q) - 1
      <4>1. Len(before) + Len(after) = Len(q) - 1
        BY <3>1, <3>2, <2>1
      <4> QED BY <4>1, <3>3, <3>5
    <3> QED BY <3>3, <3>4, <3>5, <3>6
  <2> HIDE DEF r
  <2>7. Distinct(r)
    <3> SUFFICES ASSUME NEW i \in 1..Len(r), NEW j \in 1..Len(r), r[i] = r[j] PROVE i = j
      BY DEF Distinct
    <3> DEFINE a(n) == IF n < k THEN n ELSE n + 1
    <3>1. a(i) \in 1..Len(q) /\ a(j) \in 1..Len(q) /\ q[a(i)] = q[a(j)]
      BY <2>6, <2>1
    <3>2. a(i) = a(j)
      BY <3>1 DEF Distinct
    <3> QED BY <3>2, <2>1
  <2>8. ASSUME NEW y \in ToSet(r) PROVE y \in ToSet(q) \ {x}
    <3>1. PICK i \in 1..Len(r) : r[i] = y
      BY <2>6, <2>8, SeqMember
    <3>2. \E j \in 1..Len(q) : j # k /\ q[j] = y
      BY <3>1, <2>6, <2>1
    <3>3. y # x
      BY <3>2, <2>1 DEF Distinct
    <3> QED BY <3>2, <3>3, SeqMember
  <2>9. ASSUME NEW y \in ToSet(q) \ {x} PROVE y \in ToSet(r)
    <3>1. PICK j \in 1..Len(q) : q[j] = y
      BY <2>9, SeqMember
    <3>2. j # k
      BY <3>1, <2>1, <2>9
    <3>3. CASE j < k
      <4>1. j \in 1..Len(r) /\ r[j] = y
        BY <3>1, <3>3, <2>6, <2>1
      <4> QED BY <4>1, <2>6, SeqMember
    <3>4. CASE j > k
      <4>1. j - 1 \in 1..Len(r) /\ r[j - 1] = y
        BY <3>1, <3>4, <2>6, <2>1
      <4> QED BY <4>1, <2>6, SeqMember
    <3> QED BY <3>2, <3>3, <3>4, <2>1
  <2> QED BY <2>5, <2>6, <2>7, <2>8, <2>9
<1> QED BY <1>1, <1>2

LEMMA Appended ==
  ASSUME NEW S, NEW q \in Seq(S), NEW x \in S
  PROVE  /\ Append(q, x) \in Seq(S)
         /\ ToSet(Append(q, x)) = ToSet(q) \cup {x}
         /\ Distinct(q) /\ x \notin ToSet(q) => Distinct(Append(q, x))
<1> DEFINE r == Append(q, x)
<1>1. /\ r \in Seq(S) /\ Len(r) = Len(q) + 1
      /\ \A i \in 1..Len(q) : r[i] = q[i]
      /\ r[Len(q) + 1] = x
  OBVIOUS
<1>2. 1..Len(r) = (1..Len(q)) \cup {Len(q) + 1}
  BY <1>1
<1> HIDE DEF r
<1>3. ToSet(r) = ToSet(q) \cup {x}
  BY <1>1, <1>2, SeqMember
<1>4. Distinct(q) /\ x \notin ToSet(q) => Distinct(r)
  <2>1. x \notin ToSet(q) => \A i \in 1..Len(q) : q[i] # x
    BY SeqMember
  <2> QED BY <2>1, <1>1, <1>2 DEF Distinct
<1> QED BY <1>1, <1>3, <1>4 DEF r

LEMMA HeadAndTail ==
  ASSUME NEW S, NEW q \in Seq(S), q # << >>
  PROVE  /\ Head(q) \in ToSet(q) /\ Head(q) \in S
         /\ Tail(q) \in Seq(S)
         /\ ToSet(Tail(q)) \subseteq ToSet(q)
<1>1. /\ Len(q) > 0 /\ Head(q) = q[1] /\ Tail(q) \in Seq(S)
      /\ Len(Tail(q)) = Len(q) - 1
      /\ \A i \in 1..Len(Tail(q)) : Tail(q)[i] = q[i + 1]
  OBVIOUS
<1>2. Head(q) \in ToSet(q)
  BY <1>1, SeqMember
<1>3. ASSUME NEW y \in ToSet(Tail(q)) PROVE y \in ToSet(q)
  <2>1. PICK i \in 1..Len(Tail(q)) : Tail(q)[i] = y
    BY <1>1, <1>3, SeqMember
  <2>2. i + 1 \in 1..Len(q) /\ q[i + 1] = y
    BY <2>1, <1>1
  <2> QED BY <2>2, SeqMember
<1> QED BY <1>1, <1>2, <1>3

LEMMA NobodyListed == ToSet(<< >>) = {} /\ Distinct(<< >>)
BY DEF ToSet, Distinct

LEMMA SeqMembers ==
  ASSUME NEW S, NEW q \in Seq(S), NEW x \in ToSet(q)
  PROVE  x \in S
BY SeqMember

USE NoneDistinct

(***************************************************************************)
(* The type invariant.                                                     *)
(***************************************************************************)
LEMMA InitType == Init => TypeOK
<1> SUFFICES ASSUME Init PROVE TypeOK
  OBVIOUS
<1>1. /\ mutex \in Client \cup {"run", None}
      /\ \A c \in Client : mutex = c <=> client[c] = "remove"
      /\ mutex = "run" <=> run = "close"
      /\ \A c \in Client : client[c] = "new" <=> mine[c] = None
  BY DEF Init
<1>2. /\ messengers \in [Uid -> Client \cup {None}]
      /\ channels \in [Client -> Seq(Client)]
      /\ locked \in [Client -> Session \cup {None}]
      /\ chan \in [Client -> {"none", "open", "closed"}]
      /\ buf \in [Client -> Message \cup {None}]
  BY DEF Init
<1>3. /\ client \in [Client -> {"new", "append", "listen", "unregister", "remove", "drain", "gone"}]
      /\ mine \in [Client -> Client \cup {None}]
  BY DEF Init
<1>4. SendersOK
  BY DEF Init, SendersOK, Sender
<1> QED BY <1>1, <1>2, <1>3, <1>4 DEF Init, TypeOK, StreamsOK

LEMMA StreamType ==
  ASSUME StreamsOK, NEW c \in Client,
         RegisterManager(c) \/ RegisterMessenger(c) \/ HangUp(c) \/ SeesShutdown(c) \/ Read(c) \/ SeesClosed(c)
  PROVE  StreamsOK'
<1> USE DEF StreamsOK
<1>1. CASE RegisterManager(c)
  <2> DEFINE u == UidOf[c]
             m == IF messengers[u] = None THEN c ELSE messengers[u]
  <2>1. u \in Uid /\ m \in Client
    BY UidOfType
  <2>2. mutex # c /\ mutex # "run"
    BY <1>1 DEF RegisterManager
  <2>3. /\ messengers' = [messengers EXCEPT ![u] = m]
        /\ mine' = [mine EXCEPT ![c] = m]
        /\ client' = [client EXCEPT ![c] = "append"]
        /\ connection' = TRUE
    BY <1>1 DEF RegisterManager, Goto
  <2> HIDE DEF m, u
  <2>4. mine' \in [Client -> Client \cup {None}] /\ messengers' \in [Uid -> Client \cup {None}]
    BY <2>1, <2>3
  <2> QED BY <1>1, <2>1, <2>2, <2>3, <2>4 DEF RegisterManager, chans, runner
<1>2. CASE RegisterMessenger(c)
  <2>1. channels' \in [Client -> Seq(Client)]
    <3>1. \A m \in Client : Append(channels[m], c) \in Seq(Client)
      OBVIOUS
    <3> QED BY <1>2, <3>1 DEF RegisterMessenger
  <2> QED BY <1>2, <2>1 DEF RegisterMessenger, Goto, runner
<1>3. CASE HangUp(c) \/ SeesShutdown(c)
  <2>1. /\ client[c] = "listen" /\ client' = [client EXCEPT ![c] = "unregister"]
        /\ UNCHANGED << mutex, messengers, connection, channels, locked, chan, buf, mine, run, todo, shutdown, orphans >>
    BY <1>3 DEF HangUp, SeesShutdown, Goto, chans, runner
  <2> QED BY <2>1
<1>4. CASE Read(c)
  BY <1>4 DEF Read, Goto, runner
<1>5. CASE SeesClosed(c)
  BY <1>5 DEF SeesClosed, Goto, chans, runner
<1> QED BY <1>1, <1>2, <1>3, <1>4, <1>5

LEMMA LeaverType ==
  ASSUME StreamsOK, ChannelsOpen, NEW c \in Client, UnregisterLock(c) \/ UnregisterRemove(c) \/ Drain(c)
  PROVE  StreamsOK'
<1> USE DEF StreamsOK
<1>1. CASE UnregisterLock(c)
  BY <1>1 DEF UnregisterLock, Goto, chans, runner
<1>2. CASE UnregisterRemove(c)
  <2> DEFINE m == messengers[UidOf[c]]
  <2>1. /\ messengers' \in [Uid -> Client \cup {None}]
        /\ orphans' \subseteq Client
    BY <1>2 DEF UnregisterRemove, Registering
  <2>2. channels' \in [Client -> Seq(Client)]
    <3>1. \A n \in Client : RemoveFirst(channels[n], c) \in Seq(Client)
      BY Removed DEF ChannelsOpen
    <3>2. channels' = [channels EXCEPT ![m] = RemoveFirst(channels[m], c)]
      BY <1>2 DEF UnregisterRemove
    <3> QED BY <3>1, <3>2
  <2>3. chan' \in [Client -> {"none", "open", "closed"}]
    BY <1>2 DEF UnregisterRemove
  <2>4. /\ mutex = c /\ mutex' = None
        /\ client' = [client EXCEPT ![c] = "drain"]
    BY <1>2 DEF UnregisterRemove, Goto
  <2> QED BY <1>2, <2>1, <2>2, <2>3, <2>4 DEF UnregisterRemove, runner
<1>3. CASE Drain(c)
  <2>1. /\ client[c] = "drain" /\ buf' \in [Client -> Message \cup {None}]
        /\ UNCHANGED << mutex, messengers, connection, channels, locked, chan, mine, run, todo, shutdown, orphans >>
    BY <1>3 DEF Drain, runner
  <2>2. client' = client \/ client' = [client EXCEPT ![c] = "gone"]
    BY <1>3 DEF Drain, Goto
  <2>3. CASE UNCHANGED client
    BY <2>1, <2>3
  <2>4. CASE client' = [client EXCEPT ![c] = "gone"]
    BY <2>1, <2>4
  <2> QED BY <2>2, <2>3, <2>4
<1> QED BY <1>1, <1>2, <1>3

(* The steps of a sender, whichever it is, touch the mutex of a messenger  *)
(* and the messages in the channels.                                       *)
LEMMA DeliverType ==
  ASSUME StreamsOK, NEW s \in Sender, NEW message \in Message, Deliver(s, message)
  PROVE  buf' \in [Client -> Message \cup {None}] /\ UNCHANGED << channels, locked, chan >>
BY DEF StreamsOK, Deliver

LEMMA AimType ==
  ASSUME SendersOK, NEW s \in Sender \ Session, NEW m \in Client \cup {None},
         to' = [to EXCEPT ![s] = m], UNCHANGED rest,
         sender' = [sender EXCEPT ![s] = IF m = None THEN "idle" ELSE "send"]
  PROVE  SendersOK'
<1>1. \A t \in Session : sender'[t] = sender[t]
  BY DEF SendersOK, Sender
<1> QED BY <1>1 DEF SendersOK

LEMMA SendType ==
  ASSUME TypeOK,
         \/ \E s \in Session : SignOut(s) \/ Blocking(s)
         \/ \E p \in Poster : Post(p) \/ PostDelivers(p)
  PROVE  TypeOK'
<1>1. StreamsOK'
  <2>1. ASSUME NEW s \in Session, SignOut(s) \/ LockMessenger(s) PROVE StreamsOK'
    <3>1. locked' \in [Client -> Session \cup {None}]
      BY <2>1 DEF TypeOK, StreamsOK, SignOut, LockMessenger, chans
    <3>2. UNCHANGED << mutex, messengers, connection, channels, chan, buf, client, mine, run, todo, shutdown, orphans >>
      BY <2>1 DEF SignOut, LockMessenger, chans, streams, runner
    <3> QED BY <3>1, <3>2 DEF TypeOK, StreamsOK
  <2>2. ASSUME NEW s \in Session, SendEach(s) PROVE StreamsOK'
    <3>1. s \in Message
      BY DEF Message
    <3> QED BY <2>2, <3>1 DEF TypeOK, StreamsOK, SendEach, streams, runner
  <2>3. ASSUME NEW p \in Poster, Post(p) PROVE StreamsOK'
    BY <2>3 DEF TypeOK, StreamsOK, Post, chans, streams, runner
  <2>4. ASSUME NEW p \in Poster, PostDelivers(p) PROVE StreamsOK'
    BY <2>4, DeliverType DEF TypeOK, StreamsOK, PostDelivers, Sender, Message, streams, runner
  <2> QED BY <2>1, <2>2, <2>3, <2>4 DEF Blocking
<1>2. SendersOK'
  <2> USE DEF TypeOK
  <2>1. ASSUME NEW s \in Session, SignOut(s) PROVE SendersOK'
    <3> s \in Sender /\ UidOf[s] \in Uid
      BY UidOfType DEF Sender
    <3> QED BY <2>1 DEF StreamsOK, SendersOK, SignOut, Find
  <2>2. ASSUME NEW s \in Session, LockMessenger(s) PROVE SendersOK'
    <3>0. s \in Sender /\ sender[s] = "send"
      BY <2>2 DEF LockMessenger, Sender
    <3>4. to[s] \in Client
      BY <3>0 DEF SendersOK
    <3>1. s \in Sender /\ to[s] \in Client /\ channels[to[s]] \in Seq(Client)
      BY <3>0, <3>4 DEF StreamsOK
    <3>2. CASE channels[to[s]] = << >>
      <4>1. /\ sender' = [sender EXCEPT ![s] = "done"] /\ to' = [to EXCEPT ![s] = None]
            /\ UNCHANGED rest
        BY <2>2, <3>2 DEF LockMessenger
      <4>2. \A t \in Session : sender'[t] = "each" <=> rest'[t] # << >>
        BY <3>0, <4>1 DEF SendersOK, Sender
      <4> QED BY <3>0, <4>1, <4>2 DEF SendersOK
    <3>3. CASE channels[to[s]] # << >>
      <4>1. /\ rest' = [rest EXCEPT ![s] = channels[to[s]]]
            /\ sender' = [sender EXCEPT ![s] = "each"] /\ UNCHANGED to
        BY <2>2, <3>3 DEF LockMessenger
      <4> HIDE DEF TypeOK
      <4> QED BY <2>2, <3>1, <3>3, <4>1 DEF TypeOK, SendersOK, LockMessenger
    <3> QED BY <3>2, <3>3
  <2>3. ASSUME NEW s \in Session, SendEach(s) PROVE SendersOK'
    <3>1. s \in Sender /\ rest[s] # << >> /\ Tail(rest[s]) \in Seq(Client)
      BY <2>3, HeadAndTail DEF SendersOK, SendEach, Sender
    <3>2. rest' = [rest EXCEPT ![s] = Tail(rest[s])] /\ rest' \in [Session -> Seq(Client)]
      BY <2>3, <3>1 DEF SendEach, SendersOK
    <3>3. rest'[s] = Tail(rest[s])
      BY <3>2 DEF SendersOK
    <3>4. CASE Tail(rest[s]) = << >>
      <4>1. sender' = [sender EXCEPT ![s] = "done"] /\ to' = [to EXCEPT ![s] = None]
        BY <2>3, <3>3, <3>4 DEF SendEach
      <4> QED BY <3>1, <3>2, <3>4, <4>1 DEF SendersOK
    <3>5. CASE Tail(rest[s]) # << >>
      <4>1. sender[s] = "each" /\ UNCHANGED << sender, to >>
        BY <2>3, <3>3, <3>5 DEF SendEach
      <4> QED BY <3>1, <3>2, <3>5, <4>1 DEF SendersOK
    <3> QED BY <3>4, <3>5
  <2>4. ASSUME NEW p \in Poster, Post(p) \/ PostDelivers(p) PROVE SendersOK'
    <3> p \in Sender /\ p \notin Session
      BY ConstantsAssumption DEF Sender, ConstantsAssumption
    <3>1. PICK m \in Client \cup {None} :
            /\ to' = [to EXCEPT ![p] = m] /\ UNCHANGED rest
            /\ sender' = [sender EXCEPT ![p] = IF m = None THEN "idle" ELSE "send"]
      BY <2>4 DEF StreamsOK, Post, Find, PostDelivers, Deliver
    <3> QED BY <3>1, AimType
  <2> QED BY <2>1, <2>2, <2>3, <2>4 DEF Blocking
<1> QED BY <1>1, <1>2 DEF TypeOK

LEMMA RunType ==
  ASSUME TypeOK, Run
  PROVE  TypeOK'
<1> USE DEF TypeOK
<1>1. SendersOK'
  <2>1. CASE Tick \/ Wake \/ Stopwatches \/ TickEnds \/ RunStops \/ CloseMessenger \/ Closed
    <3>1. UNCHANGED senders
      BY <2>1 DEF Tick, Wake, Stopwatches, TickEnds, RunStops, CloseMessenger, Closed
    <3> QED BY <3>1 DEF SendersOK, senders
  <2>2. CASE RunFinds \/ RunDelivers
    <3> "run" \in Sender /\ "run" \notin Session
      BY ConstantsAssumption DEF Sender, ConstantsAssumption
    <3>1. PICK m \in Client \cup {None} :
            /\ to' = [to EXCEPT !["run"] = m] /\ UNCHANGED rest
            /\ sender' = [sender EXCEPT !["run"] = IF m = None THEN "idle" ELSE "send"]
      BY <2>2 DEF StreamsOK, RunFinds, RunDelivers, Find, Deliver
    <3> QED BY <3>1, AimType
  <2> QED BY <2>1, <2>2, Run DEF Run
<1>2. StreamsOK'
  <2>1. CASE Tick \/ Wake \/ Stopwatches \/ TickEnds
    BY <2>1 DEF StreamsOK, Tick, Wake, Stopwatches, TickEnds, chans, streams
  <2>2. CASE RunFinds
    BY <2>2 DEF StreamsOK, RunFinds, chans, streams
  <2>3. CASE RunDelivers
    BY <2>3, DeliverType DEF StreamsOK, RunDelivers, Sender, Message, streams, runner
  <2>4. CASE RunStops
    BY <2>4 DEF StreamsOK, RunStops, chans, streams
  <2>5. CASE CloseMessenger
    <3>1. PICK m : /\ chan' = [c \in Client |-> IF c \in ToSet(channels[m]) THEN "closed" ELSE chan[c]]
                   /\ channels' = [channels EXCEPT ![m] = << >>]
                   /\ \E u \in todo : todo' = todo \ {u}
                   /\ orphans' = orphans \cup Registering(m)
      BY <2>5 DEF CloseMessenger
    <3>2. /\ chan' \in [Client -> {"none", "open", "closed"}]
          /\ todo' \subseteq Uid
          /\ orphans' \subseteq Client
      BY <3>1 DEF StreamsOK, Registering
    <3>3. channels' \in [Client -> Seq(Client)]
      <4>1. << >> \in Seq(Client)
        OBVIOUS
      <4> QED BY <3>1, <4>1 DEF StreamsOK
    <3> QED BY <2>5, <3>2, <3>3 DEF StreamsOK, CloseMessenger, streams
  <2>6. CASE Closed
    BY <2>6 DEF StreamsOK, Closed, chans, streams
  <2> QED BY <2>1, <2>2, <2>3, <2>4, <2>5, <2>6, Run DEF Run
<1> QED BY <1>1, <1>2

LEMMA NextType ==
  ASSUME TypeOK, ChannelsOpen, [Next]_vars
  PROVE  TypeOK'
<1>1. ASSUME NEW c \in Client, RegisterManager(c) \/ HangUp(c) \/ Stream(c) PROVE TypeOK'
  <2>1. StreamsOK'
    BY <1>1, StreamType, LeaverType DEF Stream, TypeOK
  <2>2. UNCHANGED senders
    BY <1>1 DEF Stream, RegisterManager, RegisterMessenger, HangUp, Read, SeesClosed, SeesShutdown,
                UnregisterLock, UnregisterRemove, Drain
  <2> QED BY <2>1, <2>2 DEF TypeOK, SendersOK, senders
<1>2. CASE Run
  BY <1>2, RunType
<1>3. CASE Shutdown \/ UNCHANGED vars
  <2>1. StreamsOK'
    BY <1>3 DEF TypeOK, StreamsOK, Shutdown, vars, chans, streams, runner
  <2>2. UNCHANGED senders
    BY <1>3 DEF Shutdown, vars
  <2> QED BY <2>1, <2>2 DEF TypeOK, SendersOK, senders
<1> QED BY <1>1, <1>2, <1>3, SendType, [Next]_vars DEF Next

(***************************************************************************)
(* The inductive invariant about messengers and channels.                  *)
(***************************************************************************)
(* Who keeps a mutex: the manager's, so that the messengers it is about    *)
(* stay in the map; a messenger's, so that its channels stay.              *)
Owns ==
  /\ \A c \in Client : client[c] = "remove" => messengers[UidOf[c]] # None
  /\ run = "close" => \A u \in todo : messengers[u] # None
  /\ \A s \in Session : sender[s] = "each" => locked[to[s]] = s

(* A stream that listens on an open channel is one of its messenger's.     *)
Listed ==
  \A c \in Client : client[c] = "listen" /\ chan[c] = "open" => c \in ToSet(channels[mine[c]])

(* A stream that is about to be listed, or is, finds its messenger in the  *)
(* map, or is an orphan.                                                   *)
Depends(c) == client[c] = "append" \/ (client[c] # "new" /\ c \in ToSet(channels[mine[c]]))
Linked ==
  \A c \in Client : Depends(c) => messengers[UidOf[c]] = mine[c] \/ c \in orphans

(* Who has an open channel.                                                *)
Opened ==
  \A c \in Client : chan[c] = "open" => client[c] \in {"listen", "unregister", "remove", "drain"}

(* UnregisterAll leaves nobody behind in the messengers it has closed but   *)
(* the orphans.                                                            *)
Swept ==
  run = "close" => \A c \in Client : Depends(c) /\ UidOf[c] \notin todo => c \in orphans

SourceInv == TypeOK /\ Owns /\ ChannelsOpen /\ Listed /\ Linked /\ Opened /\ Swept

LEMMA InitSource == Init => SourceInv
<1>1. Init => TypeOK
  BY InitType
<1>2. Init => Owns /\ ChannelsOpen /\ Listed /\ Linked /\ Opened /\ Swept
  BY NobodyListed DEF Init, Owns, ChannelsOpen, Listed, Linked, Depends, Opened, Swept, Sender
<1> QED BY <1>1, <1>2 DEF SourceInv

(* What a blocking sender has.                                             *)
LEMMA EachHas ==
  ASSUME SourceInv, NEW s \in Session, sender[s] = "each"
  PROVE  /\ s \in Sender /\ s # None
         /\ to[s] \in Client /\ locked[to[s]] = s
         /\ rest[s] \in Seq(Client) /\ rest[s] # << >>
         /\ ToSet(rest[s]) \subseteq ToSet(channels[to[s]])
<1>1. s \in Sender /\ s # None
  BY ConstantsAssumption DEF Sender, ConstantsAssumption
<1>2. to[s] \in Client /\ rest[s] \in Seq(Client) /\ rest[s] # << >>
  BY <1>1 DEF SourceInv, TypeOK, SendersOK
<1> QED BY <1>1, <1>2 DEF SourceInv, Owns, ChannelsOpen

LEMMA RegisterManagerStep ==
  ASSUME SourceInv, NEW c \in Client, RegisterManager(c)
  PROVE  (Owns /\ ChannelsOpen /\ Listed /\ Linked /\ Opened)'
<1> DEFINE u == UidOf[c]
           m == IF messengers[u] = None THEN c ELSE messengers[u]
<1>1. u \in Uid /\ m \in Client
  BY UidOfType DEF SourceInv, TypeOK, StreamsOK, SendersOK
<1>2. /\ client[c] = "new" /\ mutex = None
      /\ messengers' = [messengers EXCEPT ![u] = m]
      /\ mine' = [mine EXCEPT ![c] = m]
      /\ client' = [client EXCEPT ![c] = "append"]
      /\ UNCHANGED << chans, senders, runner, orphans >>
  BY DEF RegisterManager, Goto
<1>3. messengers[u] = None \/ messengers[u] = m
  OBVIOUS
<1> HIDE DEF u, m
<1>4. Owns'
  BY <1>1, <1>2 DEF SourceInv, TypeOK, StreamsOK, SendersOK, Owns, chans, senders, runner
<1>5. ChannelsOpen'
  BY <1>1, <1>2 DEF SourceInv, TypeOK, StreamsOK, SendersOK, ChannelsOpen, chans, senders
<1>6. Listed' /\ Opened'
  BY <1>1, <1>2 DEF SourceInv, TypeOK, StreamsOK, SendersOK, Listed, Opened, chans
<1>7. Linked'
  <2> SUFFICES ASSUME NEW d \in Client, Depends(d)' PROVE (messengers[UidOf[d]] = mine[d] \/ d \in orphans)'
    BY DEF Linked
  <2>1. CASE d = c
    BY <2>1, <1>1, <1>2 DEF SourceInv, TypeOK, StreamsOK, SendersOK, u
  <2>2. CASE d # c
    <3>1. Depends(d) /\ mine[d] # None /\ mine'[d] = mine[d] /\ UidOf[d] \in Uid
      BY <2>2, <1>2, UidOfType DEF SourceInv, TypeOK, StreamsOK, SendersOK, Depends, chans
    <3> QED BY <3>1, <1>1, <1>2, <1>3 DEF SourceInv, TypeOK, StreamsOK, SendersOK, Linked
  <2> QED BY <2>1, <2>2
<1> QED BY <1>4, <1>5, <1>6, <1>7

LEMMA RegisterMessengerStep ==
  ASSUME SourceInv, NEW c \in Client, RegisterMessenger(c)
  PROVE  (Owns /\ ChannelsOpen /\ Listed /\ Linked /\ Opened)'
<1>1. /\ client[c] = "append" /\ locked[mine[c]] = None
      /\ channels' = [channels EXCEPT ![mine[c]] = Append(@, c)]
      /\ chan' = [chan EXCEPT ![c] = "open"]
      /\ client' = [client EXCEPT ![c] = "listen"]
      /\ UNCHANGED << messengers, locked, mine, sender, to, rest, run, todo, orphans >>
  BY DEF RegisterMessenger, Goto, senders, runner
<1>2. mine[c] \in Client /\ channels[mine[c]] \in Seq(Client)
  BY <1>1 DEF SourceInv, TypeOK, StreamsOK
<1>7. c \notin ToSet(channels[mine[c]])
  BY <1>1, <1>2 DEF SourceInv, ChannelsOpen, Opened
<1>8. /\ ToSet(channels'[mine[c]]) = ToSet(channels[mine[c]]) \cup {c}
      /\ Distinct(channels'[mine[c]])
      /\ \A n \in Client \ {mine[c]} : channels'[n] = channels[n]
  <2>1. channels'[mine[c]] = Append(channels[mine[c]], c)
    BY <1>1, <1>2 DEF SourceInv, TypeOK, StreamsOK
  <2>2. Distinct(channels[mine[c]])
    BY <1>2 DEF SourceInv, ChannelsOpen
  <2>3. \A n \in Client \ {mine[c]} : channels'[n] = channels[n]
    BY <1>1, <1>2 DEF SourceInv, TypeOK, StreamsOK
  <2> QED BY <1>2, <1>7, <2>1, <2>2, <2>3, Appended
<1>9. \A n \in Client : ToSet(channels'[n]) = IF n = mine[c] THEN ToSet(channels[n]) \cup {c} ELSE ToSet(channels[n])
  BY <1>8
<1>3. Owns'
  BY <1>1 DEF SourceInv, TypeOK, StreamsOK, Owns
<1>4. ChannelsOpen'
  <2>1. ASSUME NEW s \in Session, sender[s] = "each" PROVE (ToSet(rest[s]) \subseteq ToSet(channels[to[s]]))'
    <3>1. ToSet(rest[s]) \subseteq ToSet(channels[to[s]]) /\ to[s] \in Client
      BY <2>1, EachHas
    <3>2. ToSet(channels[to[s]]) \subseteq ToSet(channels'[to[s]])
      BY <3>1, <1>9
    <3> QED BY <3>1, <3>2, <1>1
  <2>2. ASSUME NEW m \in Client, NEW d \in ToSet(channels'[m]) PROVE chan'[d] = "open" /\ mine'[d] = m
    <3>1. (d = c /\ m = mine[c]) \/ d \in ToSet(channels[m])
      BY <2>2, <1>9
    <3>2. d \in ToSet(channels[m]) => chan[d] = "open" /\ mine[d] = m
      BY DEF SourceInv, ChannelsOpen
    <3> QED BY <3>1, <3>2, <1>1 DEF SourceInv, TypeOK, StreamsOK
  <2>3. ASSUME NEW m \in Client PROVE Distinct(channels'[m])
    BY <1>8 DEF SourceInv, ChannelsOpen
  <2> QED BY <2>1, <2>2, <2>3, <1>1 DEF ChannelsOpen
<1>5. Listed' /\ Opened'
  <2>1. ASSUME NEW d \in Client, client'[d] = "listen", chan'[d] = "open" PROVE d \in ToSet(channels'[mine'[d]])
    BY <2>1, <1>1, <1>2, <1>9 DEF SourceInv, TypeOK, StreamsOK, Listed
  <2>2. Opened'
    BY <1>1 DEF SourceInv, TypeOK, StreamsOK, Opened
  <2> QED BY <2>1, <2>2 DEF Listed
<1>6. Linked'
  <2> SUFFICES ASSUME NEW d \in Client, Depends(d)' PROVE messengers[UidOf[d]] = mine[d] \/ d \in orphans
    BY <1>1 DEF Linked
  <2>1. CASE d = c
    BY <2>1, <1>1 DEF SourceInv, Linked, Depends
  <2>2. CASE d # c
    <3>1. client'[d] = client[d] /\ mine'[d] = mine[d] /\ (client[d] # "new" => mine[d] \in Client)
      BY <2>2, <1>1 DEF SourceInv, TypeOK, StreamsOK
    <3>2. Depends(d)
      BY <2>2, <3>1, <1>9 DEF Depends
    <3> QED BY <3>2 DEF SourceInv, Linked
  <2> QED BY <2>1, <2>2
<1> QED BY <1>3, <1>4, <1>5, <1>6

(* What a stream does without touching a messenger. *)
LEMMA StreamStep ==
  ASSUME SourceInv, NEW c \in Client,
         HangUp(c) \/ SeesShutdown(c) \/ Read(c) \/ SeesClosed(c) \/ UnregisterLock(c) \/ Drain(c)
  PROVE  (Owns /\ ChannelsOpen /\ Listed /\ Linked /\ Opened)'
<1>1. /\ UNCHANGED << messengers, channels, locked, chan, mine, senders, runner, orphans >>
      /\ client[c] \in {"listen", "unregister", "drain"}
  BY DEF HangUp, SeesShutdown, Read, SeesClosed, UnregisterLock, Drain, chans
<1>2. PICK pc \in {"listen", "unregister", "drain", "gone", "remove"} :
        /\ client' = [client EXCEPT ![c] = pc]
        /\ pc = "remove" => messengers[UidOf[c]] # None
        /\ pc = "listen" => client[c] = "listen"
        /\ pc = "gone" => chan[c] = "closed"
  <2>1. CASE HangUp(c) \/ SeesShutdown(c) \/ SeesClosed(c)
    BY <2>1 DEF HangUp, SeesShutdown, SeesClosed, Goto
  <2>2. CASE Read(c)
    BY <2>2 DEF Read, Goto
  <2>3. CASE UnregisterLock(c)
    BY <2>3 DEF UnregisterLock, Goto
  <2>4. CASE Drain(c)
    <3>1. client[c] = "drain" /\ client \in [Client -> {"new", "append", "listen", "unregister", "remove", "drain", "gone"}]
      BY <2>4 DEF Drain, SourceInv, TypeOK, StreamsOK, SendersOK
    <3>2. \/ client' = [client EXCEPT ![c] = "drain"]
          \/ client' = [client EXCEPT ![c] = "gone"] /\ chan[c] = "closed"
      BY <2>4, <3>1 DEF Drain, Goto
    <3> QED BY <3>2
  <2> QED BY <2>1, <2>2, <2>3, <2>4
<1>3. Owns'
  BY <1>1, <1>2 DEF SourceInv, TypeOK, StreamsOK, SendersOK, Owns, senders, runner
<1>4. ChannelsOpen'
  BY <1>1 DEF SourceInv, ChannelsOpen, senders
<1>5. Listed' /\ Opened'
  BY <1>1, <1>2 DEF SourceInv, TypeOK, StreamsOK, Listed, Opened
<1>6. Linked'
  BY <1>1, <1>2 DEF SourceInv, TypeOK, StreamsOK, SendersOK, Linked, Depends
<1> QED BY <1>3, <1>4, <1>5, <1>6

LEMMA UnregisterRemoveStep ==
  ASSUME SourceInv, NEW c \in Client, UnregisterRemove(c)
  PROVE  (Owns /\ ChannelsOpen /\ Listed /\ Linked /\ Opened)'
<1> DEFINE u == UidOf[c]
           m == messengers[u]
<1>1. /\ client[c] = "remove" /\ locked[m] = None
      /\ channels' = [channels EXCEPT ![m] = RemoveFirst(@, c)]
      /\ chan' = IF c \in ToSet(channels[m]) THEN [chan EXCEPT ![c] = "closed"] ELSE chan
      /\ client' = [client EXCEPT ![c] = "drain"]
      /\ UNCHANGED << locked, mine, sender, to, rest, run, todo >>
  BY DEF UnregisterRemove, Goto, senders, runner
<1>2. \/ channels'[m] = << >> /\ messengers' = [messengers EXCEPT ![u] = None]
                            /\ orphans' = orphans \cup Registering(m)
      \/ UNCHANGED << messengers, orphans >>
  BY DEF UnregisterRemove
<1>3. u \in Uid /\ m \in Client
  BY <1>1, UidOfType DEF SourceInv, TypeOK, StreamsOK, SendersOK, Owns
<1>9. /\ \A n \in Client : ToSet(channels'[n]) = IF n = m THEN ToSet(channels[n]) \ {c} ELSE ToSet(channels[n])
      /\ \A n \in Client : Distinct(channels'[n])
  <2>1. channels'[m] = RemoveFirst(channels[m], c) /\ \A n \in Client \ {m} : channels'[n] = channels[n]
    BY <1>1, <1>3 DEF SourceInv, TypeOK, StreamsOK
  <2>2. channels[m] \in Seq(Client) /\ \A n \in Client : Distinct(channels[n])
    BY <1>3 DEF SourceInv, TypeOK, StreamsOK, ChannelsOpen
  <2>3. Distinct(RemoveFirst(channels[m], c)) /\ ToSet(RemoveFirst(channels[m], c)) = ToSet(channels[m]) \ {c}
    BY <1>3, <2>2, Removed
  <2> HIDE DEF u, m
  <2> QED BY <2>1, <2>2, <2>3
<1>4. mutex = c /\ mutex # "run" /\ run # "close" /\ \A d \in Client \ {c} : client[d] # "remove"
  BY <1>1 DEF SourceInv, TypeOK, StreamsOK, SendersOK
<1> HIDE DEF u, m
<1>5. Owns'
  BY <1>1, <1>2, <1>4 DEF SourceInv, TypeOK, StreamsOK, SendersOK, Owns
<1>6. ChannelsOpen'
  <2>1. ASSUME NEW s \in Session, sender[s] = "each" PROVE (ToSet(rest[s]) \subseteq ToSet(channels[to[s]]))'
    <3>1. /\ ToSet(rest[s]) \subseteq ToSet(channels[to[s]]) /\ to[s] \in Client
          /\ locked[to[s]] = s /\ s # None
      BY <2>1, EachHas
    <3> QED BY <3>1, <1>1, <1>3, <1>9
  <2>2. ASSUME NEW n \in Client, NEW d \in ToSet(channels'[n]) PROVE chan'[d] = "open" /\ mine'[d] = n
    <3>1. d \in ToSet(channels[n]) /\ chan[d] = "open" /\ mine[d] = n
      BY <2>2, <1>9 DEF SourceInv, ChannelsOpen
    <3>2. c \in ToSet(channels[m]) => d # c
      <4>1. c \in ToSet(channels[m]) => mine[c] = m
        BY <1>3 DEF SourceInv, ChannelsOpen
      <4> QED BY <4>1, <2>2, <3>1, <1>9, <1>3
    <3> QED BY <3>1, <3>2, <1>1 DEF SourceInv, TypeOK, StreamsOK, SendersOK
  <2> QED BY <2>1, <2>2, <1>1, <1>9 DEF ChannelsOpen
<1>10. Opened'
  BY <1>1 DEF SourceInv, TypeOK, StreamsOK, Opened
<1>7. Listed'
  <2> SUFFICES ASSUME NEW d \in Client, client'[d] = "listen", chan'[d] = "open" PROVE d \in ToSet(channels'[mine'[d]])
    BY DEF Listed
  <2>1. d # c /\ client[d] = "listen" /\ chan[d] = "open"
    BY <1>1 DEF SourceInv, TypeOK, StreamsOK, SendersOK
  <2>2. d \in ToSet(channels[mine[d]]) /\ mine[d] \in Client
    BY <2>1 DEF SourceInv, TypeOK, StreamsOK, SendersOK, Listed
  <2>3. mine'[d] = mine[d]
    BY <1>1
  <2>4. d \in ToSet(channels'[mine[d]])
    BY <2>1, <2>2, <1>9
  <2> QED BY <2>3, <2>4
<1>8. Linked'
  <2> SUFFICES ASSUME NEW d \in Client, Depends(d)' PROVE (messengers[UidOf[d]] = mine[d] \/ d \in orphans)'
    BY DEF Linked
  <2>1. mine[d] \in Client /\ UidOf[d] \in Uid /\ mine'[d] = mine[d]
    BY <1>1, UidOfType DEF SourceInv, TypeOK, StreamsOK, SendersOK, Depends
  <2>2. /\ client[d] = "append" \/ (client[d] # "new" /\ d \in ToSet(channels[mine[d]]))
        /\ client[d] = "append" \/ d \in ToSet(channels'[mine[d]])
    BY <2>1, <1>1, <1>3, <1>9 DEF SourceInv, TypeOK, StreamsOK, Depends
  <2>3. messengers[UidOf[d]] = mine[d] \/ d \in orphans
    BY <2>2 DEF SourceInv, Linked, Depends
  <2>4. CASE UNCHANGED << messengers, orphans >>
    BY <2>1, <2>3, <2>4
  <2>5. CASE /\ channels'[m] = << >> /\ messengers' = [messengers EXCEPT ![u] = None]
             /\ orphans' = orphans \cup Registering(m)
    <3>1. CASE d \in orphans
      BY <3>1, <2>5
    <3>2. CASE messengers[UidOf[d]] = mine[d] /\ UidOf[d] # u
      BY <3>2, <2>1, <2>5 DEF SourceInv, TypeOK, StreamsOK, SendersOK
    <3>3. CASE messengers[UidOf[d]] = mine[d] /\ UidOf[d] = u
      <4>1. mine[d] = m
        BY <3>3 DEF m
      <4>2. client[d] = "append"
        BY <4>1, <2>2, <2>5, NobodyListed
      <4>3. d \in Registering(m)
        BY <4>1, <4>2 DEF Registering
      <4> QED BY <4>2, <4>3, <2>5
    <3> QED BY <3>1, <3>2, <3>3, <2>3
  <2> QED BY <2>4, <2>5, <1>2
<1> QED BY <1>5, <1>6, <1>7, <1>8, <1>10

(* The sends touch no channel but its message, and a messenger's mutex.    *)
LEMMA SendStep ==
  ASSUME SourceInv,
         \/ \E s \in Session : SignOut(s) \/ Blocking(s)
         \/ \E p \in Poster : Post(p) \/ PostDelivers(p)
  PROVE  (Owns /\ ChannelsOpen /\ Listed /\ Linked /\ Opened)'
<1>1. UNCHANGED << messengers, channels, chan, client, mine, run, todo, orphans >>
  BY DEF SignOut, Blocking, LockMessenger, SendEach, Post, PostDelivers, Deliver, chans, streams, runner
<1>2. Listed' /\ Linked' /\ Opened'
  BY <1>1 DEF SourceInv, Listed, Linked, Depends, Opened
<1>3. ASSUME NEW s \in Session, SignOut(s) PROVE (Owns /\ ChannelsOpen)'
  <2>1. /\ sender' = [sender EXCEPT ![s] = IF messengers[UidOf[s]] = None THEN "done" ELSE "send"]
        /\ to' = [to EXCEPT ![s] = messengers[UidOf[s]]]
        /\ UNCHANGED << locked, rest >>
    BY <1>3 DEF SignOut, Find, chans
  <2> QED BY <2>1, <1>1 DEF SourceInv, TypeOK, StreamsOK, SendersOK, Sender, Owns, ChannelsOpen
<1>4. ASSUME NEW s \in Session, LockMessenger(s) PROVE (Owns /\ ChannelsOpen)'
  <2>1. s \in Sender /\ to[s] \in Client /\ locked[to[s]] = None
    <3>1. s \in Sender /\ sender[s] = "send" /\ locked[to[s]] = None
      BY <1>4 DEF LockMessenger, Sender
    <3> QED BY <3>1 DEF SourceInv, TypeOK, SendersOK
  <2>2. CASE channels[to[s]] = << >>
    <3>1. /\ sender' = [sender EXCEPT ![s] = "done"] /\ to' = [to EXCEPT ![s] = None]
          /\ UNCHANGED << locked, rest >>
      BY <1>4, <2>2 DEF LockMessenger
    <3> QED BY <2>1, <3>1, <1>1 DEF SourceInv, TypeOK, StreamsOK, SendersOK, Sender, Owns, ChannelsOpen
  <2>3. CASE channels[to[s]] # << >>
    <3>1. /\ sender' = [sender EXCEPT ![s] = "each"] /\ UNCHANGED to
          /\ locked' = [locked EXCEPT ![to[s]] = s]
          /\ rest' = [rest EXCEPT ![s] = channels[to[s]]]
      BY <1>4, <2>3 DEF LockMessenger
    <3>2. ASSUME NEW t \in Session \ {s}, sender[t] = "each" PROVE to[t] # to[s]
      BY <3>2, <2>1, ConstantsAssumption DEF SourceInv, Owns, ConstantsAssumption, Sender
    <3> QED BY <2>1, <3>1, <3>2, <1>1 DEF SourceInv, TypeOK, StreamsOK, SendersOK, Sender, Owns, ChannelsOpen
  <2> QED BY <2>2, <2>3
<1>5. ASSUME NEW s \in Session, SendEach(s) PROVE (Owns /\ ChannelsOpen)'
  <2>1. sender[s] = "each" /\ s \in Sender
    BY <1>5 DEF SendEach, Sender
  <2>2. /\ rest' = [rest EXCEPT ![s] = Tail(rest[s])]
        /\ \/ /\ locked' = [locked EXCEPT ![to[s]] = None]
              /\ sender' = [sender EXCEPT ![s] = "done"]
              /\ to' = [to EXCEPT ![s] = None]
           \/ UNCHANGED << locked, sender, to >>
    BY <1>5 DEF SendEach
  <2>4. ToSet(rest'[s]) \subseteq ToSet(rest[s])
    <3>1. rest[s] \in Seq(Client) /\ rest[s] # << >> /\ rest'[s] = Tail(rest[s])
      BY <2>1, <2>2 DEF SourceInv, TypeOK, SendersOK
    <3> QED BY <3>1, HeadAndTail
  <2>3. ASSUME NEW t \in Session \ {s}, sender[t] = "each" PROVE to[t] # to[s]
    BY <2>1, <2>3 DEF SourceInv, Owns
  <2>5. Owns'
    BY <2>1, <2>2, <2>3, <1>1 DEF SourceInv, TypeOK, StreamsOK, SendersOK, Sender, Owns
  <2>6. ASSUME NEW t \in Session, sender'[t] = "each" PROVE ToSet(rest'[t]) \subseteq ToSet(channels[to'[t]])
    <3>1. sender[t] = "each" /\ to'[t] = to[t]
      BY <2>1, <2>2, <2>6 DEF SourceInv, TypeOK, SendersOK, Sender
    <3>2. ToSet(rest[t]) \subseteq ToSet(channels[to[t]])
      BY <3>1 DEF SourceInv, ChannelsOpen
    <3>3. t # s => rest'[t] = rest[t]
      BY <2>2 DEF SourceInv, TypeOK, SendersOK
    <3> QED BY <3>1, <3>2, <3>3, <2>4
  <2> QED BY <2>5, <2>6, <1>1 DEF SourceInv, ChannelsOpen
<1>6. ASSUME NEW p \in Poster, Post(p) \/ PostDelivers(p) PROVE (Owns /\ ChannelsOpen)'
  <2>1. \A s \in Session : s # p
    BY ConstantsAssumption DEF ConstantsAssumption
  <2>2. \A s \in Session : sender'[s] = sender[s] /\ to'[s] = to[s]
    BY <1>6, <2>1 DEF Post, Find, PostDelivers, Deliver, SourceInv, TypeOK, StreamsOK, SendersOK, Sender
  <2>3. UNCHANGED << locked, rest >>
    BY <1>6 DEF Post, PostDelivers, Deliver, chans
  <2> QED BY <2>2, <2>3, <1>1 DEF SourceInv, Owns, ChannelsOpen
<1> QED BY <1>2, <1>3, <1>4, <1>5, <1>6 DEF Blocking

LEMMA CloseMessengerStep ==
  ASSUME SourceInv, CloseMessenger
  PROVE  (Owns /\ ChannelsOpen /\ Listed /\ Linked /\ Opened)'
<1>1. PICK u \in todo :
        /\ locked[messengers[u]] = None
        /\ chan' = [c \in Client |-> IF c \in ToSet(channels[messengers[u]]) THEN "closed" ELSE chan[c]]
        /\ channels' = [channels EXCEPT ![messengers[u]] = << >>]
        /\ todo' = todo \ {u}
        /\ orphans' = orphans \cup Registering(messengers[u])
  BY DEF CloseMessenger
<1>2. run = "close" /\ UNCHANGED << messengers, locked, client, mine, sender, to, rest, run >>
  BY DEF CloseMessenger, streams, senders
<1>3. u \in Uid /\ messengers[u] \in Client
  BY <1>2 DEF SourceInv, TypeOK, StreamsOK, SendersOK, Owns
<1>8. /\ \A n \in Client : ToSet(channels'[n]) = IF n = messengers[u] THEN {} ELSE ToSet(channels[n])
      /\ \A n \in Client : Distinct(channels'[n])
  <2>1. channels'[messengers[u]] = << >> /\ \A n \in Client \ {messengers[u]} : channels'[n] = channels[n]
    BY <1>1, <1>3 DEF SourceInv, TypeOK, StreamsOK
  <2> QED BY <2>1, NobodyListed DEF SourceInv, ChannelsOpen
<1>4. Owns'
  BY <1>1, <1>2 DEF SourceInv, Owns
<1>5. ChannelsOpen'
  <2>1. ASSUME NEW s \in Session, sender[s] = "each" PROVE (ToSet(rest[s]) \subseteq ToSet(channels[to[s]]))'
    <3>1. /\ ToSet(rest[s]) \subseteq ToSet(channels[to[s]]) /\ to[s] \in Client
          /\ locked[to[s]] = s /\ s # None
      BY <2>1, EachHas
    <3>2. to[s] # messengers[u]
      BY <3>1, <1>1
    <3> QED BY <3>1, <3>2, <1>2, <1>8
  <2>2. ASSUME NEW n \in Client, NEW d \in ToSet(channels'[n]) PROVE chan'[d] = "open" /\ mine'[d] = n
    <3>1. n # messengers[u] /\ d \in ToSet(channels[n]) /\ chan[d] = "open" /\ mine[d] = n
      BY <2>2, <1>8 DEF SourceInv, ChannelsOpen
    <3>2. d \notin ToSet(channels[messengers[u]])
      BY <3>1, <1>3 DEF SourceInv, ChannelsOpen
    <3>3. d \in Client
      BY <3>1, SeqMembers DEF SourceInv, TypeOK, StreamsOK
    <3> QED BY <3>1, <3>2, <3>3, <1>1, <1>2
  <2> QED BY <2>1, <2>2, <1>2, <1>8 DEF ChannelsOpen
<1>9. Opened'
  BY <1>1, <1>2 DEF SourceInv, TypeOK, StreamsOK, Opened
<1>6. Listed'
  <2> SUFFICES ASSUME NEW d \in Client, client'[d] = "listen", chan'[d] = "open" PROVE d \in ToSet(channels'[mine'[d]])
    BY DEF Listed
  <2>1. client[d] = "listen" /\ chan[d] = "open" /\ d \notin ToSet(channels[messengers[u]])
    BY <1>1, <1>2 DEF SourceInv, TypeOK, StreamsOK, SendersOK
  <2>2. d \in ToSet(channels[mine[d]]) /\ mine[d] \in Client
    BY <2>1 DEF SourceInv, TypeOK, StreamsOK, SendersOK, Listed
  <2> QED BY <2>1, <2>2, <1>2, <1>8
<1>7. Linked'
  <2> SUFFICES ASSUME NEW d \in Client, Depends(d)' PROVE messengers[UidOf[d]] = mine[d] \/ d \in orphans
    BY <1>1, <1>2 DEF Linked
  <2>1. Depends(d)
    BY <1>2, <1>8 DEF SourceInv, TypeOK, StreamsOK, Depends
  <2> QED BY <2>1 DEF SourceInv, Linked
<1> QED BY <1>4, <1>5, <1>6, <1>7, <1>9

LEMMA ClosedStep ==
  ASSUME SourceInv, Closed
  PROVE  (Owns /\ ChannelsOpen /\ Listed /\ Linked /\ Opened)'
<1>1. /\ mutex = "run" /\ todo = {} /\ run' = "done"
      /\ messengers' = [u \in Uid |-> None]
      /\ UNCHANGED << channels, locked, chan, client, mine, sender, to, rest, orphans >>
  BY DEF Closed, SourceInv, TypeOK, StreamsOK, SendersOK, chans, streams, senders
<1>2. \A c \in Client : client[c] # "remove"
  BY <1>1 DEF SourceInv, TypeOK, StreamsOK, SendersOK
<1>3. Owns'
  BY <1>1, <1>2 DEF SourceInv, Owns
<1>4. ChannelsOpen' /\ Listed' /\ Opened'
  BY <1>1 DEF SourceInv, ChannelsOpen, Listed, Opened
<1>5. Linked'
  BY <1>1 DEF SourceInv, TypeOK, StreamsOK, Linked, Swept, Depends
<1> QED BY <1>3, <1>4, <1>5

LEMMA RunStep ==
  ASSUME SourceInv, Run
  PROVE  (Owns /\ ChannelsOpen /\ Listed /\ Linked /\ Opened)'
<1>1. CASE Tick \/ Wake \/ Stopwatches \/ TickEnds
  <2>1. run' # "close" /\ UNCHANGED << messengers, chans, streams, senders, orphans >>
    BY <1>1 DEF Tick, Wake, Stopwatches, TickEnds, SourceInv, TypeOK, StreamsOK, SendersOK
  <2> QED BY <2>1 DEF SourceInv, Owns, ChannelsOpen, Listed, Linked, Opened, Depends, chans, streams, senders
<1>2. CASE RunFinds \/ RunDelivers
  <2>1. \A s \in Session : s # "run"
    BY ConstantsAssumption DEF ConstantsAssumption
  <2>2. \A s \in Session : sender'[s] = sender[s] /\ to'[s] = to[s]
    BY <1>2, <2>1 DEF RunFinds, RunDelivers, Find, Deliver, SourceInv, TypeOK, StreamsOK, SendersOK, Sender
  <2>3. /\ UNCHANGED << messengers, channels, locked, chan, rest, client, mine, orphans, run >>
        /\ todo' \subseteq todo
    BY <1>2 DEF RunFinds, RunDelivers, Deliver, chans, streams, runner
  <2> QED BY <2>2, <2>3 DEF SourceInv, Owns, ChannelsOpen, Listed, Linked, Opened, Depends
<1>3. CASE RunStops
  <2>1. /\ todo' = {u \in Uid : messengers[u] # None}
        /\ UNCHANGED << messengers, chans, streams, senders, orphans >>
    BY <1>3 DEF RunStops
  <2> QED BY <2>1 DEF SourceInv, Owns, ChannelsOpen, Listed, Linked, Opened, Depends, chans, streams, senders
<1> QED BY <1>1, <1>2, <1>3, CloseMessengerStep, ClosedStep, Run DEF Run

(* The messengers that UnregisterAll has still to close. *)
LEMMA SweptNext ==
  ASSUME SourceInv, [Next]_vars
  PROVE  Swept'
<1> SUFFICES ASSUME run' = "close", NEW d \in Client, Depends(d)', UidOf[d] \notin todo' PROVE d \in orphans'
  BY DEF Swept
<1>1. /\ UidOf[d] \in Uid
      /\ Depends(d) => mine[d] # None /\ (messengers[UidOf[d]] = mine[d] \/ d \in orphans)
  BY UidOfType DEF SourceInv, TypeOK, StreamsOK, Linked, Depends
<1>2. CASE RunStops
  BY <1>2, <1>1 DEF RunStops, chans, streams, Depends
<1>3. CASE CloseMessenger
  <2>1. PICK u \in todo :
          /\ channels' = [channels EXCEPT ![messengers[u]] = << >>]
          /\ todo' = todo \ {u}
          /\ orphans' = orphans \cup Registering(messengers[u])
    BY <1>3 DEF CloseMessenger
  <2>2. run = "close" /\ UNCHANGED << messengers, client, mine >>
    BY <1>3 DEF CloseMessenger, streams
  <2>3. u \in Uid /\ messengers[u] \in Client
    BY <2>2 DEF SourceInv, TypeOK, StreamsOK, Owns
  <2>4. \A n \in Client : ToSet(channels'[n]) = IF n = messengers[u] THEN {} ELSE ToSet(channels[n])
    BY <2>1, <2>3, NobodyListed DEF SourceInv, TypeOK, StreamsOK
  <2>5. Depends(d)
    BY <2>2, <2>4 DEF SourceInv, TypeOK, StreamsOK, Depends
  <2>6. CASE UidOf[d] = u /\ d \notin orphans
    <3>1. mine[d] = messengers[u] /\ client[d] = "append"
      BY <1>1, <2>2, <2>3, <2>4, <2>5, <2>6 DEF Depends
    <3> QED BY <2>1, <3>1 DEF Registering
  <2>7. CASE UidOf[d] # u
    BY <2>1, <2>2, <2>5, <2>7 DEF SourceInv, Swept
  <2> QED BY <2>1, <2>6, <2>7
<1>4. CASE ~RunStops /\ ~CloseMessenger
  <2>1. run = "close" /\ mutex = "run"
    <3>1. run = "close"
      BY <1>4 DEF Next, Run, Tick, Wake, RunFinds, RunDelivers, Stopwatches, TickEnds, Closed, Stream, RegisterManager,
                  RegisterMessenger, HangUp, Read, SeesClosed, SeesShutdown, UnregisterLock, UnregisterRemove, Drain,
                  SignOut, Blocking, LockMessenger, SendEach, Post, PostDelivers, Shutdown, vars, runner
    <3> QED BY <3>1 DEF SourceInv, TypeOK, StreamsOK
  <2>2. ASSUME NEW c \in Client, RegisterMessenger(c) PROVE Depends(d) /\ UNCHANGED << todo, orphans >>
    <3>1. /\ client[c] = "append" /\ mine[c] \in Client /\ channels[mine[c]] \in Seq(Client)
          /\ channels' = [channels EXCEPT ![mine[c]] = Append(channels[mine[c]], c)]
          /\ client' = [client EXCEPT ![c] = "listen"] /\ UNCHANGED << mine, todo, orphans >>
      BY <2>2 DEF RegisterMessenger, Goto, runner, SourceInv, TypeOK, StreamsOK
    <3>3. /\ channels'[mine[c]] = Append(channels[mine[c]], c)
          /\ \A n \in Client \ {mine[c]} : channels'[n] = channels[n]
      BY <3>1 DEF SourceInv, TypeOK, StreamsOK
    <3>4. ToSet(channels'[mine[c]]) = ToSet(channels[mine[c]]) \cup {c}
      BY <3>1, <3>3, Appended
    <3>2. \A n \in Client : ToSet(channels'[n]) = IF n = mine[c] THEN ToSet(channels[n]) \cup {c} ELSE ToSet(channels[n])
      BY <3>3, <3>4
    <3>5. CASE d = c
      BY <3>1, <3>5 DEF Depends
    <3>6. CASE d # c
      <4>1. client'[d] = client[d] /\ mine'[d] = mine[d] /\ (client[d] # "new" => mine[d] \in Client)
        BY <3>1, <3>6 DEF SourceInv, TypeOK, StreamsOK
      <4>2. CASE client'[d] = "append"
        BY <3>1, <4>1, <4>2 DEF Depends
      <4>3. CASE client'[d] # "append"
        <5>1. client[d] # "new" /\ d \in ToSet(channels'[mine[d]])
          BY <4>1, <4>3 DEF Depends
        <5>2. d \in ToSet(channels[mine[d]])
          BY <3>2, <3>6, <4>1, <5>1
        <5> QED BY <3>1, <5>1, <5>2 DEF Depends
      <4> QED BY <4>2, <4>3
    <3> QED BY <3>5, <3>6
  <2>3. ASSUME NEW c \in Client,
               RegisterManager(c) \/ HangUp(c) \/ Read(c) \/ SeesClosed(c) \/ SeesShutdown(c) \/ UnregisterLock(c)
                 \/ UnregisterRemove(c) \/ Drain(c)
        PROVE  Depends(d) /\ UNCHANGED << todo, orphans >>
    <3>1. mutex \notin {None, c} /\ ~RegisterManager(c) /\ ~UnregisterLock(c) /\ ~UnregisterRemove(c)
      BY <2>1, <2>3 DEF RegisterManager, UnregisterLock, UnregisterRemove, SourceInv, TypeOK, StreamsOK
    <3>2. /\ client[c] \in {"listen", "drain"} /\ \A e \in Client : client'[e] = "append" <=> client[e] = "append"
          /\ UNCHANGED << channels, mine, todo, orphans >>
      BY <2>3, <3>1 DEF HangUp, Read, SeesClosed, SeesShutdown, Drain, Goto, chans, runner, SourceInv, TypeOK, StreamsOK
    <3>3. \A e \in Client : client'[e] # "new" => client[e] # "new"
      BY <2>3, <3>1, <3>2 DEF HangUp, Read, SeesClosed, SeesShutdown, Drain, Goto, SourceInv, TypeOK, StreamsOK
    <3> QED BY <3>2, <3>3 DEF Depends
  <2>4. ASSUME \/ \E s \in Session : SignOut(s) \/ Blocking(s)
               \/ \E p \in Poster : Post(p) \/ PostDelivers(p)
               \/ RunDelivers \/ Shutdown \/ UNCHANGED vars
        PROVE  Depends(d) /\ UNCHANGED << todo, orphans >>
    <3>1. UNCHANGED << channels, client, mine, todo, orphans >>
      BY <2>4 DEF SignOut, Blocking, LockMessenger, SendEach, Post, PostDelivers, RunDelivers, Deliver, Shutdown, vars,
                    chans, streams, runner
    <3> QED BY <3>1 DEF Depends
  <2>5. Run => RunDelivers
    BY <1>4, <2>1 DEF Run, Tick, Wake, RunFinds, Stopwatches, TickEnds, Closed
  <2>6. Depends(d) /\ UNCHANGED << todo, orphans >>
    BY <2>2, <2>3, <2>4, <2>5, [Next]_vars DEF Next, Stream
  <2> QED BY <2>1, <2>6 DEF SourceInv, Swept
<1> QED BY <1>2, <1>3, <1>4

LEMMA NextSource ==
  ASSUME SourceInv, [Next]_vars
  PROVE  SourceInv'
<1>1. TypeOK'
  BY NextType DEF SourceInv
<1>6. Swept'
  BY SweptNext
<1>2. CASE \E c \in Client : RegisterManager(c) \/ HangUp(c) \/ Stream(c)
  BY <1>1, <1>2, <1>6, RegisterManagerStep, RegisterMessengerStep, StreamStep, UnregisterRemoveStep DEF Stream, SourceInv
<1>3. CASE \/ \E s \in Session : SignOut(s) \/ Blocking(s)
           \/ \E p \in Poster : Post(p) \/ PostDelivers(p)
  BY <1>1, <1>3, <1>6, SendStep DEF SourceInv
<1>4. CASE Run
  BY <1>1, <1>4, <1>6, RunStep DEF SourceInv
<1>5. CASE Shutdown \/ UNCHANGED vars
  <2>1. UNCHANGED << messengers, chans, streams, senders, run, todo, orphans >>
    BY <1>5 DEF Shutdown, vars, runner
  <2> QED BY <1>1, <1>6, <2>1 DEF SourceInv, Owns, ChannelsOpen, Listed, Linked, Opened, Depends, chans, streams, senders
<1> QED BY <1>2, <1>3, <1>4, <1>5, [Next]_vars DEF Next

(* The inductive invariant behind the theorems.                            *)
THEOREM SourceSafe == Spec => []SourceInv
<1>1. Init => SourceInv
  BY InitSource
<1>2. SourceInv /\ [Next]_vars => SourceInv'
  BY NextSource
<1> QED BY <1>1, <1>2, PTL DEF Spec

(* Every variable of the event source keeps its type, and a mutex kept     *)
(* across steps has its keeper (modules/eventsource).                      *)
THEOREM TypeCorrect == Spec => []TypeOK
<1>1. SourceInv => TypeOK
  BY DEF SourceInv
<1> QED BY <1>1, SourceSafe, PTL

(* Run is never paused while a user has a messenger and the connection     *)
(* channel is empty (manager.go:41-44, manager_run.go:43-69).              *)
THEOREM WakeupKept == Spec => []NoLostWakeup
<1>1. Init => NoLostWakeup
  BY DEF Init, NoLostWakeup
<1>2. TypeOK /\ NoLostWakeup /\ [Next]_vars => NoLostWakeup'
  <2> SUFFICES ASSUME TypeOK, NoLostWakeup, [Next]_vars PROVE NoLostWakeup'
    OBVIOUS
  <2> USE DEF NoLostWakeup, TypeOK, StreamsOK, SendersOK, chans, streams, senders, runner
  <2>1. ASSUME NEW c \in Client, RegisterManager(c) PROVE NoLostWakeup'
    BY <2>1 DEF RegisterManager
  <2>2. ASSUME NEW c \in Client, HangUp(c) \/ Stream(c) PROVE NoLostWakeup'
    BY <2>2 DEF HangUp, Stream, RegisterMessenger, Read, SeesClosed, SeesShutdown, UnregisterLock, UnregisterRemove, Drain
  <2>3. ASSUME NEW s \in Session, SignOut(s) \/ Blocking(s) PROVE NoLostWakeup'
    BY <2>3 DEF SignOut, Find, Blocking, LockMessenger, SendEach
  <2>4. ASSUME NEW p \in Poster, Post(p) \/ PostDelivers(p) PROVE NoLostWakeup'
    BY <2>4 DEF Post, Find, PostDelivers, Deliver
  <2>5. CASE Run
    BY <2>5 DEF Run, Tick, Wake, RunFinds, RunDelivers, Stopwatches, TickEnds, RunStops, CloseMessenger, Closed, Find, Deliver
  <2>6. CASE Shutdown \/ UNCHANGED vars
    BY <2>6 DEF Shutdown, vars
  <2> QED BY <2>1, <2>2, <2>3, <2>4, <2>5, <2>6, [Next]_vars DEF Next
<1> QED BY <1>1, <1>2, TypeCorrect, PTL DEF Spec

(* No channel is closed twice or sent to when closed, for any number of    *)
(* users, streams and senders (messenger.go:38-59, 76-81).                 *)
THEOREM ChannelsKeptOpen == Spec => []ChannelsOpen
<1>1. SourceInv => ChannelsOpen
  BY DEF SourceInv
<1> QED BY <1>1, SourceSafe, PTL

(* A stream that listens on an open channel can be sent to, unless the end *)
(* of another stream or UnregisterAll took its messenger away while it was *)
(* between the two critical sections of Register: a messenger that lists a *)
(* stream is never dropped (manager.go:45-46, 57, 62-70).                  *)
THEOREM OnlyTheRaceOrphans == Spec => []UnheardNeedsRace
<1>1. SourceInv => UnheardNeedsRace
  BY DEF SourceInv, Listed, Linked, Depends, UnheardNeedsRace, Found
<1> QED BY <1>1, SourceSafe, PTL

(***************************************************************************)
(* Who waits for whom.                                                     *)
(***************************************************************************)
(* A messenger's mutex that is kept is kept by a sign-out that sends to    *)
(* this messenger.                                                         *)
Keepers ==
  \A m \in Client : locked[m] # None =>
    LET s == locked[m] IN sender[s] = "each" /\ to[s] = m

(* A step that takes no sender away from its messenger. *)
LEMMA KeepersKept ==
  ASSUME TypeOK, Keepers, UNCHANGED << locked, rest >>,
         \A s \in Session : sender[s] = "each" => sender'[s] = "each" /\ to'[s] = to[s]
  PROVE  Keepers'
<1>1. \A m \in Client : locked[m] \in Session \cup {None}
  BY DEF TypeOK, StreamsOK
<1> QED BY <1>1 DEF Keepers

LEMMA KeepersNext ==
  ASSUME SourceInv, Keepers, [Next]_vars
  PROVE  Keepers'
<1> USE DEF SourceInv
<1>1. ASSUME NEW c \in Client, RegisterManager(c) \/ HangUp(c) \/ Stream(c) PROVE Keepers'
  <2>1. UNCHANGED << locked, senders >>
    BY <1>1 DEF Stream, RegisterManager, RegisterMessenger, HangUp, Read, SeesClosed, SeesShutdown,
                UnregisterLock, UnregisterRemove, Drain, chans
  <2> QED BY <2>1, KeepersKept DEF senders
<1>2. ASSUME NEW s \in Session, SignOut(s) PROVE Keepers'
  <2>1. sender[s] = "idle" /\ UNCHANGED << locked, rest >>
    BY <1>2 DEF SignOut, chans
  <2>2. \A t \in Session \ {s} : sender'[t] = sender[t] /\ to'[t] = to[t]
    BY <1>2 DEF SignOut, Find, TypeOK, StreamsOK, SendersOK, Sender
  <2> QED BY <2>1, <2>2, KeepersKept
<1>3. ASSUME NEW s \in Session, LockMessenger(s) PROVE Keepers'
  <2>1. sender[s] = "send" /\ s \in Sender /\ to[s] \in Client
    BY <1>3 DEF LockMessenger, TypeOK, StreamsOK, SendersOK, Sender
  <2>2. CASE channels[to[s]] = << >>
    <3>1. UNCHANGED << locked, rest >> /\ \A t \in Session \ {s} : sender'[t] = sender[t] /\ to'[t] = to[t]
      BY <1>3, <2>2 DEF LockMessenger, TypeOK, StreamsOK, SendersOK, Sender
    <3> QED BY <2>1, <3>1, KeepersKept
  <2>3. CASE channels[to[s]] # << >>
    <3>1. /\ sender' = [sender EXCEPT ![s] = "each"] /\ UNCHANGED to
          /\ locked' = [locked EXCEPT ![to[s]] = s]
          /\ rest' = [rest EXCEPT ![s] = channels[to[s]]]
      BY <1>3, <2>3 DEF LockMessenger
    <3> QED BY <2>1, <2>3, <3>1 DEF TypeOK, StreamsOK, SendersOK, Sender, Keepers
  <2> QED BY <2>2, <2>3
<1>4. ASSUME NEW s \in Session, SendEach(s) PROVE Keepers'
  <2>1. sender[s] = "each" /\ s \in Sender /\ to[s] \in Client
    BY <1>4 DEF SendEach, TypeOK, StreamsOK, SendersOK, Sender
  <2>2. \/ /\ locked' = [locked EXCEPT ![to[s]] = None]
           /\ sender' = [sender EXCEPT ![s] = "done"]
           /\ to' = [to EXCEPT ![s] = None]
        \/ UNCHANGED << locked, sender, to >>
    BY <1>4 DEF SendEach
  <2> QED BY <2>1, <2>2 DEF TypeOK, StreamsOK, SendersOK, Sender, Keepers
<1>5. ASSUME NEW p \in Poster, Post(p) \/ PostDelivers(p) PROVE Keepers'
  <2>1. \A s \in Session : s # p
    BY ConstantsAssumption DEF ConstantsAssumption
  <2>2. \A s \in Session : sender'[s] = sender[s] /\ to'[s] = to[s]
    BY <1>5, <2>1 DEF Post, Find, PostDelivers, Deliver, TypeOK, StreamsOK, SendersOK, Sender
  <2> QED BY <1>5, <2>2, KeepersKept DEF Post, PostDelivers, Deliver, chans
<1>6. CASE Run
  <2>1. \A s \in Session : s # "run"
    BY ConstantsAssumption DEF ConstantsAssumption
  <2>2. UNCHANGED << locked, rest >> /\ \A s \in Session : sender'[s] = sender[s] /\ to'[s] = to[s]
    BY <1>6, <2>1 DEF Run, Tick, Wake, RunFinds, RunDelivers, Stopwatches, TickEnds, RunStops, CloseMessenger,
                      Closed, Find, Deliver, TypeOK, StreamsOK, SendersOK, Sender, chans, senders
  <2> QED BY <2>2, KeepersKept
<1>7. CASE Shutdown \/ UNCHANGED vars
  BY <1>7, KeepersKept DEF Shutdown, vars, chans, senders
<1> QED BY <1>1, <1>2, <1>3, <1>4, <1>5, <1>6, <1>7, [Next]_vars DEF Next, Blocking

(* A messenger has the name of a stream of its user.                       *)
Named ==
  /\ \A u \in Uid : messengers[u] # None => UidOf[messengers[u]] = u
  /\ \A c \in Client : mine[c] # None => UidOf[mine[c]] = UidOf[c]

LEMMA NamedNext ==
  ASSUME SourceInv, Named, [Next]_vars
  PROVE  Named'
<1>1. ASSUME NEW c \in Client, RegisterManager(c) PROVE Named'
  <2> DEFINE u == UidOf[c]
             m == IF messengers[u] = None THEN c ELSE messengers[u]
  <2>1. u \in Uid /\ UidOf[m] = u /\ m # None
    BY UidOfType DEF Named
  <2>2. messengers' = [messengers EXCEPT ![u] = m] /\ mine' = [mine EXCEPT ![c] = m]
    BY <1>1 DEF RegisterManager
  <2> HIDE DEF u, m
  <2>3. \A v \in Uid : messengers'[v] = IF v = u THEN m ELSE messengers[v]
    BY <2>1, <2>2 DEF SourceInv, TypeOK, StreamsOK
  <2>4. \A d \in Client : mine'[d] = IF d = c THEN m ELSE mine[d]
    BY <2>2 DEF SourceInv, TypeOK, StreamsOK
  <2> QED BY <2>1, <2>3, <2>4 DEF Named, u
<1>2. CASE ~ \E c \in Client : RegisterManager(c)
  <2>1. UNCHANGED mine /\ \A u \in Uid : messengers'[u] \in {messengers[u], None}
    <3>1. CASE \E c \in Client : HangUp(c) \/ Stream(c)
      BY <3>1 DEF Stream, RegisterMessenger, HangUp, Read, SeesClosed, SeesShutdown, UnregisterLock, UnregisterRemove,
                  Drain, streams, SourceInv, TypeOK, StreamsOK
    <3>2. CASE \/ \E s \in Session : SignOut(s) \/ Blocking(s)
               \/ \E p \in Poster : Post(p) \/ PostDelivers(p)
      BY <3>2 DEF SignOut, Blocking, LockMessenger, SendEach, Post, PostDelivers, streams
    <3>3. CASE Run
      BY <3>3 DEF Run, Tick, Wake, RunFinds, RunDelivers, Stopwatches, TickEnds, RunStops, CloseMessenger, Closed, streams
    <3>4. CASE Shutdown \/ UNCHANGED vars
      BY <3>4 DEF Shutdown, vars, streams
    <3> QED BY <1>2, <3>1, <3>2, <3>3, <3>4, [Next]_vars DEF Next
  <2> QED BY <2>1 DEF Named
<1> QED BY <1>1, <1>2

(* Whoever keeps the manager's mutex waits for nobody, for a sign-out that *)
(* is sending to an open channel, or for one that is stuck: no other wait  *)
(* can close a circle (manager.go:50-82, messenger.go:38-81).              *)
THEOREM OnlySignOutKeeps == Spec => []KeptForSignOut
<1>1. Init => Keepers /\ Named
  BY DEF Init, Keepers, Named
<1>2. Spec => [](SourceInv /\ Keepers /\ Named)
  BY <1>1, InitSource, NextSource, KeepersNext, NamedNext, PTL DEF Spec
<1>3. SourceInv /\ Keepers /\ Named => KeptForSignOut
  <2> SUFFICES ASSUME SourceInv, Keepers, Named, mutex # None, NEW m \in Awaited
               PROVE  /\ m # None
                      /\ \/ locked[m] = None
                         \/ \E s \in Session : /\ locked[m] = s /\ to[s] = m /\ rest[s] # << >>
                                               /\ Moving(s) \/ Stuck(s)
    BY DEF KeptForSignOut
  <2>3. PICK u \in Uid : m = messengers[u] /\ m # None
    BY UidOfType DEF SourceInv, TypeOK, StreamsOK, Owns, Awaited
  <2>1. m \in Client
    BY <2>3 DEF SourceInv, TypeOK, StreamsOK
  <2>2. ASSUME locked[m] # None
        PROVE  \E s \in Session : /\ locked[m] = s /\ to[s] = m /\ rest[s] # << >>
                                  /\ Moving(s) \/ Stuck(s)
    <3> DEFINE s == locked[m]
    <3>1. s \in Session /\ sender[s] = "each" /\ to[s] = m
      BY <2>1, <2>2 DEF SourceInv, TypeOK, StreamsOK, Keepers
    <3> DEFINE c == Head(rest[s])
    <3>2. c \in Client /\ c \in ToSet(channels[m]) /\ rest[s] # << >>
      <4>1. rest[s] \in Seq(Client) /\ rest[s] # << >> /\ ToSet(rest[s]) \subseteq ToSet(channels[m])
        BY <3>1, EachHas
      <4> QED BY <4>1, HeadAndTail
    <3>4. chan[c] = "open" /\ mine[c] = m
      BY <2>1, <3>2 DEF SourceInv, ChannelsOpen
    <3>5. client[c] \in {"listen", "unregister", "remove", "drain"}
      BY <3>2, <3>4 DEF SourceInv, Opened
    <3>6. messengers[UidOf[c]] = m
      BY <2>1, <2>3, <3>2, <3>4 DEF Named
    <3> HIDE DEF c
    <3>3. Moving(s) \/ Stuck(s)
      BY <3>1, <3>4, <3>5, <3>6 DEF Moving, Stuck, c
    <3> QED BY <3>1, <3>2, <3>3
  <2> QED BY <2>1, <2>2, None \notin Client
<1> QED BY <1>2, <1>3, PTL
================================================================================
