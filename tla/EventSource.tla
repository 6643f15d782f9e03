----------------------------- MODULE EventSource -----------------------------
(***************************************************************************)
(* modules/eventsource: the manager of the messengers of the users, the    *)
(* messengers with the channels of the open event streams, and the         *)
(* goroutines around them: the streams themselves (routers/web/events),    *)
(* Manager.Run, requests that send an event, and sessions that sign out    *)
(* with a blocking send.  A critical section that waits for nothing is one *)
(* step; one that waits for another mutex or for a full channel keeps its  *)
(* mutex from step to step.                                                *)
(***************************************************************************)
EXTENDS SequencesExt

CONSTANTS
  Uid,        \* the users
  Client,     \* the event streams; each is opened at most once
  Session,    \* the sessions; each is signed out at most once
  Poster,     \* requests that send an event without blocking
  UidOf,      \* whose a stream or a session is
  SessionOf,  \* the session of a stream
  None

Sender  == Session \cup Poster \cup {"run"}
Message == {"notification-count", "stopwatches"} \cup Session   \* a session: it logs out

ASSUME ConstantsAssumption ==
  /\ UidOf \in [Client \cup Session -> Uid]
  /\ SessionOf \in [Client -> Session \cup {None}]
  /\ None \notin Client \cup Message \cup Sender
  /\ "run" \notin Client \cup Session \cup Poster
  /\ Session \cap Poster = {}

VARIABLES
  mutex,       \* who holds Manager.mutex across steps
  messengers,  \* Manager.messengers; a messenger has the name of the stream that made it
  connection,  \* Manager.connection has its token
  channels,    \* Messenger.channels of each messenger, by the streams, oldest first
  locked,      \* who holds the mutex of each messenger across steps
  chan,        \* the channel of each stream: "none", "open" or "closed"
  buf,         \* its buffered message
  client,      \* where each stream is
  mine,        \* the messenger Register found for it
  sender,      \* where each sender is
  to,          \* the messenger it found
  rest,        \* the channels a blocking sender has still to send to, in their order
  run,         \* where Manager.Run is
  todo,        \* the users it has still to send to, or to close
  shutdown,    \* the shutdown context is done
  orphans      \* history: the streams that were between the two critical sections
               \* of Register when their messenger was dropped or closed

chans   == << channels, locked, chan, buf >>
streams == << client, mine >>
senders == << sender, to, rest >>
runner  == << run, todo >>
vars    == << mutex, messengers, connection, chans, streams, senders, runner, shutdown, orphans >>

Init ==
  /\ mutex = None
  /\ messengers = [u \in Uid |-> None]
  /\ connection = FALSE
  /\ channels = [m \in Client |-> << >>]
  /\ locked = [m \in Client |-> None]
  /\ chan = [c \in Client |-> "none"]
  /\ buf = [c \in Client |-> None]
  /\ client = [c \in Client |-> "new"]
  /\ mine = [c \in Client |-> None]
  /\ sender = [s \in Sender |-> "idle"]
  /\ to = [s \in Sender |-> None]
  /\ rest = [s \in Session |-> << >>]
  /\ run = "wait"
  /\ todo = {}
  /\ shutdown = FALSE
  /\ orphans = {}

Goto(c, pc) == client' = [client EXCEPT ![c] = pc]

(* The streams that have found the messenger m, and are not yet listed.    *)
Registering(m) == {c \in Client : mine[c] = m /\ client[c] = "append"}

-----------------------------------------------------------------------------
(* Manager.Register, in its two critical sections. *)

RegisterManager_Unsignalled(c) ==
  LET u == UidOf[c]
      m == IF messengers[u] = None THEN c ELSE messengers[u] IN
  /\ client[c] = "new"
  /\ mutex = None
  /\ messengers' = [messengers EXCEPT ![u] = m]
  /\ mine' = [mine EXCEPT ![c] = m]
  /\ connection' = (connection \/ m # c)
  /\ Goto(c, "append")
  /\ UNCHANGED << mutex, chans, senders, runner, shutdown, orphans >>

RegisterManager(c) ==
  LET u == UidOf[c]
      m == IF messengers[u] = None THEN c ELSE messengers[u] IN
  /\ client[c] = "new"
  /\ mutex = None
  /\ messengers' = [messengers EXCEPT ![u] = m]
  /\ mine' = [mine EXCEPT ![c] = m]
  /\ connection' = TRUE
  /\ Goto(c, "append")
  /\ UNCHANGED << mutex, chans, senders, runner, shutdown, orphans >>

RegisterMessenger(c) ==
  /\ client[c] = "append"
  /\ locked[mine[c]] = None
  /\ channels' = [channels EXCEPT ![mine[c]] = Append(@, c)]
  /\ chan' = [chan EXCEPT ![c] = "open"]
  /\ Goto(c, "listen")
  /\ UNCHANGED << mutex, messengers, connection, locked, buf, mine, senders, runner, shutdown, orphans >>

-----------------------------------------------------------------------------
(* The loop of Events, and the goroutine it leaves behind. *)

(* The connection ends, or a write to it fails. *)
HangUp(c) ==
  /\ client[c] = "listen"
  /\ Goto(c, "unregister")
  /\ UNCHANGED << mutex, messengers, connection, chans, mine, senders, runner, shutdown, orphans >>

SeesShutdown(c) == shutdown /\ HangUp(c)

(* An event is passed on; a logout of the stream's own session ends it. *)
Read(c) ==
  /\ client[c] = "listen"
  /\ buf[c] # None
  /\ buf' = [buf EXCEPT ![c] = None]
  /\ Goto(c, IF buf[c] = SessionOf[c] THEN "unregister" ELSE "listen")
  /\ UNCHANGED << mutex, messengers, connection, channels, locked, chan, mine, senders, runner, shutdown, orphans >>

SeesClosed(c) ==
  /\ client[c] = "listen"
  /\ chan[c] = "closed" /\ buf[c] = None
  /\ Goto(c, "gone")
  /\ UNCHANGED << mutex, messengers, connection, chans, mine, senders, runner, shutdown, orphans >>

UnregisterLock_KeepsLock(c) ==
  /\ client[c] = "unregister"
  /\ mutex = None
  /\ mutex' = c
  /\ Goto(c, IF messengers[UidOf[c]] = None THEN "drain" ELSE "remove")
  /\ UNCHANGED << messengers, connection, chans, mine, senders, runner, shutdown, orphans >>

(* Manager.Unregister keeps the mutex while it waits for the messenger's.  *)
UnregisterLock(c) ==
  /\ client[c] = "unregister"
  /\ mutex = None
  /\ IF messengers[UidOf[c]] = None
       THEN Goto(c, "drain") /\ UNCHANGED mutex
       ELSE Goto(c, "remove") /\ mutex' = c
  /\ UNCHANGED << messengers, connection, chans, mine, senders, runner, shutdown, orphans >>

UnregisterRemove_OnlyCloses(c) ==
  LET m == messengers[UidOf[c]] IN
  /\ client[c] = "remove"
  /\ locked[m] = None
  /\ chan' = IF c \in ToSet(channels[m]) THEN [chan EXCEPT ![c] = "closed"] ELSE chan
  /\ mutex' = None
  /\ Goto(c, "drain")
  /\ UNCHANGED << messengers, connection, channels, locked, buf, mine, senders, runner, shutdown, orphans >>

UnregisterRemove_DropsMessenger(c) ==
  LET u == UidOf[c]
      m == messengers[u] IN
  /\ client[c] = "remove"
  /\ locked[m] = None
  /\ channels' = [channels EXCEPT ![m] = RemoveFirst(@, c)]
  /\ chan' = IF c \in ToSet(channels[m]) THEN [chan EXCEPT ![c] = "closed"] ELSE chan
  /\ messengers' = [messengers EXCEPT ![u] = None]
  /\ orphans' = orphans \cup Registering(m)
  /\ mutex' = None
  /\ Goto(c, "drain")
  /\ UNCHANGED << connection, locked, buf, mine, senders, runner, shutdown >>

(* Messenger.Unregister, and the end of Manager.Unregister. *)
UnregisterRemove(c) ==
  LET u == UidOf[c]
      m == messengers[u] IN
  /\ client[c] = "remove"
  /\ locked[m] = None
  /\ channels' = [channels EXCEPT ![m] = RemoveFirst(@, c)]
  /\ chan' = IF c \in ToSet(channels[m]) THEN [chan EXCEPT ![c] = "closed"] ELSE chan
  /\ IF channels'[m] = << >>
       THEN /\ messengers' = [messengers EXCEPT ![u] = None]
            /\ orphans' = orphans \cup Registering(m)
       ELSE UNCHANGED << messengers, orphans >>
  /\ mutex' = None
  /\ Goto(c, "drain")
  /\ UNCHANGED << connection, locked, buf, mine, senders, runner, shutdown >>

(* "ensure the messageChan is closed" *)
Drain(c) ==
  /\ client[c] = "drain"
  /\ \/ buf[c] # None /\ buf' = [buf EXCEPT ![c] = None] /\ UNCHANGED client
     \/ buf[c] = None /\ chan[c] = "closed" /\ Goto(c, "gone") /\ UNCHANGED buf
  /\ UNCHANGED << mutex, messengers, connection, channels, locked, chan, mine, senders, runner, shutdown, orphans >>

-----------------------------------------------------------------------------
(* Sends. *)

(* The manager's part of a send: the messenger of the user, if there is one. *)
Find(s, u, found, otherwise) ==
  /\ mutex = None
  /\ to' = [to EXCEPT ![s] = messengers[u]]
  /\ sender' = [sender EXCEPT ![s] = IF messengers[u] = None THEN otherwise ELSE found]

(* Messenger.SendMessage: a channel that is full misses the message. *)
Deliver(s, message) ==
  /\ sender[s] = "send"
  /\ locked[to[s]] = None
  /\ buf' = [c \in Client |-> IF c \in ToSet(channels[to[s]]) /\ buf[c] = None THEN message ELSE buf[c]]
  /\ sender' = [sender EXCEPT ![s] = "idle"]
  /\ to' = [to EXCEPT ![s] = None]
  /\ UNCHANGED << rest, channels, locked, chan >>

(* A request of the user, or about him, sends an event. *)
Post(p) ==
  /\ sender[p] = "idle"
  /\ \E u \in Uid : Find(p, u, "send", "idle")
  /\ UNCHANGED << mutex, messengers, connection, chans, streams, rest, runner, shutdown, orphans >>

PostDelivers(p) ==
  /\ Deliver(p, "stopwatches")
  /\ UNCHANGED << mutex, messengers, connection, streams, runner, shutdown, orphans >>

(* SignOut: Manager.SendMessageBlocking. *)
SignOut(s) ==
  /\ sender[s] = "idle"
  /\ Find(s, UidOf[s], "send", "done")
  /\ UNCHANGED << mutex, messengers, connection, chans, streams, rest, runner, shutdown, orphans >>

LockMessenger(s) ==
  /\ sender[s] = "send"
  /\ locked[to[s]] = None
  /\ IF channels[to[s]] = << >>
       THEN /\ sender' = [sender EXCEPT ![s] = "done"]
            /\ to' = [to EXCEPT ![s] = None]
            /\ UNCHANGED << locked, rest >>
       ELSE /\ locked' = [locked EXCEPT ![to[s]] = s]
            /\ rest' = [rest EXCEPT ![s] = channels[to[s]]]
            /\ sender' = [sender EXCEPT ![s] = "each"]
            /\ UNCHANGED to
  /\ UNCHANGED << mutex, messengers, connection, channels, chan, buf, streams, runner, shutdown, orphans >>

(* It waits for room in the first channel left, with the mutex, which it   *)
(* gives back after the last: nothing reaches the channels behind one that *)
(* is full.                                                                *)
SendEach(s) ==
  /\ sender[s] = "each"
  /\ buf[Head(rest[s])] = None
  /\ buf' = [buf EXCEPT ![Head(rest[s])] = s]
  /\ rest' = [rest EXCEPT ![s] = Tail(@)]
  /\ IF rest'[s] = << >>
       THEN /\ locked' = [locked EXCEPT ![to[s]] = None]
            /\ sender' = [sender EXCEPT ![s] = "done"]
            /\ to' = [to EXCEPT ![s] = None]
       ELSE UNCHANGED << locked, sender, to >>
  /\ UNCHANGED << mutex, messengers, connection, channels, chan, streams, runner, shutdown, orphans >>

-----------------------------------------------------------------------------
(* Manager.Run. *)

(* Without listeners the source pauses; the token of a connection that has *)
(* ended is taken out under the mutex.  Else GetUIDsAndNotificationCounts  *)
(* finds some users, none if it fails.                                     *)
Tick ==
  /\ run = "wait"
  /\ mutex = None
  /\ IF \A u \in Uid : messengers[u] = None
       THEN connection' = FALSE /\ run' = "paused" /\ UNCHANGED todo
       ELSE todo' \in SUBSET Uid /\ run' = "counts" /\ UNCHANGED connection
  /\ UNCHANGED << mutex, messengers, chans, streams, senders, shutdown, orphans >>

Wake ==
  /\ run = "paused"
  /\ connection
  /\ connection' = FALSE
  /\ run' = "wait"
  /\ UNCHANGED << mutex, messengers, chans, streams, senders, todo, shutdown, orphans >>

RunFinds ==
  /\ run \in {"counts", "stopwatches"}
  /\ sender["run"] = "idle"
  /\ \E u \in todo : Find("run", u, "send", "idle") /\ todo' = todo \ {u}
  /\ UNCHANGED << mutex, messengers, connection, chans, streams, rest, run, shutdown, orphans >>

RunDelivers ==
  /\ Deliver("run", IF run = "counts" THEN "notification-count" ELSE "stopwatches")
  /\ UNCHANGED << mutex, messengers, connection, streams, runner, shutdown, orphans >>

(* GetUIDsAndStopwatch; an error ends Run, which leaves the messengers. *)
Stopwatches ==
  /\ run = "counts" /\ sender["run"] = "idle" /\ todo = {}
  /\ \/ todo' \in SUBSET Uid /\ run' = "stopwatches"
     \/ run' = "done" /\ UNCHANGED todo
  /\ UNCHANGED << mutex, messengers, connection, chans, streams, senders, shutdown, orphans >>

TickEnds ==
  /\ run = "stopwatches" /\ sender["run"] = "idle" /\ todo = {}
  /\ run' = "wait"
  /\ UNCHANGED << mutex, messengers, connection, chans, streams, senders, todo, shutdown, orphans >>

(* UnregisterAll keeps the manager's mutex while it takes the messengers'. *)
RunStops ==
  /\ shutdown
  /\ run \in {"wait", "paused"}
  /\ mutex = None
  /\ mutex' = "run"
  /\ run' = "close"
  /\ todo' = {u \in Uid : messengers[u] # None}
  /\ UNCHANGED << messengers, connection, chans, streams, senders, shutdown, orphans >>

CloseMessenger_StaysOpen ==
  /\ run = "close"
  /\ \E u \in todo :
       LET m == messengers[u] IN
       /\ locked[m] = None
       /\ channels' = [channels EXCEPT ![m] = << >>]
       /\ orphans' = orphans \cup Registering(m)
       /\ todo' = todo \ {u}
  /\ UNCHANGED << mutex, messengers, connection, locked, chan, buf, streams, senders, run, shutdown >>

CloseMessenger ==
  /\ run = "close"
  /\ \E u \in todo :
       LET m == messengers[u] IN
       /\ locked[m] = None
       /\ chan' = [c \in Client |-> IF c \in ToSet(channels[m]) THEN "closed" ELSE chan[c]]
       /\ channels' = [channels EXCEPT ![m] = << >>]
       /\ orphans' = orphans \cup Registering(m)
       /\ todo' = todo \ {u}
  /\ UNCHANGED << mutex, messengers, connection, locked, buf, streams, senders, run, shutdown >>

Closed ==
  /\ run = "close" /\ todo = {}
  /\ messengers' = [u \in Uid |-> None]
  /\ mutex' = None
  /\ run' = "done"
  /\ UNCHANGED << connection, chans, streams, senders, todo, shutdown, orphans >>

-----------------------------------------------------------------------------
Shutdown ==
  /\ ~shutdown
  /\ shutdown' = TRUE
  /\ UNCHANGED << mutex, messengers, connection, chans, streams, senders, runner, orphans >>

(* What a stream does without the world outside. *)
Stream(c) ==
  \/ RegisterMessenger(c) \/ Read(c) \/ SeesClosed(c) \/ SeesShutdown(c)
  \/ UnregisterLock(c) \/ UnregisterRemove(c) \/ Drain(c)
Blocking(s) == LockMessenger(s) \/ SendEach(s)
Run ==
  \/ Tick \/ Wake \/ RunFinds \/ RunDelivers \/ Stopwatches \/ TickEnds
  \/ RunStops \/ CloseMessenger \/ Closed

Next ==
  \/ \E c \in Client : RegisterManager(c) \/ HangUp(c) \/ Stream(c)
  \/ \E s \in Session : SignOut(s) \/ Blocking(s)
  \/ \E p \in Poster : Post(p) \/ PostDelivers(p)
  \/ Run
  \/ Shutdown

Spec == Init /\ [][Next]_vars

(* Every goroutine that can go on does; the mutexes of Go are fair, and    *)
(* Run and a stream, whose selects offer the shutdown context beside the   *)
(* ticker and the messages, choose the context at some time.               *)
Fairness ==
  /\ \A c \in Client : WF_vars(Stream(c)) /\ SF_vars(SeesShutdown(c))
  /\ \A s \in Session : WF_vars(Blocking(s))
  /\ \A p \in Poster : WF_vars(PostDelivers(p))
  /\ WF_vars(Run)
  /\ SF_vars(RunStops)

LiveSpec == Spec /\ Fairness

-----------------------------------------------------------------------------
(* Properties. *)

(* Every variable keeps its type, a mutex kept across steps is kept by a   *)
(* goroutine that is about to give it back, a stream or a sender that has  *)
(* asked for a messenger has one, and a blocking sender a channel left.    *)
StreamsOK ==
  /\ mutex \in Client \cup {"run", None}
  /\ \A c \in Client : mutex = c <=> client[c] = "remove"
  /\ mutex = "run" <=> run = "close"
  /\ messengers \in [Uid -> Client \cup {None}]
  /\ connection \in BOOLEAN
  /\ channels \in [Client -> Seq(Client)]
  /\ locked \in [Client -> Session \cup {None}]
  /\ chan \in [Client -> {"none", "open", "closed"}]
  /\ buf \in [Client -> Message \cup {None}]
  /\ client \in [Client -> {"new", "append", "listen", "unregister", "remove", "drain", "gone"}]
  /\ mine \in [Client -> Client \cup {None}]
  /\ \A c \in Client : client[c] = "new" <=> mine[c] = None
  /\ run \in {"wait", "paused", "counts", "stopwatches", "close", "done"}
  /\ todo \subseteq Uid
  /\ shutdown \in BOOLEAN
  /\ orphans \subseteq Client

SendersOK ==
  /\ sender \in [Sender -> {"idle", "send", "each", "done"}]
  /\ to \in [Sender -> Client \cup {None}]
  /\ \A s \in Sender : to[s] = None <=> sender[s] \in {"idle", "done"}
  /\ rest \in [Session -> Seq(Client)]
  /\ \A s \in Session : sender[s] = "each" <=> rest[s] # << >>

TypeOK == StreamsOK /\ SendersOK

(* A channel is closed once, and never sent to when closed (both panic):   *)
(* what a messenger lists, or a blocking sender has left, is open and is   *)
(* listed nowhere else, and not twice (messenger.go:34-55, 71-77).         *)
Distinct(q) == \A i, j \in 1..Len(q) : q[i] = q[j] => i = j

ChannelsOpen ==
  /\ \A m \in Client :
       /\ Distinct(channels[m])
       /\ \A c \in ToSet(channels[m]) : chan[c] = "open" /\ mine[c] = m
  /\ \A s \in Session : sender[s] = "each" => ToSet(rest[s]) \subseteq ToSet(channels[to[s]])

(* Run is never paused for good while a user has a messenger: the token of *)
(* the last Register is still there (manager.go:41-44, manager_run.go:49). *)
NoLostWakeup ==
  run = "paused" /\ (\E u \in Uid : messengers[u] # None) => connection

(* A stream that waits on an open channel is one SendMessage can find, but *)
(* for the race between the two critical sections of Register: only then   *)
(* may another stream's end, or UnregisterAll, take its messenger away     *)
(* (manager.go:44-46, 56-57, 62-69).                                       *)
Found(c) == messengers[UidOf[c]] = mine[c] /\ c \in ToSet(channels[mine[c]])
UnheardNeedsRace ==
  \A c \in Client : client[c] = "listen" /\ chan[c] = "open" => Found(c) \/ c \in orphans

(* A blocking sender waits for a stream that does not read any more, and   *)
(* cannot unregister, because the sender has the mutex of the messenger    *)
(* that Unregister wants: for ever.                                        *)
Stuck(s) ==
  /\ sender[s] = "each"
  /\ LET c == Head(rest[s]) IN
     /\ buf[c] # None
     /\ client[c] \in {"unregister", "remove"}
     /\ messengers[UidOf[c]] = to[s]
SignOutStuck == <>[](\E s \in Session : Stuck(s))

(* Whoever waits for the manager's mutex gets it, unless a sign-out is     *)
(* stuck: no other order of registering, sending, pausing, unregistering   *)
(* and closing blocks the event source (manager.go:50-70).                 *)
FreedButForSignOut == []<>(mutex = None) \/ SignOutStuck

(* The safety half of FreedButForSignOut: each messenger whose mutex the   *)
(* keeper of the manager's mutex has still to take is there, and is free,  *)
(* or kept by a sign-out that is stuck or whose next channel is open and   *)
(* has room or a reader (manager.go:49-89, messenger.go:34-77).            *)
Awaited == IF mutex = "run" THEN {messengers[u] : u \in todo} ELSE {messengers[UidOf[mutex]]}
Moving(s) ==
  LET c == Head(rest[s]) IN
  chan[c] = "open" /\ (buf[c] = None \/ client[c] \in {"listen", "drain"})
KeptForSignOut ==
  mutex # None =>
    \A m \in Awaited :
      /\ m # None
      /\ \/ locked[m] = None
         \/ \E s \in Session :
              /\ locked[m] = s /\ to[s] = m /\ rest[s] # << >>
              /\ Moving(s) \/ Stuck(s)

(* After the shutdown every stream ends and its goroutines with it, unless *)
(* a sign-out is stuck, but for those that the race of Register has made   *)
(* orphans (events.go:49-58, 83-85).                                       *)
ShutdownClears ==
  \/ SignOutStuck
  \/ \A c \in Client : shutdown /\ client[c] # "new" ~> client[c] = "gone" \/ c \in orphans

(* "SendMessageBlocking sends the message to all registered channels and   *)
(* ensures it gets sent" (messenger.go:70): it returns.                    *)
SendReturns == \A s \in Session : sender[s] = "send" ~> sender[s] = "done"

(* "ensure the messageChan is closed" (events.go:51): a stream that        *)
(* unregisters comes to its end.                                           *)
LeaverCloses == \A c \in Client : client[c] = "unregister" ~> client[c] = "gone"
==============================================================================
