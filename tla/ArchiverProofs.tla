--------------------------- MODULE ArchiverProofs ---------------------------
(***************************************************************************)
(* Proofs about Archiver, for any number of archives, workers and          *)
(* requests, any failures and any crashes.                                 *)
(*                                                                         *)
(* The inductive invariant ArchiverInv says of the moment before a commit  *)
(* what BrokenNeedsCleaner says of the rows: a row is as good as committed *)
(* once its transaction has found or made the file.                        *)
(***************************************************************************)
EXTENDS Archiver, TLAPS

(* What one worker does changes one entry of g.                            *)
LEMMA WorkerStep ==
  ASSUME TypeOK, NEW w \in Worker, NEW o \in Work,
         o = Idle \/ (o.pc # "idle" /\ o.a # None),
         g' = [g EXCEPT ![w] = o]
  PROVE  /\ g'[w] = o
         /\ \A v \in Worker \ {w} : g'[v] = g[v]
         /\ g' \in [Worker -> Work]
         /\ \A v \in Worker : g'[v] = Idle \/ (g'[v].pc # "idle" /\ g'[v].a # None)
BY DEF TypeOK

LEMMA RequestStep ==
  ASSUME TypeOK, NEW q \in Request,
         NEW o \in [pc : {"idle", "has", "push", "poll"}, a : Archive \cup {None}],
         o.pc = "idle" <=> o.a = None,
         r' = [r EXCEPT ![q] = o]
  PROVE  /\ r'[q] = o
         /\ \A p \in Request \ {q} : r'[p] = r[p]
         /\ r' \in [Request -> [pc : {"idle", "has", "push", "poll"}, a : Archive \cup {None}]]
         /\ \A p \in Request : r'[p].pc = "idle" <=> r'[p].a = None
BY DEF TypeOK

LEMMA IdleWork == Idle \in Work /\ Idle.pc = "idle" /\ Idle.a = None /\ Idle.new = FALSE
BY DEF Idle, Work

(* How a worker's record changes.                                          *)
LEMMA TakeFields ==
  ASSUME NEW a \in Archive, NEW o, o = [Idle EXCEPT !.pc = "get", !.a = a]
  PROVE  o \in Work /\ o.pc = "get" /\ o.a = a
BY DEF Idle, Work

LEMMA ArchiverInvInit == Init => ArchiverInv
<1> SUFFICES ASSUME Init PROVE ArchiverInv
  OBVIOUS
<1>1. TypeOK
  <2>1. /\ g \in [Worker -> Work]
        /\ \A w \in Worker : g[w] = Idle
    BY IdleWork DEF Init
  <2>2. /\ r \in [Request -> [pc : {"idle", "has", "push", "poll"}, a : Archive \cup {None}]]
        /\ \A q \in Request : r[q].pc = "idle" <=> r[q].a = None
    BY DEF Init, Quiet
  <2>3. cleanup \in [pc : {"idle", "row", "file"}, a : Archive \cup {None},
                    todo : SUBSET Archive, same : SUBSET Archive]
    BY DEF Init, Asleep
  <2>4. cleanups \in 0 .. Cleanups /\ disturbances \in 0 .. Disturbances
    BY ConstantsAssumption DEF Init
  <2> QED
    BY <2>1, <2>2, <2>3, <2>4 DEF Init, TypeOK
<1>2. InHand /\ ReliedHaveFile /\ LeftoverNeedsInterruption /\ PolledIsServed
  BY DEF Init, InHand, ReliedHaveFile, Relied, LeftoverNeedsInterruption, PolledIsServed,
         Idle, Quiet, Asleep
<1> QED
  BY <1>1, <1>2 DEF ArchiverInv

-----------------------------------------------------------------------------
(* doArchive.                                                              *)

(* A worker that takes an archive, or goes on with the one it has, without *)
(* a change of the rows and with no file lost.                             *)
LEMMA WorkGoesOn ==
  ASSUME ArchiverInv, NEW w \in Worker, NEW o \in Work, o.a \in Archive, o.pc # "idle",
         g[w].a \in {None, o.a},
         g' = [g EXCEPT ![w] = o],
         row' = row, avatar' = avatar, queue' \in {queue, queue \ {o.a}},
         stale' \in {stale, stale \cup {o.a}},
         file' \in {file, file \cup {o.a}},
         overtaken' \in {overtaken, overtaken \ {o.a}},
         overtaken' # overtaken => o.a \in file',
         o.pc = "commit" => o.a \in file',
         UNCHANGED << r, crons, bounds, missed, leaked >>
  PROVE  ArchiverInv'
<1> USE DEF ArchiverInv, crons, bounds
<1>1. o.pc # "idle" /\ o.a # None
  BY ConstantsAssumption
<1>2. /\ g'[w] = o
      /\ \A v \in Worker \ {w} : g'[v] = g[v]
      /\ g' \in [Worker -> Work]
      /\ \A v \in Worker : g'[v] = Idle \/ (g'[v].pc # "idle" /\ g'[v].a # None)
  BY <1>1, WorkerStep
<1>3. TypeOK'
  BY <1>2 DEF TypeOK
<1>4. InHand'
  BY DEF InHand
<1>5. ReliedHaveFile'
  <2> SUFFICES ASSUME NEW x \in Archive, Relied(x)' PROVE x \in file' \cup overtaken'
    BY DEF ReliedHaveFile
  <2>1. CASE x = o.a /\ o.pc = "commit"
    BY <2>1
  <2>2. CASE ~(x = o.a /\ o.pc = "commit")
    <3>1. Relied(x)
      BY <1>2, <2>2 DEF Relied
    <3>2. x \in file \cup overtaken
      BY <3>1 DEF ReliedHaveFile
    <3> QED
      BY <3>2
  <2> QED
    BY <2>1, <2>2
<1>6. \A v \in Worker : g[v].a \in Archive => g'[v].a = g[v].a
  BY <1>2, ConstantsAssumption DEF TypeOK
<1>7. LeftoverNeedsInterruption'
  <2> SUFFICES ASSUME NEW x \in file' \ row', x \notin leaked', x \notin delete', cleanup'.a # x
               PROVE  \E v \in Worker : g'[v].a = x
    BY DEF LeftoverNeedsInterruption
  <2>1. CASE x = o.a
    BY <1>2, <2>1
  <2>2. CASE x # o.a
    BY <1>6, <2>2 DEF LeftoverNeedsInterruption, TypeOK
  <2> QED
    BY <2>1, <2>2
<1>8. PolledIsServed'
  <2> SUFFICES ASSUME NEW q \in Request, r[q].pc = "poll", q \notin missed,
                      r[q].a \notin row' \cup queue' \cup stale'
               PROVE  \E v \in Worker : g'[v].a = r[q].a
    BY DEF PolledIsServed
  <2>1. CASE r[q].a = o.a
    BY <1>2, <2>1
  <2>2. CASE r[q].a # o.a
    <3>1. PICK v \in Worker : g[v].a = r[q].a
      BY <2>2 DEF PolledIsServed
    <3>2. r[q].a \in Archive
      BY DEF TypeOK
    <3> QED
      BY <1>6, <3>1, <3>2
  <2> QED
    BY <2>1, <2>2
<1> QED
  BY <1>3, <1>4, <1>5, <1>7, <1>8

LEMMA ArchiverInvWork ==
  ASSUME ArchiverInv, NEW w \in Worker,
         \/ \E a \in Archive : Take(w, a)
         \/ GetRepoArchiver(w) \/ Stat(w) \/ Save(w)
         \/ AddRepoArchiver(w) /\ g[w].a \notin row
  PROVE  ArchiverInv'
<1> USE DEF bounds, history
<1>1. ASSUME NEW a \in Archive, Take(w, a) PROVE ArchiverInv'
  <2> DEFINE o == [Idle EXCEPT !.pc = "get", !.a = a]
  <2>1. o \in Work /\ o.pc = "get" /\ o.a = a
    BY TakeFields
  <2>2. g[w] = Idle /\ g' = [g EXCEPT ![w] = o]
    BY <1>1 DEF Take
  <2> HIDE DEF o
  <2> QED
    BY <1>1, <2>1, <2>2, IdleWork, WorkGoesOn DEF Take
<1>2. ASSUME NEW o \in Work, o.pc \in {"stat", "insert", "save", "commit"}, o.a = g[w].a,
             o.pc = "commit" => g[w].a \in file',
             g[w].pc # "idle", g' = [g EXCEPT ![w] = o],
             row' = row, avatar' = avatar, queue' = queue, stale' = stale,
             file' \in {file, file \cup {g[w].a}},
             overtaken' \in {overtaken, overtaken \ {g[w].a}},
             overtaken' # overtaken => g[w].a \in file',
             UNCHANGED << r, crons, bounds, missed, leaked >>
      PROVE  ArchiverInv'
  <2>1. g[w].a \in Archive
    <3>1. g[w] \in Work /\ g[w].a # None
      BY <1>2, IdleWork DEF ArchiverInv, TypeOK
    <3> QED
      BY <3>1 DEF Work
  <2> QED
    BY <1>2, <2>1, WorkGoesOn
<1>3. ASSUME NEW p \in {"stat", "insert", "save", "commit"}, NEW o,
             o = [g[w] EXCEPT !.pc = p] \/ o = [g[w] EXCEPT !.pc = p, !.new = TRUE]
      PROVE  o \in Work /\ o.pc = p /\ o.a = g[w].a
  <2>1. g[w] \in Work
    BY DEF ArchiverInv, TypeOK
  <2>2. CASE o = [g[w] EXCEPT !.pc = p]
    BY <1>3, <2>1, <2>2 DEF Work
  <2>3. CASE o = [g[w] EXCEPT !.pc = p, !.new = TRUE]
    BY <1>3, <2>1, <2>3 DEF Work
  <2> QED
    BY <1>3, <2>2, <2>3
<1>4. CASE GetRepoArchiver(w)
  BY <1>2, <1>3, <1>4 DEF GetRepoArchiver, At, Goto
<1>5. CASE Stat(w)
  BY <1>2, <1>3, <1>5 DEF Stat, At, Goto
<1>6. CASE Save(w)
  BY <1>2, <1>3, <1>6 DEF Save, At, Goto
<1>7. CASE AddRepoArchiver(w) /\ g[w].a \notin row
  BY <1>2, <1>3, <1>7 DEF AddRepoArchiver, At
<1> QED
  BY <1>1, <1>4, <1>5, <1>6, <1>7

(* A worker that ends leaves the row, or leaves the file and the requests  *)
(* to the history.                                                         *)
LEMMA WorkEnds ==
  ASSUME ArchiverInv, NEW w \in Worker, g[w] # Idle, End(w),
         row' \in {row, row \cup {g[w].a}}, row' # row => Relied(g[w].a),
         g[w].a \in row' \/ (/\ Waiting({g[w].a}) \subseteq missed'
                             /\ {g[w].a} \cap file \subseteq leaked'),
         missed \subseteq missed', missed' \subseteq Request,
         leaked \ row' \subseteq leaked', leaked' \subseteq Archive,
         disturbances' \in 0 .. Disturbances,
         UNCHANGED << file, avatar, queue, stale, r, crons, cleanups, overtaken >>
  PROVE  ArchiverInv'
<1> USE DEF ArchiverInv, crons
<1>1. /\ g'[w] = Idle
      /\ \A v \in Worker \ {w} : g'[v] = g[v]
      /\ g' \in [Worker -> Work]
      /\ \A v \in Worker : g'[v] = Idle \/ (g'[v].pc # "idle" /\ g'[v].a # None)
  BY IdleWork DEF End, TypeOK
<1>2. g[w].a \in Archive
  BY DEF TypeOK, Idle, Work
<1>3. TypeOK'
  BY <1>1, <1>2 DEF TypeOK
<1>4. InHand'
  BY DEF InHand
<1>5. \A x \in Archive : Relied(x)' => Relied(x)
  BY <1>1, <1>2, IdleWork DEF Relied
<1>6. ReliedHaveFile'
  BY <1>5 DEF ReliedHaveFile
<1>7. LeftoverNeedsInterruption'
  BY <1>1, <1>2 DEF LeftoverNeedsInterruption, TypeOK
<1>8. PolledIsServed'
  <2> SUFFICES ASSUME NEW q \in Request, r[q].pc = "poll", q \notin missed',
                      r[q].a \notin row' \cup queue' \cup stale'
               PROVE  \E v \in Worker : g'[v].a = r[q].a
    BY DEF PolledIsServed
  <2>1. PICK v \in Worker : g[v].a = r[q].a
    BY DEF PolledIsServed
  <2>2. v # w
    BY <2>1 DEF Waiting
  <2> QED
    BY <1>1, <2>1, <2>2
<1> QED
  BY <1>3, <1>4, <1>6, <1>7, <1>8

LEMMA ArchiverInvEnd ==
  ASSUME ArchiverInv, NEW w \in Worker,
         \/ AddRepoArchiver(w) /\ g[w].a \in row
         \/ Commit(w) \/ Fail(w)
  PROVE  ArchiverInv'
<1> USE DEF bounds, history
<1>1. /\ missed \subseteq Request /\ leaked \subseteq Archive /\ file \subseteq Archive
      /\ Waiting({g[w].a}) \subseteq Request
      /\ disturbances \in 0 .. Disturbances
  BY DEF ArchiverInv, TypeOK, Waiting
<1>2. CASE AddRepoArchiver(w) /\ g[w].a \in row
  BY <1>1, <1>2, WorkEnds DEF AddRepoArchiver, At, Idle
<1>3. CASE Commit(w)
  <2>1. /\ g[w] # Idle /\ (g[w].new => Relied(g[w].a))
        /\ missed' \in {missed, missed \cup Waiting({g[w].a})}
        /\ leaked \ row' \subseteq leaked' /\ leaked' \subseteq leaked \cup file
    BY <1>3 DEF Commit, At, Idle, Relied
  <2>2. missed \subseteq missed' /\ missed' \subseteq Request /\ leaked' \subseteq Archive
    BY <1>1, <2>1
  <2> QED
    BY <1>1, <1>3, <2>1, <2>2, WorkEnds DEF Commit
<1>4. CASE Fail(w)
  <2>1. disturbances' \in 0 .. Disturbances
    BY <1>1, <1>4, ConstantsAssumption DEF Fail, Disturb
  <2>2. /\ missed' \in {missed, missed \cup Waiting({g[w].a})}
        /\ leaked \subseteq leaked' /\ leaked' \subseteq leaked \cup file
    BY <1>4 DEF Fail
  <2> QED
    BY <1>1, <1>4, <2>1, <2>2, WorkEnds DEF Fail
<1> QED
  BY <1>2, <1>3, <1>4

-----------------------------------------------------------------------------
(* Await.                                                                  *)

LEMMA RequestGoesOn ==
  ASSUME ArchiverInv, NEW q \in Request,
         NEW o \in [pc : {"idle", "has", "push", "poll"}, a : Archive \cup {None}],
         o.pc = "idle" <=> o.a = None,
         o.pc = "poll" => o.a \in queue' \cup stale',
         r' = [r EXCEPT ![q] = o],
         queue \subseteq queue', queue' \subseteq Archive,
         stale \subseteq stale', stale' \subseteq Archive,
         missed' \in {missed, missed \ {q}},
         disturbances' \in 0 .. Disturbances,
         UNCHANGED << row, file, avatar, g, crons, cleanups, overtaken, leaked >>
  PROVE  ArchiverInv'
<1> USE DEF ArchiverInv, crons
<1>1. /\ r'[q] = o
      /\ \A p \in Request \ {q} : r'[p] = r[p]
      /\ r' \in [Request -> [pc : {"idle", "has", "push", "poll"}, a : Archive \cup {None}]]
      /\ \A p \in Request : r'[p].pc = "idle" <=> r'[p].a = None
  BY RequestStep
<1>2. TypeOK'
  BY <1>1 DEF TypeOK
<1>3. InHand' /\ ReliedHaveFile' /\ LeftoverNeedsInterruption'
  BY DEF InHand, ReliedHaveFile, Relied, LeftoverNeedsInterruption
<1>4. PolledIsServed'
  <2> SUFFICES ASSUME NEW p \in Request, r'[p].pc = "poll", p \notin missed'
               PROVE  \/ r'[p].a \in row \cup queue' \cup stale'
                      \/ \E w \in Worker : g[w].a = r'[p].a
    BY DEF PolledIsServed
  <2>1. CASE p = q
    BY <1>1, <2>1
  <2>2. CASE p # q
    BY <1>1, <2>2 DEF PolledIsServed
  <2> QED
    BY <2>1, <2>2
<1> QED
  BY <1>2, <1>3, <1>4

LEMMA ArchiverInvRequest ==
  ASSUME ArchiverInv, NEW q \in Request,
         \/ \E a \in Archive : NewRequest(q, a)
         \/ Await(q) \/ PushFails(q) \/ GiveUp(q)
  PROVE  ArchiverInv'
<1> DEFINE Ask1 == [pc : {"idle", "has", "push", "poll"}, a : Archive \cup {None}]
<1>1. /\ disturbances \in 0 .. Disturbances /\ queue \subseteq Archive /\ stale \subseteq Archive
      /\ r \in [Request -> Ask1]
      /\ r[q].pc # "idle" => r[q].a \in Archive
  BY DEF ArchiverInv, TypeOK
<1>2. Quiet \in Ask1 /\ Quiet.pc = "idle" /\ Quiet.a = None
  BY DEF Quiet
<1>3. ASSUME NEW p \in {"push", "poll"}, NEW o, o = [r[q] EXCEPT !.pc = p]
      PROVE  o \in Ask1 /\ o.pc = p /\ o.a = r[q].a
  BY <1>1, <1>3
<1> USE DEF bounds, history
<1>4. ASSUME NEW a \in Archive, NewRequest(q, a) PROVE ArchiverInv'
  <2> DEFINE o == [pc |-> "has", a |-> a]
  <2>1. /\ o \in Ask1 /\ o.pc = "has" /\ o.a = a /\ a # None
        /\ r' = [r EXCEPT ![q] = o]
    BY <1>4, ConstantsAssumption DEF NewRequest
  <2> HIDE DEF o
  <2> QED
    BY <1>1, <1>4, <2>1, RequestGoesOn DEF NewRequest
<1>5. CASE Has(q)
  <2> DEFINE p == IF r[q].a \in InSet THEN "poll" ELSE "push"
             o == [r[q] EXCEPT !.pc = p]
  <2>1. o \in Ask1 /\ o.pc = p /\ o.a = r[q].a /\ o.a # None
    BY <1>1, <1>3, <1>5, ConstantsAssumption DEF Has
  <2>2. r' = [r EXCEPT ![q] = o] /\ missed' = missed
    BY <1>5 DEF Has, Ask
  <2>3. (o.pc = "poll" => o.a \in queue \cup stale) /\ o.pc # "idle"
    BY <2>1 DEF InSet
  <2> HIDE DEF o, p
  <2> QED
    BY <1>1, <1>5, <2>1, <2>2, <2>3, RequestGoesOn DEF Has
<1>6. CASE Push(q)
  <2>2. CASE r[q].a \in InSet
    BY <1>1, <1>2, <1>6, <2>2, RequestGoesOn DEF Push, Reply
  <2>3. CASE r[q].a \notin InSet
    <3>4. queue' = queue \cup {r[q].a} /\ queue' \subseteq Archive
      BY <1>1, <1>6, <2>3 DEF Push
    <3> DEFINE o == [r[q] EXCEPT !.pc = "poll"]
    <3>1. o \in Ask1 /\ o.pc = "poll" /\ o.a = r[q].a /\ o.a # None
      BY <1>1, <1>3, <1>6, ConstantsAssumption DEF Push
    <3>2. r' = [r EXCEPT ![q] = o] /\ missed' = missed
      BY <1>6, <2>3 DEF Push, Ask
    <3> HIDE DEF o
    <3> QED
      BY <1>1, <1>6, <3>1, <3>2, <3>4, RequestGoesOn DEF Push
  <2> QED
    BY <2>2, <2>3
<1>7. CASE PushFails(q)
  <2>1. disturbances' \in 0 .. Disturbances
    BY <1>1, <1>7, ConstantsAssumption DEF PushFails, Disturb
  <2>2. stale \subseteq stale' /\ stale' \subseteq Archive
    BY <1>1, <1>7 DEF PushFails
  <2> QED
    BY <1>1, <1>2, <1>7, <2>1, <2>2, RequestGoesOn DEF PushFails, Reply
<1>8. CASE Poll(q) \/ GiveUp(q)
  BY <1>1, <1>2, <1>8, RequestGoesOn DEF Poll, GiveUp, Reply
<1> QED
  BY <1>4, <1>5, <1>6, <1>7, <1>8 DEF Await

-----------------------------------------------------------------------------
(* Cron.                                                                   *)

(* The rows of S are deleted, and their files are in the hands of a task.  *)
LEMMA RowsDeleted ==
  ASSUME ArchiverInv, TypeOK', InHand', NEW S \in SUBSET Archive,
         row' = row \ S, missed \cup Waiting(S) \subseteq missed',
         delete \subseteq delete',
         \A a \in S : a \in delete' \/ cleanup'.a = a,
         cleanup.a \in {None, cleanup'.a},
         UNCHANGED << file, queue, stale, g, r, overtaken, leaked >>
  PROVE  ArchiverInv'
<1> USE DEF ArchiverInv
<1>1. ReliedHaveFile'
  BY DEF ReliedHaveFile, Relied
<1>2. LeftoverNeedsInterruption'
  BY ConstantsAssumption DEF LeftoverNeedsInterruption, TypeOK
<1>3. PolledIsServed'
  <2> SUFFICES ASSUME NEW q \in Request, r[q].pc = "poll", q \notin missed'
               PROVE  \/ r[q].a \in row' \cup queue \cup stale
                      \/ \E w \in Worker : g[w].a = r[q].a
    BY DEF PolledIsServed
  <2> QED
    BY DEF PolledIsServed, Waiting
<1> QED
  BY <1>1, <1>2, <1>3

(* GoOn ends what a task does with one archive.                            *)
LEMMA GoOnCleanup ==
  ASSUME TypeOK
  PROVE  /\ GoOn(cleanup) \in [pc : {"idle", "row", "file"}, a : Archive \cup {None},
                               todo : SUBSET Archive, same : SUBSET Archive]
         /\ GoOn(cleanup).a = None
BY DEF TypeOK, GoOn, Asleep

LEMMA AsleepCleanup ==
  /\ Asleep \in [pc : {"idle", "row", "file"}, a : Archive \cup {None},
                 todo : SUBSET Archive, same : SUBSET Archive]
  /\ Asleep.a = None
BY DEF Asleep

LEMMA ArchiverInvCleanup ==
  ASSUME ArchiverInv,
         FindRepoArchives \/ DeleteRepoArchiver \/ DeleteFails
  PROVE  ArchiverInv'
<1> USE DEF ArchiverInv, bounds, history
<1>1. ASSUME cleanup.a = None, cleanup'.a = None,
             cleanup' \in [pc : {"idle", "row", "file"}, a : Archive \cup {None},
                           todo : SUBSET Archive, same : SUBSET Archive],
             cleanups' \in 0 .. Cleanups, disturbances' \in 0 .. Disturbances,
             UNCHANGED << row, file, avatar, queue, stale, g, r, delete, history >>
      PROVE  ArchiverInv'
  <2>1. TypeOK'
    BY <1>1 DEF TypeOK
  <2>2. InHand' /\ ReliedHaveFile' /\ LeftoverNeedsInterruption' /\ PolledIsServed'
    BY <1>1 DEF InHand, ReliedHaveFile, Relied, LeftoverNeedsInterruption, PolledIsServed
  <2> QED
    BY <2>1, <2>2
<1>2. cleanups \in 0 .. Cleanups /\ disturbances \in 0 .. Disturbances /\ row \subseteq Archive
  BY DEF TypeOK
<1>3. CASE FindRepoArchives
  <2>1. cleanup.a = None
    BY <1>3, AsleepCleanup DEF FindRepoArchives
  <2>2. PICK S \in SUBSET row : cleanup' = [pc |-> "row", a |-> None, todo |-> S, same |-> S]
    BY <1>3 DEF FindRepoArchives
  <2>3. /\ cleanup'.a = None
        /\ cleanup' \in [pc : {"idle", "row", "file"}, a : Archive \cup {None},
                         todo : SUBSET Archive, same : SUBSET Archive]
    BY <1>2, <2>2
  <2>4. cleanups' \in 0 .. Cleanups
    BY <1>2, <1>3, ConstantsAssumption DEF FindRepoArchives, Cleanup
  <2> QED
    BY <1>1, <1>2, <1>3, <2>1, <2>3, <2>4 DEF FindRepoArchives
<1>4. CASE DeleteRepoArchiver
  <2>1. PICK a \in cleanup.todo :
          /\ row' = IF a \in cleanup.same THEN row \ {a} ELSE row
          /\ missed' = IF a \in row' THEN missed ELSE missed \cup Waiting({a})
          /\ cleanup' = [cleanup EXCEPT !.pc = "file", !.a = a, !.todo = @ \ {a}]
    BY <1>4 DEF DeleteRepoArchiver
  <2>2. a \in Archive /\ cleanup.a = None
    BY <1>4, <2>1 DEF DeleteRepoArchiver, TypeOK, InHand
  <2>3. /\ cleanup' \in [pc : {"idle", "row", "file"}, a : Archive \cup {None},
                         todo : SUBSET Archive, same : SUBSET Archive]
        /\ cleanup'.pc = "file" /\ cleanup'.a = a
    BY <2>1, <2>2 DEF TypeOK
  <2>4. missed' \subseteq Request /\ row' \subseteq Archive
    BY <2>1 DEF TypeOK, Waiting
  <2>5. UNCHANGED << file, avatar, queue, stale, g, r, delete, bounds, overtaken, leaked >>
    BY <1>4 DEF DeleteRepoArchiver
  <2>6. TypeOK' /\ InHand'
    BY <2>3, <2>4, <2>5 DEF TypeOK, InHand
  <2>7. CASE row' = row
    <3>1. missed \subseteq missed'
      BY <2>1
    <3>2. ReliedHaveFile' /\ LeftoverNeedsInterruption' /\ PolledIsServed'
      BY <2>2, <2>5, <2>7, <3>1, ConstantsAssumption
         DEF ReliedHaveFile, Relied, LeftoverNeedsInterruption, PolledIsServed, TypeOK
    <3> QED
      BY <2>6, <3>2
  <2>8. CASE row' = row \ {a}
    <3>1. missed \cup Waiting({a}) \subseteq missed'
      BY <2>1, <2>8
    <3> QED
      BY <2>2, <2>3, <2>5, <2>6, <2>8, <3>1, RowsDeleted
  <2> QED
    BY <2>1, <2>7, <2>8
<1>5. CASE DeleteFails
  <2>1. cleanup.a = None
    BY <1>5 DEF DeleteFails, InHand
  <2>2. disturbances' \in 0 .. Disturbances
    BY <1>2, <1>5, ConstantsAssumption DEF DeleteFails, Disturb
  <2> QED
    BY <1>1, <1>2, <1>5, <2>1, <2>2, AsleepCleanup DEF DeleteFails
<1> QED
  BY <1>3, <1>4, <1>5

(* A file that somebody relies on is removed: it has been overtaken.       *)
LEMMA FilesRemoved ==
  ASSUME ArchiverInv, TypeOK', InHand', NEW S \in SUBSET Archive, Remove(S),
         cleanup.a \in S \cup {None, cleanup'.a}, delete \subseteq S \cup delete',
         UNCHANGED << row, queue, stale, g, r, missed >>
  PROVE  ArchiverInv'
<1> USE DEF ArchiverInv, Remove
<1>1. ReliedHaveFile'
  BY DEF ReliedHaveFile, Relied
<1>2. LeftoverNeedsInterruption'
  BY ConstantsAssumption DEF LeftoverNeedsInterruption, TypeOK
<1>3. PolledIsServed'
  BY DEF PolledIsServed
<1> QED
  BY <1>1, <1>2, <1>3

(* A file stays where it is: it has been left behind.                      *)
LEMMA FilesLeft ==
  ASSUME ArchiverInv, TypeOK', InHand', NEW S \in SUBSET Archive,
         leaked' = leaked \cup (S \cap (file \ row)),
         cleanup.a \in S \cup {None, cleanup'.a}, delete \subseteq S \cup delete',
         UNCHANGED << row, file, queue, stale, g, r, missed, overtaken >>
  PROVE  ArchiverInv'
<1> USE DEF ArchiverInv
<1>1. ReliedHaveFile'
  BY DEF ReliedHaveFile, Relied
<1>2. LeftoverNeedsInterruption'
  BY ConstantsAssumption DEF LeftoverNeedsInterruption, TypeOK
<1>3. PolledIsServed'
  BY DEF PolledIsServed
<1> QED
  BY <1>1, <1>2, <1>3

LEMMA ArchiverInvFiles ==
  ASSUME ArchiverInv, DeleteFile \/ DeleteAllRepoArchives \/ Clean
  PROVE  ArchiverInv'
<1> USE DEF bounds, history
<1>1. /\ TypeOK /\ row \subseteq Archive /\ file \subseteq Archive /\ delete \subseteq Archive
      /\ cleanups \in 0 .. Cleanups /\ disturbances \in 0 .. Disturbances
      /\ cleanup.pc = "file" \/ cleanup.a = None
      /\ cleanup.a \in Archive \cup {None}
  BY DEF ArchiverInv, TypeOK, InHand
<1>2. CASE DeleteFile
  <2>1. cleanup' = GoOn(cleanup) /\ cleanup'.a = None
    BY <1>1, <1>2, GoOnCleanup DEF DeleteFile
  <2> DEFINE S == {cleanup.a} \cap Archive
  <2>2. ASSUME overtaken' \subseteq Archive, leaked' \subseteq Archive, file' \subseteq Archive,
               disturbances' \in 0 .. Disturbances
        PROVE  TypeOK' /\ InHand'
    <3>1. cleanup' \in [pc : {"idle", "row", "file"}, a : Archive \cup {None},
                        todo : SUBSET Archive, same : SUBSET Archive]
      BY <1>1, <2>1, GoOnCleanup
    <3> QED
      BY <1>1, <1>2, <2>1, <2>2, <3>1 DEF DeleteFile, TypeOK, InHand
  <2>3. CASE Remove({cleanup.a}) /\ UNCHANGED disturbances
    <3>1. Remove(S)
      BY <1>1, <2>3 DEF Remove, TypeOK
    <3>2. overtaken' \subseteq Archive /\ leaked' \subseteq Archive /\ file' \subseteq Archive
      BY <1>1, <3>1 DEF Remove, TypeOK
    <3>3. TypeOK' /\ InHand'
      BY <1>1, <2>2, <2>3, <3>2
    <3>4. cleanup.a \in S \cup {None}
      BY <1>1
    <3> HIDE DEF S
    <3>5. S \in SUBSET Archive
      BY DEF S
    <3> QED
      BY <1>2, <3>1, <3>3, <3>4, <3>5, FilesRemoved DEF DeleteFile
  <2>4. CASE /\ Disturb
             /\ leaked' = leaked \cup ({cleanup.a} \cap (file \ row))
             /\ UNCHANGED << file, overtaken >>
    <3>1. leaked' = leaked \cup (S \cap (file \ row))
      BY <1>1, <2>4
    <3>2. disturbances' \in 0 .. Disturbances
      BY <1>1, <2>4, ConstantsAssumption DEF Disturb
    <3>3. overtaken' \subseteq Archive /\ leaked' \subseteq Archive /\ file' \subseteq Archive
      BY <1>1, <2>4 DEF TypeOK
    <3>4. TypeOK' /\ InHand'
      BY <2>2, <3>2, <3>3
    <3>5. cleanup.a \in S \cup {None}
      BY <1>1
    <3> HIDE DEF S
    <3>6. S \in SUBSET Archive
      BY DEF S
    <3> QED
      BY <1>2, <2>4, <3>1, <3>4, <3>5, <3>6, FilesLeft DEF DeleteFile
  <2> QED
    BY <1>2, <2>3, <2>4 DEF DeleteFile
<1>3. CASE DeleteAllRepoArchives
  <2>1. /\ row' = row \ row /\ missed' = missed \cup Waiting(row) /\ delete' = Archive
        /\ cleanup' = [cleanup EXCEPT !.same = {}]
        /\ UNCHANGED << file, avatar, queue, stale, g, r, disturbances, overtaken, leaked >>
    BY <1>3 DEF DeleteAllRepoArchives
  <2>2. /\ cleanup' \in [pc : {"idle", "row", "file"}, a : Archive \cup {None},
                         todo : SUBSET Archive, same : SUBSET Archive]
        /\ cleanup'.pc = cleanup.pc /\ cleanup'.a = cleanup.a
    BY <1>1, <2>1 DEF TypeOK
  <2>3. cleanups' \in 0 .. Cleanups
    BY <1>1, <1>3, ConstantsAssumption DEF DeleteAllRepoArchives, Cleanup
  <2>4. missed' \subseteq Request
    BY <1>1, <2>1 DEF TypeOK, Waiting
  <2>5. TypeOK' /\ InHand'
    BY <1>1, <2>1, <2>2, <2>3, <2>4 DEF TypeOK, InHand
  <2> QED
    BY <1>1, <2>1, <2>2, <2>5, RowsDeleted
<1>4. CASE Clean
  <2>1. UNCHANGED << row, avatar, queue, stale, g, r, cleanup, cleanups, missed >>
    BY <1>4 DEF Clean
  <2>2. ASSUME NEW a \in delete, Remove({a}), delete' = delete \ {a}, UNCHANGED disturbances
        PROVE  ArchiverInv'
    <3>1. overtaken' \subseteq Archive /\ leaked' \subseteq Archive /\ file' \subseteq Archive
      BY <1>1, <2>2 DEF Remove, TypeOK
    <3>2. TypeOK' /\ InHand'
      BY <1>1, <2>1, <2>2, <3>1 DEF TypeOK, InHand
    <3> QED
      BY <1>1, <2>1, <2>2, <3>2, FilesRemoved
  <2>3. CASE /\ Disturb
             /\ leaked' = leaked \cup (delete \cap (file \ row))
             /\ delete' = {}
             /\ UNCHANGED << file, overtaken >>
    <3>1. disturbances' \in 0 .. Disturbances
      BY <1>1, <2>3, ConstantsAssumption DEF Disturb
    <3>2. leaked' \subseteq Archive
      BY <1>1, <2>3 DEF TypeOK
    <3>3. TypeOK' /\ InHand'
      BY <1>1, <2>1, <2>3, <3>1, <3>2 DEF TypeOK, InHand
    <3> QED
      BY <1>1, <2>1, <2>3, <3>3, FilesLeft
  <2> QED
    BY <1>4, <2>2, <2>3 DEF Clean
<1> QED
  BY <1>2, <1>3, <1>4

-----------------------------------------------------------------------------
(* The doctor looks at the storage of the avatars: it removes no archive.  *)
LEMMA ArchiverInvDoctor ==
  ASSUME ArchiverInv, CheckStorage
  PROVE  ArchiverInv'
<1> USE DEF ArchiverInv, crons, bounds, history
<1>1. \A a \in Archive : RelativePath(a) # AvatarPath
  <2> SUFFICES ASSUME NEW a \in Archive, RelativePath(a) = AvatarPath PROVE FALSE
    OBVIOUS
  <2>1. Len(RelativePath(a)) = 3 /\ Len(AvatarPath) = 1
    BY DEF RelativePath, AvatarPath
  <2> QED
    BY <2>1
<1>2. Objects(Storer) \subseteq {AvatarPath}
  BY DEF Objects, Storer
<1>3. file' = file /\ avatar' \in BOOLEAN
  BY <1>1, <1>2 DEF CheckStorage, TypeOK
<1>4. UNCHANGED << row, queue, stale, g, r, cleanup, delete, cleanups, disturbances,
                   missed, overtaken, leaked >>
  BY DEF CheckStorage
<1>5. TypeOK'
  BY <1>3, <1>4 DEF TypeOK
<1>6. InHand' /\ ReliedHaveFile' /\ LeftoverNeedsInterruption' /\ PolledIsServed'
  BY <1>3, <1>4 DEF InHand, ReliedHaveFile, Relied, LeftoverNeedsInterruption, PolledIsServed
<1> QED
  BY <1>5, <1>6

(* A crash interrupts everybody at once.                                   *)
LEMMA ArchiverInvCrash ==
  ASSUME ArchiverInv, Crash
  PROVE  ArchiverInv'
<1> USE DEF ArchiverInv, crons, bounds, history
<1>1. /\ g' = [w \in Worker |-> Idle] /\ r' = [q \in Request |-> Quiet]
      /\ cleanup' = Asleep /\ delete' = {} /\ missed' = {}
      /\ UNCHANGED << row, file, avatar, cleanups, overtaken >>
      /\ leaked' = leaked \cup {a \in file \ row : \/ \E w \in Worker : g[w].a = a
                                                   \/ cleanup.a = a \/ a \in delete}
  BY DEF Crash
<1>2. disturbances' \in 0 .. Disturbances
  BY ConstantsAssumption DEF Crash, Disturb, TypeOK
<1>3. /\ g' \in [Worker -> Work]
      /\ \A w \in Worker : g'[w] = Idle
  BY <1>1, IdleWork
<1>4. /\ r' \in [Request -> [pc : {"idle", "has", "push", "poll"}, a : Archive \cup {None}]]
      /\ \A q \in Request : r'[q].pc = "idle" /\ r'[q].a = None
  BY <1>1 DEF Quiet
<1>5. leaked' \subseteq Archive /\ queue' \subseteq Archive /\ stale' \subseteq Archive
  <2>1. Interrupted \subseteq Archive
    BY ConstantsAssumption DEF Interrupted, TypeOK
  <2> QED
    BY <1>1, <2>1 DEF Crash, TypeOK
<1>6. TypeOK' /\ InHand'
  BY <1>1, <1>2, <1>3, <1>4, <1>5, AsleepCleanup DEF TypeOK, InHand
<1>7. ReliedHaveFile'
  BY <1>1, <1>3, IdleWork DEF ReliedHaveFile, Relied
<1>8. LeftoverNeedsInterruption'
  BY <1>1 DEF LeftoverNeedsInterruption
<1>9. PolledIsServed'
  BY <1>4 DEF PolledIsServed
<1> QED
  BY <1>6, <1>7, <1>8, <1>9

-----------------------------------------------------------------------------
LEMMA ArchiverInvNext == ArchiverInv /\ [Next]_vars => ArchiverInv'
<1> SUFFICES ASSUME ArchiverInv, [Next]_vars PROVE ArchiverInv'
  OBVIOUS
<1>1. CASE UNCHANGED vars
  BY <1>1 DEF vars, crons, bounds, history, ArchiverInv, TypeOK, InHand, ReliedHaveFile, Relied,
              LeftoverNeedsInterruption, PolledIsServed
<1>2. ASSUME NEW w \in Worker, AddRepoArchiver(w) PROVE ArchiverInv'
  BY <1>2, ArchiverInvWork, ArchiverInvEnd
<1>3. ASSUME NEW w \in Worker, DoArchive(w) \/ Fail(w) \/ \E a \in Archive : Take(w, a)
      PROVE  ArchiverInv'
  BY <1>2, <1>3, ArchiverInvWork, ArchiverInvEnd DEF DoArchive
<1>4. ASSUME NEW q \in Request,
             Await(q) \/ PushFails(q) \/ GiveUp(q) \/ \E a \in Archive : NewRequest(q, a)
      PROVE  ArchiverInv'
  BY <1>4, ArchiverInvRequest
<1>5. ASSUME NEW a \in Archive, PopFails(a) PROVE ArchiverInv'
  <2>1. TypeOK'
    BY <1>5, ConstantsAssumption DEF PopFails, Disturb, ArchiverInv, TypeOK, crons, history
  <2> QED
    BY <1>5, <2>1 DEF PopFails, ArchiverInv, InHand, ReliedHaveFile, Relied, LeftoverNeedsInterruption,
                      PolledIsServed, crons, history
<1> QED
  BY <1>1, <1>3, <1>4, <1>5, ArchiverInvCleanup, ArchiverInvFiles, ArchiverInvDoctor, ArchiverInvCrash
     DEF Next

(* The inductive invariant of the archiver: with the types, the files that *)
(* rows and transactions rely on, the files without a row, and the         *)
(* requests that wait.                                                     *)
THEOREM ArchiverSafe == Spec => []ArchiverInv
BY ArchiverInvInit, ArchiverInvNext, PTL DEF Spec

(* A row that says the archive is ready has its file, unless a cron task   *)
(* removed the file of a row it had deleted before when a new row relied   *)
(* on it (archiver.go:189-217, 333-342, 376-381).                          *)
THEOREM RowsHaveFiles == Spec => []BrokenNeedsCleaner
<1>1. ArchiverInv => BrokenNeedsCleaner
  BY DEF ArchiverInv, TypeOK, ReliedHaveFile, Relied, BrokenNeedsCleaner
<1> QED
  BY <1>1, ArchiverSafe, PTL

(* A file without a row is being worked on, or will be removed, or was     *)
(* left by an interruption (archiver.go:269-285, 333-342).                 *)
THEOREM FilesHaveRows == Spec => []LeftoverNeedsInterruption
<1>1. ArchiverInv => LeftoverNeedsInterruption
  BY DEF ArchiverInv
<1> QED
  BY <1>1, ArchiverSafe, PTL

(* A request that waits for an archive is owed it by the queue, a worker   *)
(* or a row, or has been let down by an attempt that left no row or by a   *)
(* stale entry of the queue's set (archiver.go:132-173, 321-331).          *)
THEOREM WaitersServed == Spec => []PolledIsServed
<1>1. ArchiverInv => PolledIsServed
  BY DEF ArchiverInv
<1> QED
  BY <1>1, ArchiverSafe, PTL
=============================================================================
