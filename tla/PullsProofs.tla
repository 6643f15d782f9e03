----------------------------- MODULE PullsProofs -----------------------------
(***************************************************************************)
(* Proofs about Pulls.  First what each action does to the goroutine that  *)
(* takes it (the lemmas named Type and Becomes), then the type invariant,  *)
(* then five inductive invariants, each with one step per action: Held     *)
(* (the lock), Landing (the record of a merge), Checked (what lands on a   *)
(* protected branch), Retested (the verdict) and Owed (who owes a test),   *)
(* and the theorems that follow.                                           *)
(***************************************************************************)
EXTENDS Pulls, TLAPS

USE DEF At, CheckIn, CheckOut

GType == g \in [Server -> Work]

(***************************************************************************)
(* The type of what a goroutine is doing.                                  *)
(***************************************************************************)
LEMMA IdleType == Idle \in Work
BY DEF Idle, Work, Op, Pc, Status, Doer

LEMMA DoersType == Doers \subseteq Doer
BY DEF Doers, Doer

LEMMA WorkFields ==
  ASSUME GType, NEW h \in Server
  PROVE  /\ g[h].op \in Op /\ g[h].pc \in Pc /\ g[h].status \in Status
         /\ g[h].c \in Commit \cup {None} /\ g[h].b \in Nat
BY DEF Work, GType

LEMMA WorkFlags ==
  ASSUME GType, NEW h \in Server
  PROVE  g[h].doer \in Doer /\ g[h].raced \in BOOLEAN
<1>1. g[h] \in Work
  BY DEF GType
<1> QED BY <1>1, Zenon DEF Work

LEMMA FieldType ==
  ASSUME NEW r \in Work
  PROVE  /\ \A p \in Pc : [r EXCEPT !.pc = p] \in Work
         /\ \A o \in Op : [r EXCEPT !.op = o] \in Work
         /\ \A s \in Status : [r EXCEPT !.status = s] \in Work
         /\ \A c \in Commit \cup {None} : [r EXCEPT !.c = c] \in Work
         /\ \A b \in Nat : [r EXCEPT !.b = b] \in Work
         /\ \A d \in Doer : [r EXCEPT !.doer = d] \in Work
         /\ \A x \in BOOLEAN : [r EXCEPT !.raced = x] \in Work
         /\ \A c \in Commit \cup {None} : [r EXCEPT !.expected = c] \in Work
BY DEF Work

LEMMA SetType ==
  ASSUME GType, NEW h \in Server, NEW r \in Work, g' = [g EXCEPT ![h] = r]
  PROVE  GType'
BY DEF GType

LEMMA EndType ==
  ASSUME GType, NEW h \in Server, End(h)
  PROVE  GType'
BY IdleType, SetType DEF End

LEMMA GotoType ==
  ASSUME GType, NEW h \in Server, NEW p \in Pc, Goto(h, p)
  PROVE  GType'
BY DEF Work, GType, Goto

LEMMA BeginType ==
  ASSUME GType, NEW h \in Server, NEW o \in Op, NEW p \in Pc, Begin(h, o, p)
  PROVE  GType'
BY DEF Work, GType, Begin

LEMMA DetectType ==
  ASSUME GType, ref \in Commit, NEW h \in Server, Detect(h)
  PROVE  GType'
<1> DEFINE r == [[[g[h] EXCEPT !.pc = "setmerged"] EXCEPT !.status = "manual"] EXCEPT !.c = ref]
<1>1. g[h] \in Work /\ "setmerged" \in Pc /\ "manual" \in Status
  BY DEF GType, Pc, Status
<1>2. r \in Work
  BY <1>1, FieldType, Zenon
<1>3. g' = [g EXCEPT ![h] = r] \/ Goto(h, "fetch")
  BY DEF Detect
<1> HIDE DEF r
<1> QED BY <1>2, <1>3, SetType, GotoType DEF Pc

LEMMA FetchBaseType ==
  ASSUME GType, base \in Nat, NEW h \in Server, FetchBase(h)
  PROVE  GType'
<1> DEFINE r == [[g[h] EXCEPT !.pc = "tracking"] EXCEPT !.b = base]
<1>1. g' = [g EXCEPT ![h] = r]
  BY DEF FetchBase
<1>2. g[h] \in Work /\ "tracking" \in Pc
  BY DEF GType, Pc
<1>3. r \in Work
  BY <1>2, FieldType, Zenon
<1> HIDE DEF r
<1> QED BY <1>1, <1>3, SetType

LEMMA TestPatchType ==
  ASSUME GType, head \in Commit, NEW h \in Server, TestPatch(h)
  PROVE  GType'
<1> DEFINE v == VerdictOf(head, g[h].b)
           r == [[[g[h] EXCEPT !.pc = "has"] EXCEPT !.c = head] EXCEPT !.status = v]
<1>1. g' = [g EXCEPT ![h] = r]
  BY DEF TestPatch
<1>2. v \in Status /\ g[h] \in Work /\ "has" \in Pc
  BY DEF VerdictOf, Status, Verdict, GType, Pc
<1> HIDE DEF v
<1>3. r \in Work
  BY <1>2, FieldType, Zenon
<1> HIDE DEF r
<1> QED BY <1>1, <1>3, SetType

(* What a merge that goes on has fetched. *)
Fetching(h, p) == [[[g[h] EXCEPT !.c = head] EXCEPT !.pc = p] EXCEPT !.raced = g[h].raced /\ g[h].doer # "user"]

LEMMA FetchMergeGoesOn ==
  ASSUME NEW h \in Server, FetchMerge(h)
  PROVE  \/ EndMerge(h)
         \/ /\ \E p \in {"hook", "setmerged"} : g' = [g EXCEPT ![h] = Fetching(h, p)]
            /\ UNCHANGED << tasks, lock >>
<1>1. \/ EndMerge(h)
      \/ /\ \E p \in {"hook", "setmerged"} :
              g' = [g EXCEPT ![h].c = head, ![h].pc = p, ![h].raced = @ /\ g[h].doer # "user"]
         /\ UNCHANGED << tasks, lock >>
  BY Zenon DEF FetchMerge
<1>2. ASSUME NEW p \in {"hook", "setmerged"},
             g' = [g EXCEPT ![h].c = head, ![h].pc = p, ![h].raced = @ /\ g[h].doer # "user"]
      PROVE  g' = [g EXCEPT ![h] = Fetching(h, p)]
  BY <1>2, Zenon DEF Fetching
<1> QED BY <1>1, <1>2, Zenon

LEMMA FetchMergeType ==
  ASSUME GType, head \in Commit, NEW h \in Server, FetchMerge(h)
  PROVE  GType'
<1>1. ASSUME NEW p \in {"hook", "setmerged"}, g' = [g EXCEPT ![h] = Fetching(h, p)]
      PROVE  GType'
  <2>1. g[h] \in Work /\ p \in Pc
    BY DEF GType, Pc
  <2>2. (g[h].raced /\ g[h].doer # "user") \in BOOLEAN
    BY Zenon
  <2>3. Fetching(h, p) \in Work
    BY <2>1, <2>2, FieldType, Zenon DEF Fetching
  <2> QED BY <1>1, <2>3, SetType
<1> QED BY <1>1, FetchMergeGoesOn, EndType DEF EndMerge

LEMMA ReadStateType ==
  ASSUME GType, NEW h \in Server, ReadState(h)
  PROVE  GType'
<1> DEFINE r == [[g[h] EXCEPT !.op = "merge"] EXCEPT !.pc = "lock"]
<1>1. g[h] \in Work /\ "merge" \in Op /\ "lock" \in Pc
  BY DEF GType, Op, Pc
<1>2. r \in Work
  BY <1>1, FieldType, Zenon
<1>3. g' = [g EXCEPT ![h] = r] \/ Goto(h, "insert")
  BY DEF ReadState
<1> HIDE DEF r
<1> QED BY <1>2, <1>3, SetType, GotoType DEF Pc

LEMMA ReadAutoType ==
  ASSUME GType, NEW h \in Server, NEW doer \in Doers \ {"admin"}, ReadAuto(h, doer)
  PROVE  GType'
<1> DEFINE r == [[[g[h] EXCEPT !.pc = "check"] EXCEPT !.status = "mergeable"] EXCEPT !.doer = doer]
<1>1. doer \in Doer /\ g[h] \in Work /\ "check" \in Pc /\ "mergeable" \in Status
  BY DoersType DEF GType, Pc, Status, Verdict
<1>2. r \in Work
  BY <1>1, FieldType, Zenon
<1>3. g' = [g EXCEPT ![h] = r] \/ End(h)
  BY DEF ReadAuto
<1> HIDE DEF r
<1> QED BY <1>2, <1>3, SetType, EndType

(* What a request begins with. *)
LEMMA RequestType ==
  ASSUME NEW o \in Op, NEW p \in Pc, NEW doer \in Doer, NEW expected \in Commit \cup {None}
  PROVE  [Idle EXCEPT !.op = o, !.pc = p, !.status = "mergeable", !.doer = doer, !.expected = expected] \in Work
<1>1. "mergeable" \in Status
  BY DEF Status, Verdict
<1> QED BY <1>1, IdleType, FieldType, Zenon

LEMMA StartMergeType ==
  ASSUME GType, head \in Commit, NEW h \in Server, NEW doer \in Doers, NEW expected \in {None, head},
         StartMerge(h, doer, expected)
  PROVE  GType'
<1> DEFINE r == [Idle EXCEPT !.op = "merge", !.pc = "check", !.status = "mergeable", !.doer = doer, !.expected = expected]
<1>1. doer \in Doer /\ expected \in Commit \cup {None} /\ "merge" \in Op /\ "check" \in Pc
  BY DoersType DEF Op, Pc
<1>2. r \in Work
  BY <1>1, RequestType, Zenon
<1>3. g' = [g EXCEPT ![h] = r]
  BY Zenon DEF StartMerge
<1> HIDE DEF r
<1> QED BY <1>2, <1>3, SetType

LEMMA StartScheduleType ==
  ASSUME GType, head \in Commit, NEW h \in Server, NEW doer \in Doers, NEW expected \in {None, head},
         StartSchedule(h, doer, expected)
  PROVE  GType'
<1> DEFINE r == [Idle EXCEPT !.op = "schedule", !.pc = "state", !.status = "mergeable", !.doer = doer, !.expected = expected]
<1>1. doer \in Doer /\ expected \in Commit \cup {None} /\ "schedule" \in Op /\ "state" \in Pc
  BY DoersType DEF Op, Pc
<1>2. r \in Work
  BY <1>1, RequestType, Zenon
<1>3. g' = [g EXCEPT ![h] = r]
  BY Zenon DEF StartSchedule
<1> HIDE DEF r
<1> QED BY <1>2, <1>3, SetType

(* A push or a report that races the others. *)
Races(R) == g' = [i \in Server |-> [g[i] EXCEPT !.raced = R[i]]]

LEMMA RacesType ==
  ASSUME GType, NEW R \in [Server -> BOOLEAN], Races(R)
  PROVE  GType'
BY DEF GType, Work, Races

LEMMA PushHeadRaces ==
  ASSUME GType, NEW c, PushHead(c)
  PROVE  \E R \in [Server -> BOOLEAN] :
           Races(R) /\ \A i \in Server : R[i] <=> g[i].raced \/ Racing(i)
<1> DEFINE R == [i \in Server |-> g[i].raced \/ Racing(i)]
<1>1. \A i \in Server : (g[i].raced \/ Racing(i)) \in BOOLEAN
  BY Zenon
<1>2. R \in [Server -> BOOLEAN] /\ \A i \in Server : R[i] = (g[i].raced \/ Racing(i))
  BY <1>1, Zenon
<1>3. g' = [i \in Server |-> [g[i] EXCEPT !.raced = @ \/ Racing(i)]]
  BY Zenon DEF PushHead
<1>4. \A i \in Server : [g[i] EXCEPT !.raced = @ \/ Racing(i)] = [g[i] EXCEPT !.raced = R[i]]
  BY <1>2, Zenon
<1>5. Races(R)
  BY <1>3, <1>4, Zenon DEF Races
<1> QED BY <1>2, <1>5, Zenon

(* The status of the commit a merge would land is taken back. *)
TakenBack(i, c, success) == ~success /\ Racing(i) /\ ToLand(i) = c

LEMMA ReportRaces ==
  ASSUME GType, NEW h \in Server, NEW c \in Commit, NEW success \in BOOLEAN, NEW api \in BOOLEAN,
         Report(h, c, success, api)
  PROVE  \/ /\ success /\ g[h] = Idle
            /\ g' = [g EXCEPT ![h].op = "report", ![h].pc = "lookup", ![h].c = c]
         \/ \E R \in [Server -> BOOLEAN] :
              Races(R) /\ \A i \in Server : R[i] <=> g[i].raced \/ TakenBack(i, c, success)
<1> DEFINE R == [i \in Server |-> g[i].raced \/ TakenBack(i, c, success)]
<1>1. \A i \in Server : (g[i].raced \/ TakenBack(i, c, success)) \in BOOLEAN
  BY Zenon
<1>2. R \in [Server -> BOOLEAN] /\ \A i \in Server : R[i] = (g[i].raced \/ TakenBack(i, c, success))
  BY <1>1, Zenon
<1>3. CASE ~(success /\ api)
  <2>1. g' = [i \in Server |-> [g[i] EXCEPT !.raced = @ \/ TakenBack(i, c, success)]]
    BY <1>3, Zenon DEF Report, TakenBack
  <2>2. \A i \in Server : [g[i] EXCEPT !.raced = @ \/ TakenBack(i, c, success)] = [g[i] EXCEPT !.raced = R[i]]
    BY <1>2, Zenon
  <2>3. Races(R)
    BY <2>1, <2>2, Zenon DEF Races
  <2> QED BY <1>2, <2>3, Zenon
<1>4. CASE success /\ api
  BY <1>4, Zenon DEF Report
<1> QED BY <1>3, <1>4

LEMMA PushHeadType ==
  ASSUME GType, NEW c, PushHead(c)
  PROVE  GType'
BY PushHeadRaces, RacesType, Zenon

LEMMA ReportType ==
  ASSUME GType, NEW h \in Server, NEW c \in Commit, NEW success \in BOOLEAN, NEW api \in BOOLEAN,
         Report(h, c, success, api)
  PROVE  GType'
<1> DEFINE r == [[[g[h] EXCEPT !.op = "report"] EXCEPT !.pc = "lookup"] EXCEPT !.c = c]
<1>1. r \in Work
  <2>1. g[h] \in Work /\ "report" \in Op /\ "lookup" \in Pc
    BY DEF GType, Op, Pc
  <2> QED BY <2>1, FieldType, Zenon
<1>2. CASE g' = [g EXCEPT ![h].op = "report", ![h].pc = "lookup", ![h].c = c]
  <2>1. g' = [g EXCEPT ![h] = r]
    BY <1>2
  <2> HIDE DEF r
  <2> QED BY <1>1, <2>1, SetType
<1>3. CASE \E R \in [Server -> BOOLEAN] : Races(R)
  BY <1>3, RacesType
<1> QED BY ReportRaces, <1>2, <1>3, Zenon

(***************************************************************************)
(* What becomes of the goroutine that takes a step, and of the others.     *)
(***************************************************************************)
Becomes(h, o, p, s, c, b) ==
  /\ g'[h].op = o /\ g'[h].pc = p /\ g'[h].status = s /\ g'[h].c = c /\ g'[h].b = b
  /\ \A i \in Server \ {h} : g'[i] = g[i]

(* The others are raced with, no more. *)
Keeps == \A i \in Server : /\ g'[i].op = g[i].op /\ g'[i].pc = g[i].pc /\ g'[i].status = g[i].status
                           /\ g'[i].c = g[i].c /\ g'[i].b = g[i].b

LEMMA GotoBecomes ==
  ASSUME GType, NEW h \in Server, NEW p, Goto(h, p)
  PROVE  Becomes(h, g[h].op, p, g[h].status, g[h].c, g[h].b)
BY DEF GType, Work, Goto, Becomes

LEMMA EndBecomes ==
  ASSUME GType, NEW h \in Server, End(h)
  PROVE  Becomes(h, "none", "idle", "checking", None, 0)
BY DEF GType, Work, End, Becomes, Idle

LEMMA BeginBecomes ==
  ASSUME GType, NEW h \in Server, NEW o, NEW p, Begin(h, o, p)
  PROVE  g[h] = Idle /\ Becomes(h, o, p, "checking", None, 0)
<1> DEFINE r == [[g[h] EXCEPT !.op = o] EXCEPT !.pc = p]
<1>1. g' = [g EXCEPT ![h] = r] /\ g[h] = Idle
  BY DEF Begin
<1>2. r.op = o /\ r.pc = p /\ r.status = "checking" /\ r.c = None /\ r.b = 0
  BY <1>1 DEF Idle
<1> HIDE DEF r
<1> QED BY <1>1, <1>2 DEF Becomes, GType

LEMMA DetectBecomes ==
  ASSUME GType, NEW h \in Server, Detect(h)
  PROVE  \/ Becomes(h, g[h].op, "setmerged", "manual", ref, g[h].b)
         \/ Goto(h, "fetch")
<1> DEFINE r == [[[g[h] EXCEPT !.pc = "setmerged"] EXCEPT !.status = "manual"] EXCEPT !.c = ref]
<1>1. g' = [g EXCEPT ![h] = r] \/ Goto(h, "fetch")
  BY DEF Detect
<1>2. r.op = g[h].op /\ r.pc = "setmerged" /\ r.status = "manual" /\ r.c = ref /\ r.b = g[h].b
  BY DEF GType, Work
<1> HIDE DEF r
<1> QED BY <1>1, <1>2 DEF Becomes, GType

LEMMA FetchBaseBecomes ==
  ASSUME GType, NEW h \in Server, FetchBase(h)
  PROVE  /\ Becomes(h, g[h].op, "tracking", g[h].status, g[h].c, base)
         /\ g'[h].doer = g[h].doer /\ g'[h].raced = g[h].raced
<1> DEFINE r == [[g[h] EXCEPT !.pc = "tracking"] EXCEPT !.b = base]
<1>1. g' = [g EXCEPT ![h] = r]
  BY DEF FetchBase
<1>2. r.op = g[h].op /\ r.pc = "tracking" /\ r.status = g[h].status /\ r.c = g[h].c /\ r.b = base
  BY DEF GType, Work
<1>3. r.doer = g[h].doer /\ r.raced = g[h].raced
  <2>1. g[h] \in Work
    BY DEF GType
  <2> QED BY <2>1, Zenon DEF Work
<1> HIDE DEF r
<1> QED BY <1>1, <1>2, <1>3 DEF Becomes, GType

LEMMA FetchBaseKeeps ==
  ASSUME NEW h \in Server, FetchBase(h)
  PROVE  /\ g[h].pc = "fetch"
         /\ UNCHANGED << config, head, base, pr, passed, testing, lock, tasks, starting, judged, merges, lost, stuck, torn, shut >>
BY DEF FetchBase, git, queues, history

LEMMA TestPatchBecomes ==
  ASSUME GType, NEW h \in Server, TestPatch(h)
  PROVE  Becomes(h, g[h].op, "has", VerdictOf(head, g[h].b), head, g[h].b)
<1> DEFINE v == VerdictOf(head, g[h].b)
<1> DEFINE r == [[[g[h] EXCEPT !.pc = "has"] EXCEPT !.c = head] EXCEPT !.status = v]
<1>1. g' = [g EXCEPT ![h] = r]
  BY DEF TestPatch
<1> HIDE DEF v
<1>2. r.op = g[h].op /\ r.pc = "has" /\ r.status = v /\ r.c = head /\ r.b = g[h].b
  BY DEF GType, Work
<1> HIDE DEF r
<1> QED BY <1>1, <1>2 DEF Becomes, GType, v

LEMMA FetchMergeBecomes ==
  ASSUME GType, NEW h \in Server, FetchMerge(h)
  PROVE  \/ EndMerge(h)
         \/ /\ \E p \in {"hook", "setmerged"} : Becomes(h, g[h].op, p, g[h].status, head, g[h].b)
            /\ g'[h].doer = g[h].doer /\ (g'[h].raced <=> g[h].raced /\ g[h].doer # "user")
            /\ UNCHANGED << tasks, lock >>
<1>1. ASSUME NEW p \in {"hook", "setmerged"}, g' = [g EXCEPT ![h] = Fetching(h, p)]
      PROVE  /\ Becomes(h, g[h].op, p, g[h].status, head, g[h].b)
             /\ g'[h].doer = g[h].doer /\ (g'[h].raced <=> g[h].raced /\ g[h].doer # "user")
  <2> DEFINE r0 == [[g[h] EXCEPT !.c = head] EXCEPT !.pc = p]
             r  == [r0 EXCEPT !.raced = g[h].raced /\ g[h].doer # "user"]
  <2>1. g[h] \in Work
    BY DEF GType
  <2>2. r0.op = g[h].op /\ r0.pc = p /\ r0.status = g[h].status /\ r0.c = head /\ r0.b = g[h].b /\ r0.doer = g[h].doer
    BY <2>1 DEF Work
  <2>3. DOMAIN r0 = DOMAIN g[h] /\ "raced" \in DOMAIN g[h]
    BY <2>1 DEF Work
  <2>4. r.raced <=> g[h].raced /\ g[h].doer # "user"
    <3> HIDE DEF r0
    <3> QED BY <2>3, Zenon
  <2>5. r.op = r0.op /\ r.pc = r0.pc /\ r.status = r0.status /\ r.c = r0.c /\ r.b = r0.b /\ r.doer = r0.doer
    <3> HIDE DEF r0
    <3> QED BY <2>3
  <2>6. g' = [g EXCEPT ![h] = r]
    BY <1>1 DEF Fetching
  <2> HIDE DEF r, r0
  <2>7. g'[h] = r /\ \A i \in Server \ {h} : g'[i] = g[i]
    BY <2>6 DEF GType
  <2> QED BY <2>2, <2>4, <2>5, <2>7, Zenon DEF Becomes
<1> QED BY <1>1, FetchMergeGoesOn

LEMMA ReadStateBecomes ==
  ASSUME GType, NEW h \in Server, ReadState(h)
  PROVE  \/ Becomes(h, "merge", "lock", g[h].status, g[h].c, g[h].b)
         \/ Goto(h, "insert")
<1> DEFINE r == [[g[h] EXCEPT !.op = "merge"] EXCEPT !.pc = "lock"]
<1>1. g' = [g EXCEPT ![h] = r] \/ Goto(h, "insert")
  BY DEF ReadState
<1>2. r.op = "merge" /\ r.pc = "lock" /\ r.status = g[h].status /\ r.c = g[h].c /\ r.b = g[h].b
  BY DEF GType, Work
<1> HIDE DEF r
<1> QED BY <1>1, <1>2 DEF Becomes, GType

LEMMA ReadAutoBecomes ==
  ASSUME GType, NEW h \in Server, NEW doer, ReadAuto(h, doer)
  PROVE  \/ Ready /\ Becomes(h, g[h].op, "check", "mergeable", g[h].c, g[h].b)
         \/ End(h)
<1> DEFINE r0 == [[g[h] EXCEPT !.pc = "check"] EXCEPT !.status = "mergeable"]
<1> DEFINE r == [r0 EXCEPT !.doer = doer]
<1>1. (g' = [g EXCEPT ![h] = r] /\ Ready) \/ End(h)
  BY DEF ReadAuto
<1>2. r0.op = g[h].op /\ r0.pc = "check" /\ r0.status = "mergeable" /\ r0.c = g[h].c /\ r0.b = g[h].b
  BY DEF GType, Work
<1> HIDE DEF r0
<1>3. r.op = r0.op /\ r.pc = r0.pc /\ r.status = r0.status /\ r.c = r0.c /\ r.b = r0.b
  OBVIOUS
<1> HIDE DEF r
<1> QED BY <1>1, <1>2, <1>3 DEF Becomes, GType

LEMMA StartMergeBecomes ==
  ASSUME GType, NEW h \in Server, NEW doer, NEW expected, StartMerge(h, doer, expected)
  PROVE  g[h] = Idle /\ Becomes(h, "merge", "check", "mergeable", None, 0)
<1> DEFINE r0 == [[[Idle EXCEPT !.op = "merge"] EXCEPT !.pc = "check"] EXCEPT !.status = "mergeable"]
<1> DEFINE r == [[r0 EXCEPT !.doer = doer] EXCEPT !.expected = expected]
<1>1. g' = [g EXCEPT ![h] = r]
  BY Zenon DEF StartMerge
<1>2. r0.op = "merge" /\ r0.pc = "check" /\ r0.status = "mergeable" /\ r0.c = None /\ r0.b = 0
  BY DEF Idle
<1> HIDE DEF r0
<1>3. r.op = r0.op /\ r.pc = r0.pc /\ r.status = r0.status /\ r.c = r0.c /\ r.b = r0.b
  OBVIOUS
<1> HIDE DEF r
<1>4. g[h] = Idle
  BY DEF StartMerge
<1> QED BY <1>1, <1>2, <1>3, <1>4 DEF Becomes, GType

LEMMA StartScheduleBecomes ==
  ASSUME GType, NEW h \in Server, NEW doer, NEW expected, StartSchedule(h, doer, expected)
  PROVE  g[h] = Idle /\ Becomes(h, "schedule", "state", "mergeable", None, 0)
<1> DEFINE r0 == [[[Idle EXCEPT !.op = "schedule"] EXCEPT !.pc = "state"] EXCEPT !.status = "mergeable"]
<1> DEFINE r == [[r0 EXCEPT !.doer = doer] EXCEPT !.expected = expected]
<1>1. g' = [g EXCEPT ![h] = r]
  BY Zenon DEF StartSchedule
<1>2. r0.op = "schedule" /\ r0.pc = "state" /\ r0.status = "mergeable" /\ r0.c = None /\ r0.b = 0
  BY DEF Idle
<1> HIDE DEF r0
<1>3. r.op = r0.op /\ r.pc = r0.pc /\ r.status = r0.status /\ r.c = r0.c /\ r.b = r0.b
  OBVIOUS
<1> HIDE DEF r
<1>4. g[h] = Idle
  BY DEF StartSchedule
<1> QED BY <1>1, <1>2, <1>3, <1>4 DEF Becomes, GType

LEMMA RacesKeeps ==
  ASSUME GType, NEW R, Races(R)
  PROVE  Keeps
BY DEF GType, Work, Keeps, Races

LEMMA RacesFlags ==
  ASSUME GType, NEW R \in [Server -> BOOLEAN], Races(R), NEW h \in Server
  PROVE  g'[h].doer = g[h].doer /\ g'[h].raced = R[h]
<1>1. g'[h] = [g[h] EXCEPT !.raced = R[h]]
  BY DEF Races
<1>2. g[h] \in Work
  BY DEF GType
<1> QED BY <1>1, <1>2, Zenon DEF Work

LEMMA PushHeadKeeps ==
  ASSUME GType, NEW c, PushHead(c)
  PROVE  Keeps
BY PushHeadRaces, RacesKeeps, Zenon

LEMMA ReportBecomes ==
  ASSUME GType, NEW h \in Server, NEW c \in Commit, NEW success \in BOOLEAN, NEW api \in BOOLEAN,
         Report(h, c, success, api)
  PROVE  \/ g[h] = Idle /\ Becomes(h, "report", "lookup", g[h].status, c, g[h].b)
         \/ Keeps
<1> DEFINE r == [[[g[h] EXCEPT !.op = "report"] EXCEPT !.pc = "lookup"] EXCEPT !.c = c]
<1>1. CASE g[h] = Idle /\ g' = [g EXCEPT ![h].op = "report", ![h].pc = "lookup", ![h].c = c]
  <2>1. g' = [g EXCEPT ![h] = r]
    BY <1>1
  <2>2. r.op = "report" /\ r.pc = "lookup" /\ r.status = g[h].status /\ r.c = c /\ r.b = g[h].b
    BY DEF GType, Work
  <2> HIDE DEF r
  <2> QED BY <1>1, <2>1, <2>2 DEF Becomes, GType
<1>2. CASE \E R \in [Server -> BOOLEAN] : Races(R)
  BY <1>2, RacesKeeps
<1> QED BY ReportRaces, <1>1, <1>2, Zenon

(***************************************************************************)
(* Type correctness.                                                       *)
(***************************************************************************)
(* TypeOK, in parts that a backend can take one at a time. *)
RowType == pr \in Row
GitType == head \in Commit /\ ref \in Commit /\ base \in Nat /\ landed \in [Commit -> Nat]
RestType ==
  /\ config \in Config
  /\ passed \subseteq Commit /\ waking \subseteq Commit
  /\ lock \in Server \cup {None}
  /\ tasks \in [{"head", "base"} -> Nat]
  /\ judged \in Commit \X Nat /\ merges \subseteq Commit
  /\ interventions \in 0..Interventions /\ faults \in 0..Faults
FlagType ==
  /\ scheduled \in BOOLEAN /\ testing \in BOOLEAN /\ stale \in BOOLEAN /\ starting \in BOOLEAN
  /\ lost \in BOOLEAN /\ stuck \in BOOLEAN /\ torn \in BOOLEAN /\ shut \in BOOLEAN

(* Who uses a commit has fetched one. *)
Fetched ==
  \A h \in Server :
    \/ g[h].pc \in {"hook", "push", "has", "write", "save"}
    \/ g[h].pc = "setmerged" /\ g[h].op # "manual"
    => g[h].c \in Commit

Typed == GType /\ Fetched /\ RowType /\ GitType /\ RestType /\ FlagType

LEMMA StatusType ==
  ASSUME RowType, NEW s \in Status
  PROVE  SetStatus(s) \in Row /\ [pr EXCEPT !.status = s] \in Row
BY DEF Row, SetStatus, RowType

LEMMA MergedType ==
  ASSUME RowType, NEW c \in Commit \cup {None}, NEW s \in Status
  PROVE  [pr EXCEPT !.merged = c, !.status = s] \in Row
BY DEF Row, RowType

LEMMA ManualType ==
  ASSUME NEW c \in Commit
  PROVE  [status |-> "manual", merged |-> c, closed |-> TRUE] \in Row
BY DEF Row, Status

LEMMA ClosedType ==
  ASSUME RowType, NEW x \in BOOLEAN
  PROVE  [pr EXCEPT !.closed = x] \in Row
<1>1. pr \in [status : Status, merged : Commit \cup {None}, closed : BOOLEAN]
  BY DEF Row, RowType
<1> QED BY <1>1, Zenon DEF Row

LEMMA LandsType ==
  ASSUME GitType, merges \subseteq Commit, NEW h \in Server, g[h].c \in Commit, Lands(h)
  PROVE  base' \in Nat /\ landed' \in [Commit -> Nat] /\ merges' \subseteq Commit
BY DEF GitType, Lands

LEMMA TypedIsTypeOK == Typed => TypeOK
BY Zenon DEF TypeOK, Typed, GType, RowType, GitType, RestType, FlagType

LEMMA TypedStutters == Typed /\ UNCHANGED vars => Typed'
BY Zenon DEF Typed, GType, Fetched, RowType, GitType, RestType, FlagType, vars, git, queues, history, bounds

LEMMA TypedInit == Init => Typed
<1> SUFFICES ASSUME Init PROVE Typed
  OBVIOUS
<1>1. GType /\ RowType /\ GitType
  BY IdleType DEF Init, GType, RowType, GitType, Row, Status, Verdict
<1>2. RestType
  BY ConstantsAssumption DEF Init, RestType
<1>3. FlagType
  BY Zenon DEF Init, FlagType
<1>4. Fetched
  BY DEF Init, Fetched, Idle
<1> QED BY <1>1, <1>2, <1>3, <1>4 DEF Typed

LEMMA TypedSteps == Typed /\ Next => Typed'
<1> SUFFICES ASSUME Typed, Next PROVE Typed'
  OBVIOUS
<1> USE DEF Typed
<1>1. ASSUME NEW h \in Server, Go(h)
    PROVE  Typed'
  <2>1. CASE Mark(h)
    <3>1. GType'
      BY <2>1, GotoType DEF Mark, Pc
    <3>2. Fetched'
      BY <2>1, GotoBecomes DEF Mark, Fetched, Becomes
    <3>3. RowType'
      BY <2>1, StatusType DEF Mark, RowType, Status
    <3>4. GitType' /\ RestType'
      BY <2>1, ConstantsAssumption DEF Mark, GitType, RestType, vars, git, queues, history, bounds
    <3>5. FlagType'
      BY <2>1, Zenon DEF Mark, FlagType, vars, git, queues, history, bounds
    <3> QED BY <3>1, <3>2, <3>3, <3>4, <3>5
  <2>2. CASE Enqueue(h)
    <3>1. GType'
      BY <2>2, GotoType, EndType DEF Enqueue, AfterEnqueue, Pc
    <3>2. Fetched'
      BY <2>2, GotoBecomes, EndBecomes DEF Enqueue, AfterEnqueue, Fetched, Becomes
    <3>3. RowType' /\ GitType' /\ RestType'
      BY <2>2, ConstantsAssumption DEF Enqueue, RowType, GitType, RestType, vars, git, queues, history, bounds
    <3>4. FlagType'
      BY <2>2, Zenon DEF Enqueue, FlagType, vars, git, queues, history, bounds
    <3> QED BY <3>1, <3>2, <3>3, <3>4
  <2>3. CASE PushToBaseRepo(h)
    <3>1. GType'
      BY <2>3, GotoType DEF PushToBaseRepo, Pc
    <3>2. Fetched'
      BY <2>3, GotoBecomes DEF PushToBaseRepo, Fetched, Becomes
    <3>3. RowType' /\ GitType' /\ RestType'
      BY <2>3, ConstantsAssumption DEF PushToBaseRepo, RowType, GitType, RestType, vars, git, queues, history, bounds
    <3>4. FlagType'
      BY <2>3, Zenon DEF PushToBaseRepo, FlagType, vars, git, queues, history, bounds
    <3> QED BY <3>1, <3>2, <3>3, <3>4
  <2>4. ASSUME NEW branch \in {"head", "base"}, StartUpdate(h, branch)
        PROVE  Typed'
    <3>1. GType'
      BY <2>4, BeginType, (IF branch = "head" THEN "pushref" ELSE "mark") \in Pc DEF StartUpdate, GType, Pc, Op
    <3>2. Fetched'
      BY <2>4, BeginBecomes DEF StartUpdate, Fetched, Becomes
    <3>3. RowType' /\ GitType' /\ RestType'
      BY <2>4, ConstantsAssumption DEF StartUpdate, RowType, GitType, RestType, vars, git, queues, history, bounds
    <3>4. FlagType'
      BY <2>4, Zenon DEF StartUpdate, FlagType, vars, git, queues, history, bounds
    <3> QED BY <3>1, <3>2, <3>3, <3>4
  <2>5. CASE TakeTest(h)
    <3>1. GType'
      BY <2>5, BeginType DEF TakeTest, Pc, Op
    <3>2. Fetched'
      BY <2>5, BeginBecomes DEF TakeTest, Fetched, Becomes
    <3>3. RowType' /\ GitType' /\ RestType'
      BY <2>5, ConstantsAssumption DEF TakeTest, RowType, GitType, RestType, vars, git, queues, history, bounds
    <3>4. FlagType'
      BY <2>5, Zenon DEF TakeTest, FlagType, vars, git, queues, history, bounds
    <3> QED BY <3>1, <3>2, <3>3, <3>4
  <2>6. CASE TakeAuto(h)
    <3>1. GType'
      BY <2>6, BeginType DEF TakeAuto, Pc, Op
    <3>2. Fetched'
      BY <2>6, BeginBecomes DEF TakeAuto, Fetched, Becomes
    <3>3. RowType' /\ GitType' /\ RestType'
      BY <2>6, ConstantsAssumption DEF TakeAuto, RowType, GitType, RestType, vars, git, queues, history, bounds
    <3>4. FlagType'
      BY <2>6, Zenon DEF TakeAuto, FlagType, vars, git, queues, history, bounds
    <3> QED BY <3>1, <3>2, <3>3, <3>4
  <2>7. CASE LockTest(h)
    <3>1. GType'
      BY <2>7, GotoType DEF LockTest, Pc
    <3>2. Fetched'
      BY <2>7, GotoBecomes DEF LockTest, Fetched, Becomes
    <3>3. RowType' /\ GitType' /\ RestType'
      BY <2>7, ConstantsAssumption DEF LockTest, RowType, GitType, RestType, vars, git, queues, history, bounds
    <3>4. FlagType'
      BY <2>7, Zenon DEF LockTest, FlagType, vars, git, queues, history, bounds
    <3> QED BY <3>1, <3>2, <3>3, <3>4
  <2>8. CASE ReadTest(h)
    <3>1. GType'
      BY <2>8, GotoType, EndType DEF ReadTest, Pc
    <3>2. Fetched'
      BY <2>8, GotoBecomes, EndBecomes DEF ReadTest, Fetched, Becomes
    <3>3. RowType' /\ GitType' /\ RestType'
      BY <2>8, ConstantsAssumption DEF ReadTest, RowType, GitType, RestType, vars, git, queues, history, bounds
    <3>4. FlagType'
      BY <2>8, Zenon DEF ReadTest, FlagType, vars, git, queues, history, bounds
    <3> QED BY <3>1, <3>2, <3>3, <3>4
  <2>9. CASE Detect(h)
    <3>1. GType'
      BY <2>9, DetectType, GotoType DEF Detect, Pc, GitType
    <3>2. Fetched'
      BY <2>9, DetectBecomes, GotoBecomes DEF GitType, Fetched, Becomes
    <3>3. RowType' /\ GitType' /\ RestType'
      BY <2>9, ConstantsAssumption DEF Detect, RowType, GitType, RestType, vars, git, queues, history, bounds
    <3>4. FlagType'
      BY <2>9, Zenon DEF Detect, FlagType, vars, git, queues, history, bounds
    <3> QED BY <3>1, <3>2, <3>3, <3>4
  <2>10. CASE TestPatch(h)
    <3>1. GType'
      BY <2>10, TestPatchType DEF TestPatch, GitType
    <3>2. Fetched'
      BY <2>10, TestPatchBecomes DEF TestPatch, GitType, Fetched, Becomes
    <3>3. RowType' /\ GitType' /\ RestType'
      BY <2>10, ConstantsAssumption DEF TestPatch, RowType, GitType, RestType, vars, git, queues, history, bounds
    <3>4. FlagType'
      BY <2>10, Zenon DEF TestPatch, FlagType, vars, git, queues, history, bounds
    <3> QED BY <3>1, <3>2, <3>3, <3>4
  <2>11. CASE WriteError(h)
    <3>1. GType'
      BY <2>11, EndType DEF WriteError
    <3>2. Fetched'
      BY <2>11, EndBecomes DEF WriteError, Fetched, Becomes
    <3>3. RowType'
      BY <2>11, StatusType DEF WriteError, RowType, Status
    <3>4. GitType' /\ RestType'
      BY <2>11, ConstantsAssumption DEF WriteError, GitType, RestType, vars, git, queues, history, bounds
    <3>5. FlagType'
      BY <2>11, Zenon DEF WriteError, FlagType, vars, git, queues, history, bounds
    <3> QED BY <3>1, <3>2, <3>3, <3>4, <3>5
  <2>12. CASE HasTest(h)
    <3>1. GType'
      BY <2>12, GotoType, EndType DEF HasTest, Pc
    <3>2. Fetched'
      BY <2>12, GotoBecomes, EndBecomes DEF HasTest, Fetched, Becomes
    <3>3. RowType' /\ GitType' /\ RestType'
      BY <2>12, ConstantsAssumption DEF HasTest, RowType, GitType, RestType, vars, git, queues, history, bounds
    <3>4. FlagType'
      BY <2>12, Zenon DEF HasTest, FlagType, vars, git, queues, history, bounds
    <3> QED BY <3>1, <3>2, <3>3, <3>4
  <2>13. CASE WriteVerdict(h)
    <3>1. GType'
      BY <2>13, EndType DEF WriteVerdict
    <3>2. Fetched'
      BY <2>13, EndBecomes DEF WriteVerdict, Fetched, Becomes
    <3>3. RowType'
      BY <2>13, StatusType, WorkFields DEF WriteVerdict, RowType
    <3>4. GitType' /\ RestType'
      BY <2>13, ConstantsAssumption, WorkFields DEF WriteVerdict, GitType, RestType, Fetched, vars, git, queues, history, bounds
    <3>5. FlagType'
      BY <2>13, Zenon DEF WriteVerdict, FlagType, vars, git, queues, history, bounds
    <3> QED BY <3>1, <3>2, <3>3, <3>4, <3>5
  <2>14. CASE CheckPullMergable(h)
    <3>1. GType'
      BY <2>14, GotoType, EndType DEF CheckPullMergable, Pc
    <3>2. Fetched'
      BY <2>14, GotoBecomes, EndBecomes DEF CheckPullMergable, Fetched, Becomes
    <3>3. RowType' /\ GitType' /\ RestType'
      BY <2>14, ConstantsAssumption DEF CheckPullMergable, RowType, GitType, RestType, vars, git, queues, history, bounds
    <3>4. FlagType'
      BY <2>14, Zenon DEF CheckPullMergable, FlagType, vars, git, queues, history, bounds
    <3> QED BY <3>1, <3>2, <3>3, <3>4
  <2>15. CASE LockMerge(h)
    <3>1. GType'
      BY <2>15, GotoType DEF LockMerge, Pc
    <3>2. Fetched'
      BY <2>15, GotoBecomes DEF LockMerge, Fetched, Becomes
    <3>3. RowType' /\ GitType' /\ RestType'
      BY <2>15, ConstantsAssumption DEF LockMerge, RowType, GitType, RestType, vars, git, queues, history, bounds
    <3>4. FlagType'
      BY <2>15, Zenon DEF LockMerge, FlagType, vars, git, queues, history, bounds
    <3> QED BY <3>1, <3>2, <3>3, <3>4
  <2>16. CASE FetchMerge(h)
    <3>1. GType'
      BY <2>16, FetchMergeType, EndType DEF FetchMerge, EndMerge, GitType
    <3>2. Fetched'
      BY <2>16, FetchMergeBecomes, EndBecomes DEF EndMerge, GitType, Fetched, Becomes
    <3>3. RowType' /\ GitType' /\ RestType'
      BY <2>16, ConstantsAssumption DEF FetchMerge, EndMerge, RowType, GitType, RestType, vars, git, queues, history, bounds
    <3>4. FlagType'
      BY <2>16, Zenon DEF FetchMerge, FlagType, vars, git, queues, history, bounds
    <3> QED BY <3>1, <3>2, <3>3, <3>4
  <2>17. CASE PreReceive(h)
    <3>1. GType'
      BY <2>17, GotoType, EndType DEF PreReceive, EndMerge, Pc
    <3>2. Fetched'
      BY <2>17, GotoBecomes, EndBecomes DEF PreReceive, EndMerge, Fetched, Becomes
    <3>3. RowType' /\ GitType' /\ RestType'
      BY <2>17, ConstantsAssumption DEF PreReceive, EndMerge, RowType, GitType, RestType, vars, git, queues, history, bounds
    <3>4. FlagType'
      BY <2>17, Zenon DEF PreReceive, FlagType, vars, git, queues, history, bounds
    <3> QED BY <3>1, <3>2, <3>3, <3>4
  <2>18. CASE PushMerge(h)
    <3>1. GType'
      BY <2>18, GotoType, EndType DEF PushMerge, EndMerge, Pc
    <3>2. Fetched'
      BY <2>18, GotoBecomes, EndBecomes DEF PushMerge, EndMerge, Fetched, Becomes
    <3>3. RowType' /\ GitType' /\ RestType'
      BY <2>18, LandsType, ConstantsAssumption DEF PushMerge, EndMerge, RowType, GitType, RestType, Fetched, vars, git, queues, history, bounds
    <3>4. FlagType'
      BY <2>18, Zenon DEF PushMerge, FlagType, vars, git, queues, history, bounds
    <3> QED BY <3>1, <3>2, <3>3, <3>4
  <2>19. CASE SetMerged(h)
    <3>1. GType'
      BY <2>19, GotoType, EndType DEF SetMerged, EndMerge, Pc
    <3>2. Fetched'
      BY <2>19, GotoBecomes, EndBecomes DEF SetMerged, EndMerge, Fetched, Becomes
    <3>3. RowType'
      BY <2>19, ClosedType DEF SetMerged, RowType
    <3>4. GitType' /\ RestType'
      BY <2>19, ConstantsAssumption DEF SetMerged, EndMerge, GitType, RestType, vars, git, queues, history, bounds
    <3>5. FlagType'
      BY <2>19, Zenon DEF SetMerged, FlagType, vars, git, queues, history, bounds
    <3> QED BY <3>1, <3>2, <3>3, <3>4, <3>5
  <2>20. CASE SaveMerged(h)
    <3>1. GType'
      BY <2>20, EndType DEF SaveMerged, AfterSetMerged, EndMerge
    <3>2. Fetched'
      BY <2>20, EndBecomes DEF SaveMerged, AfterSetMerged, EndMerge, Fetched, Becomes
    <3>3. RowType'
      BY <2>20, MergedType, WorkFields DEF SaveMerged, RowType
    <3>4. GitType' /\ RestType'
      BY <2>20, ConstantsAssumption DEF SaveMerged, AfterSetMerged, EndMerge, GitType, RestType, vars, git, queues, history, bounds
    <3>5. FlagType'
      BY <2>20, Zenon DEF SaveMerged, FlagType, vars, git, queues, history, bounds
    <3> QED BY <3>1, <3>2, <3>3, <3>4, <3>5
  <2>21. CASE LockManual(h)
    <3>1. GType'
      BY <2>21, GotoType DEF LockManual, Pc
    <3>2. Fetched'
      BY <2>21, GotoBecomes DEF LockManual, Fetched, Becomes
    <3>3. RowType' /\ GitType' /\ RestType'
      BY <2>21, ConstantsAssumption DEF LockManual, RowType, GitType, RestType, vars, git, queues, history, bounds
    <3>4. FlagType'
      BY <2>21, Zenon DEF LockManual, FlagType, vars, git, queues, history, bounds
    <3> QED BY <3>1, <3>2, <3>3, <3>4
  <2>22. CASE MergedManually(h)
    <3>1. GType'
      BY <2>22, EndType DEF MergedManually
    <3>2. Fetched'
      BY <2>22, EndBecomes DEF MergedManually, Fetched, Becomes
    <3>3. RowType'
      BY <2>22, ManualType DEF MergedManually, RowType, GitType
    <3>4. GitType' /\ RestType'
      BY <2>22, ConstantsAssumption DEF MergedManually, GitType, RestType, vars, git, queues, history, bounds
    <3>5. FlagType'
      BY <2>22, Zenon DEF MergedManually, FlagType, vars, git, queues, history, bounds
    <3> QED BY <3>1, <3>2, <3>3, <3>4, <3>5
  <2>23. CASE CompareRefs(h)
    <3>1. GType'
      BY <2>23, GotoType DEF CompareRefs, Pc
    <3>2. Fetched'
      BY <2>23, GotoBecomes DEF CompareRefs, Fetched, Becomes
    <3>3. RowType' /\ GitType' /\ RestType'
      BY <2>23, ConstantsAssumption DEF CompareRefs, RowType, GitType, RestType, vars, git, queues, history, bounds
    <3>4. FlagType'
      BY <2>23, Zenon DEF CompareRefs, FlagType, vars, git, queues, history, bounds
    <3> QED BY <3>1, <3>2, <3>3, <3>4
  <2>24. CASE Open(h)
    <3>1. GType'
      BY <2>24, EndType DEF Open
    <3>2. Fetched'
      BY <2>24, EndBecomes DEF Open, Fetched, Becomes
    <3>3. RowType'
      BY <2>24, ClosedType DEF Open, RowType
    <3>4. GitType' /\ RestType'
      BY <2>24, ConstantsAssumption DEF Open, GitType, RestType, vars, git, queues, history, bounds
    <3>5. FlagType'
      BY <2>24, Zenon DEF Open, FlagType, vars, git, queues, history, bounds
    <3> QED BY <3>1, <3>2, <3>3, <3>4, <3>5
  <2>25. CASE Lookup(h)
    <3>1. GType'
      BY <2>25, EndType DEF Lookup
    <3>2. Fetched'
      BY <2>25, EndBecomes DEF Lookup, Fetched, Becomes
    <3>3. RowType' /\ GitType' /\ RestType'
      BY <2>25, ConstantsAssumption DEF Lookup, RowType, GitType, RestType, vars, git, queues, history, bounds
    <3>4. FlagType'
      BY <2>25, Zenon DEF Lookup, FlagType, vars, git, queues, history, bounds
    <3> QED BY <3>1, <3>2, <3>3, <3>4
  <2>26. ASSUME NEW doer \in Doers \ {"admin"}, ReadAuto(h, doer)
        PROVE  Typed'
    <3>1. GType'
      BY <2>26, ReadAutoType, EndType DEF ReadAuto
    <3>2. Fetched'
      BY <2>26, ReadAutoBecomes, EndBecomes DEF ReadAuto, Fetched, Becomes
    <3>3. RowType' /\ GitType' /\ RestType'
      BY <2>26, ConstantsAssumption DEF ReadAuto, RowType, GitType, RestType, vars, git, queues, history, bounds
    <3>4. FlagType'
      BY <2>26, Zenon DEF ReadAuto, FlagType, vars, git, queues, history, bounds
    <3> QED BY <3>1, <3>2, <3>3, <3>4
  <2>27. CASE ReadState(h)
    <3>1. GType'
      BY <2>27, ReadStateType, GotoType DEF ReadState, Pc
    <3>2. Fetched'
      BY <2>27, ReadStateBecomes, GotoBecomes DEF ReadState, Fetched, Becomes
    <3>3. RowType' /\ GitType' /\ RestType'
      BY <2>27, ConstantsAssumption DEF ReadState, RowType, GitType, RestType, vars, git, queues, history, bounds
    <3>4. FlagType'
      BY <2>27, Zenon DEF ReadState, FlagType, vars, git, queues, history, bounds
    <3> QED BY <3>1, <3>2, <3>3, <3>4
  <2>28. CASE InsertSchedule(h)
    <3>1. GType'
      BY <2>28, EndType DEF InsertSchedule
    <3>2. Fetched'
      BY <2>28, EndBecomes DEF InsertSchedule, Fetched, Becomes
    <3>3. RowType' /\ GitType' /\ RestType'
      BY <2>28, ConstantsAssumption DEF InsertSchedule, RowType, GitType, RestType, vars, git, queues, history, bounds
    <3>4. FlagType'
      BY <2>28, Zenon DEF InsertSchedule, FlagType, vars, git, queues, history, bounds
    <3> QED BY <3>1, <3>2, <3>3, <3>4
  <2>29. CASE FetchBase(h)
    <3>1. GType'
      BY <2>29, FetchBaseType DEF GitType
    <3>2. Fetched'
      BY <2>29, FetchBaseBecomes, FetchBaseKeeps DEF Fetched, Becomes
    <3>3. RowType' /\ GitType' /\ RestType'
      BY <2>29, ConstantsAssumption DEF FetchBase, RowType, GitType, RestType, vars, git, queues, history, bounds
    <3>4. FlagType'
      BY <2>29, Zenon DEF FetchBase, FlagType, vars, git, queues, history, bounds
    <3> QED BY <3>1, <3>2, <3>3, <3>4
  <2> QED BY <1>1, <2>1, <2>2, <2>3, <2>4, <2>5, <2>6, <2>7, <2>8, <2>9, <2>10, <2>11, <2>12, <2>13, <2>14, <2>15, <2>16, <2>17, <2>18, <2>19, <2>20, <2>21, <2>22, <2>23, <2>24, <2>25, <2>26, <2>27, <2>28, <2>29 DEF Go
<1>2. ASSUME NEW h \in Server, Request(h)
    PROVE  Typed'
  <2>1. ASSUME NEW doer \in Doers, NEW expected \in {None, head}, StartMerge(h, doer, expected)
        PROVE  Typed'
    <3>1. GType'
      BY <2>1, StartMergeType DEF StartMerge, GitType
    <3>2. Fetched'
      BY <2>1, StartMergeBecomes DEF Fetched, Becomes
    <3>3. RowType' /\ GitType' /\ RestType'
      BY <2>1, ConstantsAssumption DEF StartMerge, Intervene, RowType, GitType, RestType, vars, git, queues, history, bounds
    <3>4. FlagType'
      BY <2>1, Zenon DEF StartMerge, FlagType, vars, git, queues, history, bounds
    <3> QED BY <3>1, <3>2, <3>3, <3>4
  <2>2. ASSUME NEW doer \in Doers, NEW expected \in {None, head}, StartSchedule(h, doer, expected)
        PROVE  Typed'
    <3>1. GType'
      BY <2>2, StartScheduleType DEF StartSchedule, GitType
    <3>2. Fetched'
      BY <2>2, StartScheduleBecomes DEF Fetched, Becomes
    <3>3. RowType' /\ GitType' /\ RestType'
      BY <2>2, ConstantsAssumption DEF StartSchedule, Intervene, RowType, GitType, RestType, vars, git, queues, history, bounds
    <3>4. FlagType'
      BY <2>2, Zenon DEF StartSchedule, FlagType, vars, git, queues, history, bounds
    <3> QED BY <3>1, <3>2, <3>3, <3>4
  <2>3. CASE StartManual(h)
    <3>1. GType'
      BY <2>3, BeginType DEF StartManual, Pc, Op
    <3>2. Fetched'
      BY <2>3, BeginBecomes DEF StartManual, Fetched, Becomes
    <3>3. RowType' /\ GitType' /\ RestType'
      BY <2>3, ConstantsAssumption DEF StartManual, Intervene, RowType, GitType, RestType, vars, git, queues, history, bounds
    <3>4. FlagType'
      BY <2>3, Zenon DEF StartManual, FlagType, vars, git, queues, history, bounds
    <3> QED BY <3>1, <3>2, <3>3, <3>4
  <2>4. ASSUME NEW api \in BOOLEAN, StartReopen(h, api)
        PROVE  Typed'
    <3>1. GType'
      BY <2>4, BeginType DEF StartReopen, Pc, Op
    <3>2. Fetched'
      BY <2>4, BeginBecomes DEF StartReopen, Fetched, Becomes
    <3>3. RowType' /\ GitType' /\ RestType'
      BY <2>4, ConstantsAssumption DEF StartReopen, Intervene, RowType, GitType, RestType, vars, git, queues, history, bounds
    <3>4. FlagType'
      BY <2>4, Zenon DEF StartReopen, FlagType, vars, git, queues, history, bounds
    <3> QED BY <3>1, <3>2, <3>3, <3>4
  <2>5. ASSUME NEW c \in Commit, NEW success \in BOOLEAN, NEW api \in BOOLEAN, Report(h, c, success, api)
        PROVE  Typed'
    <3>1. GType'
      BY <2>5, ReportType DEF Report
    <3>2. Fetched'
      BY <2>5, ReportBecomes DEF Fetched, Becomes, Keeps
    <3>3. RowType' /\ GitType' /\ RestType'
      BY <2>5, ConstantsAssumption DEF Report, Intervene, RowType, GitType, RestType, vars, git, queues, history, bounds
    <3>4. FlagType'
      BY <2>5, Zenon DEF Report, FlagType, vars, git, queues, history, bounds
    <3> QED BY <3>1, <3>2, <3>3, <3>4
  <2> QED BY <1>2, <2>1, <2>2, <2>3, <2>4, <2>5 DEF Request
<1>3. ASSUME NEW h \in Server, Failure(h)
    PROVE  Typed'
  <2>1. CASE PushToBaseRepoFails(h)
    <3>1. GType'
      BY <2>1, EndType DEF PushToBaseRepoFails
    <3>2. Fetched'
      BY <2>1, EndBecomes DEF PushToBaseRepoFails, Fetched, Becomes
    <3>3. RowType' /\ GitType' /\ RestType'
      BY <2>1, ConstantsAssumption DEF PushToBaseRepoFails, Fault, RowType, GitType, RestType, vars, git, queues, history, bounds
    <3>4. FlagType'
      BY <2>1, Zenon DEF PushToBaseRepoFails, FlagType, vars, git, queues, history, bounds
    <3> QED BY <3>1, <3>2, <3>3, <3>4
  <2>2. CASE EnqueueFails(h)
    <3>1. GType'
      BY <2>2, GotoType, EndType DEF EnqueueFails, AfterEnqueue, Pc
    <3>2. Fetched'
      BY <2>2, GotoBecomes, EndBecomes DEF EnqueueFails, AfterEnqueue, Fetched, Becomes
    <3>3. RowType' /\ GitType' /\ RestType'
      BY <2>2, ConstantsAssumption DEF EnqueueFails, Fault, RowType, GitType, RestType, vars, git, queues, history, bounds
    <3>4. FlagType'
      BY <2>2, Zenon DEF EnqueueFails, LeftBehind, FlagType, vars, git, queues, history, bounds
    <3> QED BY <3>1, <3>2, <3>3, <3>4
  <2>3. CASE TestPatchFails(h)
    <3>1. GType'
      BY <2>3, GotoType DEF TestPatchFails, Pc
    <3>2. Fetched'
      BY <2>3, GotoBecomes DEF TestPatchFails, Fetched, Becomes
    <3>3. RowType' /\ GitType' /\ RestType'
      BY <2>3, ConstantsAssumption DEF TestPatchFails, Fault, RowType, GitType, RestType, vars, git, queues, history, bounds
    <3>4. FlagType'
      BY <2>3, Zenon DEF TestPatchFails, FlagType, vars, git, queues, history, bounds
    <3> QED BY <3>1, <3>2, <3>3, <3>4
  <2>4. CASE MarkFails(h)
    <3>1. GType'
      BY <2>4, GotoType, EndType DEF MarkFails, AfterEnqueue, Pc, Op
    <3>2. Fetched'
      BY <2>4, GotoBecomes, EndBecomes DEF MarkFails, AfterEnqueue, Fetched, Becomes
    <3>3. RowType'
      BY <2>4, StatusType DEF MarkFails, RowType, Status
    <3>4. GitType' /\ RestType'
      BY <2>4, ConstantsAssumption DEF MarkFails, Fault, GitType, RestType, vars, git, queues, history, bounds
    <3>5. FlagType'
      BY <2>4, Zenon DEF MarkFails, FlagType, vars, git, queues, history, bounds
    <3> QED BY <3>1, <3>2, <3>3, <3>4, <3>5
  <2>5. CASE TakeTestOnly(h)
    <3>1. GType'
      BY <2>5, BeginType DEF TakeTestOnly, Pc, Op
    <3>2. Fetched'
      BY <2>5, BeginBecomes DEF TakeTestOnly, Fetched, Becomes
    <3>3. RowType' /\ GitType' /\ RestType'
      BY <2>5, ConstantsAssumption DEF TakeTestOnly, Fault, Fetched, RowType, GitType, RestType, vars, git, queues, history, bounds
    <3>4. FlagType'
      BY <2>5, Zenon DEF TakeTestOnly, LeftBehind, FlagType, vars, git, queues, history, bounds
    <3> QED BY <3>1, <3>2, <3>3, <3>4
  <2>6. CASE HasTestFails(h)
    <3>1. GType'
      BY <2>6, GotoType DEF HasTestFails, Pc, Op
    <3>2. Fetched'
      BY <2>6, GotoBecomes DEF HasTestFails, Fetched, Becomes
    <3>3. RowType' /\ GitType' /\ RestType'
      BY <2>6, ConstantsAssumption DEF HasTestFails, Fault, Fetched, RowType, GitType, RestType, vars, git, queues, history, bounds
    <3>4. FlagType'
      BY <2>6, Zenon DEF HasTestFails, LeftBehind, FlagType, vars, git, queues, history, bounds
    <3> QED BY <3>1, <3>2, <3>3, <3>4
  <2>7. CASE TestGivesUp(h)
    <3>1. GType'
      BY <2>7, EndType DEF TestGivesUp, Pc, Op
    <3>2. Fetched'
      BY <2>7, EndBecomes DEF TestGivesUp, Fetched, Becomes
    <3>3. RowType' /\ GitType' /\ RestType'
      BY <2>7, ConstantsAssumption DEF TestGivesUp, Fault, Fetched, RowType, GitType, RestType, vars, git, queues, history, bounds
    <3>4. FlagType'
      BY <2>7, Zenon DEF TestGivesUp, LeftBehind, FlagType, vars, git, queues, history, bounds
    <3> QED BY <3>1, <3>2, <3>3, <3>4
  <2>8. CASE MergeFails(h)
    <3>1. GType'
      BY <2>8, EndType DEF MergeFails, EndMerge, Lands, Pc, Op
    <3>2. Fetched'
      BY <2>8, EndBecomes DEF MergeFails, EndMerge, Lands, Fetched, Becomes
    <3>3. RowType' /\ GitType' /\ RestType'
      BY <2>8, LandsType, ConstantsAssumption DEF MergeFails, EndMerge, Fault, Fetched, RowType, GitType, RestType, vars, git, queues, history, bounds
    <3>4. FlagType'
      BY <2>8, Zenon DEF MergeFails, LeftBehind, FlagType, vars, git, queues, history, bounds
    <3> QED BY <3>1, <3>2, <3>3, <3>4
  <2>9. CASE SetMergedFails(h)
    <3>1. GType'
      BY <2>9, GotoType, EndType DEF SetMergedFails, EndMerge, Pc, Op
    <3>2. Fetched'
      BY <2>9, GotoBecomes, EndBecomes DEF SetMergedFails, EndMerge, Fetched, Becomes
    <3>3. RowType' /\ GitType' /\ RestType'
      BY <2>9, ConstantsAssumption DEF SetMergedFails, EndMerge, Fault, Fetched, RowType, GitType, RestType, vars, git, queues, history, bounds
    <3>4. FlagType'
      BY <2>9, Zenon DEF SetMergedFails, LeftBehind, FlagType, vars, git, queues, history, bounds
    <3> QED BY <3>1, <3>2, <3>3, <3>4
  <2> QED BY <1>3, <2>1, <2>2, <2>3, <2>4, <2>5, <2>6, <2>7, <2>8, <2>9 DEF Failure
<1>4. CASE User
  <2>1. CASE PushBase
    <3>1. GType'
      BY <2>1 DEF PushBase, GType
    <3>2. Fetched'
      BY <2>1 DEF PushBase, Fetched
    <3>3. RowType' /\ GitType' /\ RestType'
      BY <2>1, ConstantsAssumption DEF PushBase, Intervene, RowType, GitType, RestType, vars, git, queues, history, bounds
    <3>4. FlagType'
      BY <2>1, Zenon DEF PushBase, FlagType, vars, git, queues, history, bounds
    <3> QED BY <3>1, <3>2, <3>3, <3>4
  <2>2. CASE Close
    <3>1. GType'
      BY <2>2 DEF Close, GType
    <3>2. Fetched'
      BY <2>2 DEF Close, Fetched
    <3>3. RowType'
      BY <2>2, ClosedType DEF Close, RowType
    <3>4. GitType' /\ RestType'
      BY <2>2, ConstantsAssumption DEF Close, Intervene, GitType, RestType, vars, git, queues, history, bounds
    <3>5. FlagType'
      BY <2>2, Zenon DEF Close, FlagType, vars, git, queues, history, bounds
    <3> QED BY <3>1, <3>2, <3>3, <3>4, <3>5
  <2>3. CASE RemoveSchedule
    <3>1. GType'
      BY <2>3 DEF RemoveSchedule, GType
    <3>2. Fetched'
      BY <2>3 DEF RemoveSchedule, Fetched
    <3>3. RowType' /\ GitType' /\ RestType'
      BY <2>3, ConstantsAssumption DEF RemoveSchedule, Intervene, RowType, GitType, RestType, vars, git, queues, history, bounds
    <3>4. FlagType'
      BY <2>3, Zenon DEF RemoveSchedule, FlagType, vars, git, queues, history, bounds
    <3> QED BY <3>1, <3>2, <3>3, <3>4
  <2>4. ASSUME NEW c \in Commit, PushHead(c)
        PROVE  Typed'
    <3>1. GType'
      BY <2>4, PushHeadType
    <3>2. Fetched'
      BY <2>4, PushHeadKeeps DEF PushHead, Fetched, Keeps
    <3>3. RowType' /\ GitType' /\ RestType'
      BY <2>4, ConstantsAssumption DEF PushHead, Intervene, RowType, GitType, RestType, vars, git, queues, history, bounds
    <3>4. FlagType'
      BY <2>4, Zenon DEF PushHead, FlagType, vars, git, queues, history, bounds
    <3> QED BY <3>1, <3>2, <3>3, <3>4
  <2> QED BY <1>4, <2>1, <2>2, <2>3, <2>4 DEF User
<1>5. CASE Breakdown
  <2>1. CASE Crash
    <3>1. GType'
      BY <2>1, IdleType DEF Crash, GType
    <3>2. Fetched'
      BY <2>1 DEF Crash, Fetched, Idle
    <3>3. RowType' /\ GitType' /\ RestType'
      BY <2>1, ConstantsAssumption DEF Crash, Fault, RowType, GitType, RestType, vars, git, queues, history, bounds
    <3>4. FlagType'
      BY <2>1, Zenon DEF Crash, Interrupted, FlagType, vars, git, queues, history, bounds
    <3> QED BY <3>1, <3>2, <3>3, <3>4
  <2>2. CASE PopFails
    <3>1. GType'
      BY <2>2 DEF PopFails, GType
    <3>2. Fetched'
      BY <2>2 DEF PopFails, Fetched
    <3>3. RowType' /\ GitType' /\ RestType'
      BY <2>2, ConstantsAssumption DEF PopFails, Fault, RowType, GitType, RestType, vars, git, queues, history, bounds
    <3>4. FlagType'
      BY <2>2, Zenon DEF PopFails, FlagType, vars, git, queues, history, bounds
    <3> QED BY <3>1, <3>2, <3>3, <3>4
  <2>3. CASE InitializeFails
    <3>1. GType'
      BY <2>3 DEF InitializeFails, GType
    <3>2. Fetched'
      BY <2>3 DEF InitializeFails, Fetched
    <3>3. RowType' /\ GitType' /\ RestType'
      BY <2>3, ConstantsAssumption DEF InitializeFails, Fault, RowType, GitType, RestType, vars, git, queues, history, bounds
    <3>4. FlagType'
      BY <2>3, Zenon DEF InitializeFails, LeftBehind, FlagType, vars, git, queues, history, bounds
    <3> QED BY <3>1, <3>2, <3>3, <3>4
  <2>4. ASSUME NEW branch \in {"head", "base"}, FindPullRequestsFails(branch)
        PROVE  Typed'
    <3>1. GType'
      BY <2>4 DEF FindPullRequestsFails, GType
    <3>2. Fetched'
      BY <2>4 DEF FindPullRequestsFails, Fetched
    <3>3. RowType' /\ GitType' /\ RestType'
      BY <2>4, ConstantsAssumption DEF FindPullRequestsFails, Fault, RowType, GitType, RestType, vars, git, queues, history, bounds
    <3>4. FlagType'
      BY <2>4, Zenon DEF FindPullRequestsFails, FlagType, vars, git, queues, history, bounds
    <3> QED BY <3>1, <3>2, <3>3, <3>4
  <2> QED BY <1>5, <2>1, <2>2, <2>3, <2>4 DEF Breakdown
<1>6. CASE InitializePullRequests
  <2>1. GType'
    BY <1>6 DEF InitializePullRequests, GType
  <2>2. Fetched'
    BY <1>6 DEF InitializePullRequests, Fetched
  <2>3. RowType' /\ GitType' /\ RestType'
    BY <1>6, ConstantsAssumption DEF InitializePullRequests, RowType, GitType, RestType, vars, git, queues, history, bounds
  <2>4. FlagType'
    BY <1>6, Zenon DEF InitializePullRequests, FlagType, vars, git, queues, history, bounds
  <2> QED BY <2>1, <2>2, <2>3, <2>4
<1> QED BY <1>1, <1>2, <1>3, <1>4, <1>5, <1>6 DEF Next

(* Every variable keeps its type, and no test, hook, push or record works  *)
(* on a commit it has not fetched.                                         *)
THEOREM TypeCorrect == Spec => []TypeOK
<1>1. Spec => []Typed
  BY TypedInit, TypedStutters, TypedSteps, PTL DEF Spec
<1> QED BY <1>1, TypedIsTypeOK, PTL

(***************************************************************************)
(* The lock.                                                               *)
(***************************************************************************)
Shaped(h) ==
  g[h].op = "test" =>
    g[h].pc \in {"lock", "read", "detect", "setmerged", "save", "fetch", "tracking", "fail", "has", "write"}

(* The goroutines between the check-in and the check-out. *)
Critical(h) ==
  \/ g[h].op = "test" /\ g[h].pc # "lock"
  \/ g[h].pc \in {"fetch", "tracking", "hook", "push", "setmerged", "save"}

Locked(h) == Critical(h) => lock = h

(* What a goroutine has found under the lock remains so. *)
Unmerged(h) ==
  \/ g[h].op = "test" /\ g[h].pc \in {"detect", "setmerged", "fetch", "tracking", "fail"}
  \/ g[h].pc = "save"
  => pr.merged = None

Held == \A h \in Server : Shaped(h) /\ Locked(h) /\ Unmerged(h)

(* What MergedIsFinal says of a step. *)
MergedKept == pr.merged # None => pr'.merged = pr.merged /\ pr'.status = pr.status

LEMMA NobodyIsNone == None \notin Server
BY ConstantsAssumption

LEMMA HeldInit == Init => Held
BY DEF Init, Held, Shaped, Locked, Unmerged, Critical, Idle

LEMMA HeldStutters == Held /\ UNCHANGED vars => Held'
BY DEF vars, history, git, queues, Held, Shaped, Locked, Unmerged, Critical

LEMMA HeldSteps == Typed /\ Held /\ Next => Held' /\ MergedKept
<1> SUFFICES ASSUME Typed, Held, Next PROVE Held' /\ MergedKept
  OBVIOUS
<1> USE NobodyIsNone DEF Typed
<1>1. ASSUME NEW h \in Server, Go(h)
    PROVE  Held' /\ MergedKept
  <2>1. CASE Mark(h)
    BY <2>1, GotoBecomes DEF Mark, RowType, Row, SetStatus, Held, Shaped, Locked, Unmerged, Critical, MergedKept, Becomes
  <2>2. CASE Enqueue(h)
    BY <2>2, GotoBecomes, EndBecomes DEF Enqueue, AfterEnqueue, Held, Shaped, Locked, Unmerged, Critical, MergedKept, Becomes
  <2>3. CASE PushToBaseRepo(h)
    BY <2>3, GotoBecomes DEF PushToBaseRepo, Held, Shaped, Locked, Unmerged, Critical, MergedKept, Becomes
  <2>4. ASSUME NEW branch \in {"head", "base"}, StartUpdate(h, branch)
        PROVE  Held' /\ MergedKept
    BY <2>4, BeginBecomes DEF StartUpdate, Held, Shaped, Locked, Unmerged, Critical, MergedKept, Becomes, Idle
  <2>5. CASE TakeTest(h)
    BY <2>5, BeginBecomes DEF TakeTest, Held, Shaped, Locked, Unmerged, Critical, MergedKept, Becomes, Idle
  <2>6. CASE TakeAuto(h)
    BY <2>6, BeginBecomes DEF TakeAuto, Held, Shaped, Locked, Unmerged, Critical, MergedKept, Becomes, Idle
  <2>7. CASE LockTest(h)
    BY <2>7, GotoBecomes DEF LockTest, Held, Shaped, Locked, Unmerged, Critical, MergedKept, Becomes
  <2>8. CASE ReadTest(h)
    BY <2>8, GotoBecomes, EndBecomes DEF ReadTest, Held, Shaped, Locked, Unmerged, Critical, MergedKept, Becomes
  <2>9. CASE Detect(h)
    <3>1. UNCHANGED << pr, lock >> /\ g[h].op = "test" /\ g[h].pc = "detect"
      BY <2>9 DEF Detect, git, history, queues
    <3> QED BY <2>9, <3>1, DetectBecomes, GotoBecomes DEF Held, Shaped, Locked, Unmerged, Critical, MergedKept, Becomes
  <2>10. CASE TestPatch(h)
    <3>1. UNCHANGED << pr, lock >> /\ g[h].op = "test" /\ g[h].pc = "tracking"
      BY <2>10 DEF TestPatch, git, history, queues
    <3> QED BY <2>10, <3>1, TestPatchBecomes DEF Held, Shaped, Locked, Unmerged, Critical, MergedKept, Becomes
  <2>11. CASE WriteError(h)
    BY <2>11, EndBecomes DEF WriteError, RowType, Row, Held, Shaped, Locked, Unmerged, Critical, MergedKept, Becomes
  <2>12. CASE HasTest(h)
    BY <2>12, GotoBecomes, EndBecomes DEF HasTest, Held, Shaped, Locked, Unmerged, Critical, MergedKept, Becomes
  <2>13. CASE WriteVerdict(h)
    BY <2>13, EndBecomes DEF WriteVerdict, RowType, Row, SetStatus, Held, Shaped, Locked, Unmerged, Critical, MergedKept, Becomes
  <2>14. CASE CheckPullMergable(h)
    BY <2>14, GotoBecomes, EndBecomes DEF CheckPullMergable, Held, Shaped, Locked, Unmerged, Critical, MergedKept, Becomes
  <2>15. CASE LockMerge(h)
    BY <2>15, GotoBecomes DEF LockMerge, Held, Shaped, Locked, Unmerged, Critical, MergedKept, Becomes
  <2>16. CASE FetchMerge(h)
    <3>1. pr' = pr /\ g[h].op \in {"merge", "auto"} /\ g[h].pc = "tracking"
      BY <2>16 DEF FetchMerge
    <3>2. CASE EndMerge(h)
      BY <3>1, <3>2, EndBecomes DEF EndMerge, Held, Shaped, Locked, Unmerged, Critical, MergedKept, Becomes
    <3>3. CASE ~EndMerge(h)
      BY <2>16, <3>1, <3>3, FetchMergeBecomes DEF Held, Shaped, Locked, Unmerged, Critical, MergedKept, Becomes
    <3> QED BY <3>2, <3>3
  <2>17. CASE PreReceive(h)
    BY <2>17, GotoBecomes, EndBecomes DEF PreReceive, EndMerge, Held, Shaped, Locked, Unmerged, Critical, MergedKept, Becomes
  <2>18. CASE PushMerge(h)
    BY <2>18, GotoBecomes, EndBecomes DEF PushMerge, EndMerge, Held, Shaped, Locked, Unmerged, Critical, MergedKept, Becomes
  <2>19. CASE SetMerged(h)
    BY <2>19, GotoBecomes, EndBecomes DEF SetMerged, EndMerge, RowType, Row, Held, Shaped, Locked, Unmerged, Critical, MergedKept, Becomes
  <2>20. CASE SaveMerged(h)
    BY <2>20, EndBecomes DEF SaveMerged, AfterSetMerged, EndMerge, RowType, Row, Held, Shaped, Locked, Unmerged, Critical, MergedKept, Becomes
  <2>21. CASE LockManual(h)
    BY <2>21, GotoBecomes DEF LockManual, Held, Shaped, Locked, Unmerged, Critical, MergedKept, Becomes
  <2>22. CASE MergedManually(h)
    BY <2>22, EndBecomes DEF MergedManually, RowType, Row, Held, Shaped, Locked, Unmerged, Critical, MergedKept, Becomes
  <2>23. CASE CompareRefs(h)
    BY <2>23, GotoBecomes DEF CompareRefs, Held, Shaped, Locked, Unmerged, Critical, MergedKept, Becomes
  <2>24. CASE Open(h)
    BY <2>24, EndBecomes DEF Open, RowType, Row, Held, Shaped, Locked, Unmerged, Critical, MergedKept, Becomes
  <2>25. CASE Lookup(h)
    BY <2>25, EndBecomes DEF Lookup, Held, Shaped, Locked, Unmerged, Critical, MergedKept, Becomes
  <2>26. ASSUME NEW doer \in Doers \ {"admin"}, ReadAuto(h, doer)
        PROVE  Held' /\ MergedKept
    <3>1. UNCHANGED << pr, lock >> /\ g[h].op = "auto" /\ g[h].pc = "read"
      BY <2>26 DEF ReadAuto, git, history, queues
    <3> QED BY <2>26, <3>1, ReadAutoBecomes, EndBecomes DEF Held, Shaped, Locked, Unmerged, Critical, MergedKept, Becomes
  <2>27. CASE ReadState(h)
    BY <2>27, ReadStateBecomes, GotoBecomes DEF ReadState, Held, Shaped, Locked, Unmerged, Critical, MergedKept, Becomes
  <2>28. CASE InsertSchedule(h)
    BY <2>28, EndBecomes DEF InsertSchedule, Held, Shaped, Locked, Unmerged, Critical, MergedKept, Becomes
  <2>29. CASE FetchBase(h)
    BY <2>29, FetchBaseBecomes, FetchBaseKeeps DEF Held, Shaped, Locked, Unmerged, Critical, MergedKept, Becomes
  <2> QED BY <1>1, <2>1, <2>2, <2>3, <2>4, <2>5, <2>6, <2>7, <2>8, <2>9, <2>10, <2>11, <2>12, <2>13, <2>14, <2>15, <2>16, <2>17, <2>18, <2>19, <2>20, <2>21, <2>22, <2>23, <2>24, <2>25, <2>26, <2>27, <2>28, <2>29 DEF Go
<1>2. ASSUME NEW h \in Server, Request(h)
    PROVE  Held' /\ MergedKept
  <2>1. ASSUME NEW doer \in Doers, NEW expected \in {None, head}, StartMerge(h, doer, expected)
        PROVE  Held' /\ MergedKept
    <3>1. UNCHANGED << pr, lock >> /\ Ready
      BY <2>1 DEF StartMerge, git, history, queues
    <3> QED BY <2>1, <3>1, StartMergeBecomes DEF Held, Shaped, Locked, Unmerged, Critical, MergedKept, Becomes, Idle
  <2>2. ASSUME NEW doer \in Doers, NEW expected \in {None, head}, StartSchedule(h, doer, expected)
        PROVE  Held' /\ MergedKept
    <3>1. UNCHANGED << pr, lock >> /\ Ready
      BY <2>2 DEF StartSchedule, git, history, queues
    <3> QED BY <2>2, <3>1, StartScheduleBecomes DEF Held, Shaped, Locked, Unmerged, Critical, MergedKept, Becomes, Idle
  <2>3. CASE StartManual(h)
    BY <2>3, BeginBecomes DEF StartManual, Held, Shaped, Locked, Unmerged, Critical, MergedKept, Becomes, Idle
  <2>4. ASSUME NEW api \in BOOLEAN, StartReopen(h, api)
        PROVE  Held' /\ MergedKept
    BY <2>4, BeginBecomes DEF StartReopen, Held, Shaped, Locked, Unmerged, Critical, MergedKept, Becomes, Idle
  <2>5. ASSUME NEW c \in Commit, NEW success \in BOOLEAN, NEW api \in BOOLEAN, Report(h, c, success, api)
        PROVE  Held' /\ MergedKept
    <3>1. UNCHANGED << pr, lock >>
      BY <2>5 DEF Report, git, history, queues
    <3> QED BY <2>5, <3>1, ReportBecomes DEF Held, Shaped, Locked, Unmerged, Critical, MergedKept, Becomes, Keeps, Idle
  <2> QED BY <1>2, <2>1, <2>2, <2>3, <2>4, <2>5 DEF Request
<1>3. ASSUME NEW h \in Server, Failure(h)
    PROVE  Held' /\ MergedKept
  <2>1. CASE PushToBaseRepoFails(h)
    BY <2>1, EndBecomes DEF PushToBaseRepoFails, Held, Shaped, Locked, Unmerged, Critical, MergedKept, Becomes
  <2>2. CASE EnqueueFails(h)
    BY <2>2, GotoBecomes, EndBecomes DEF EnqueueFails, AfterEnqueue, Held, Shaped, Locked, Unmerged, Critical, MergedKept, Becomes
  <2>3. CASE TestPatchFails(h)
    BY <2>3, GotoBecomes DEF TestPatchFails, Held, Shaped, Locked, Unmerged, Critical, MergedKept, Becomes
  <2>4. CASE MarkFails(h)
    BY <2>4, GotoBecomes, EndBecomes DEF MarkFails, AfterEnqueue, RowType, Row, SetStatus, Held, Shaped, Locked, Unmerged, Critical, MergedKept, Becomes
  <2>5. CASE TakeTestOnly(h)
    BY <2>5, BeginBecomes DEF TakeTestOnly, Held, Shaped, Locked, Unmerged, Critical, MergedKept, Becomes, Idle
  <2>6. CASE HasTestFails(h)
    BY <2>6, GotoBecomes DEF HasTestFails, Held, Shaped, Locked, Unmerged, Critical, MergedKept, Becomes
  <2>7. CASE TestGivesUp(h)
    BY <2>7, EndBecomes DEF TestGivesUp, Held, Shaped, Locked, Unmerged, Critical, MergedKept, Becomes
  <2>8. CASE MergeFails(h)
    BY <2>8, EndBecomes DEF MergeFails, EndMerge, Lands, Held, Shaped, Locked, Unmerged, Critical, MergedKept, Becomes
  <2>9. CASE SetMergedFails(h)
    BY <2>9, GotoBecomes, EndBecomes DEF SetMergedFails, EndMerge, Held, Shaped, Locked, Unmerged, Critical, MergedKept, Becomes
  <2> QED BY <1>3, <2>1, <2>2, <2>3, <2>4, <2>5, <2>6, <2>7, <2>8, <2>9 DEF Failure
<1>4. CASE User
  <2>1. CASE PushBase
    BY <2>1 DEF PushBase, Held, Shaped, Locked, Unmerged, Critical, MergedKept
  <2>2. CASE Close
    BY <2>2 DEF Close, RowType, Row, Held, Shaped, Locked, Unmerged, Critical, MergedKept
  <2>3. CASE RemoveSchedule
    BY <2>3 DEF RemoveSchedule, Held, Shaped, Locked, Unmerged, Critical, MergedKept
  <2>4. ASSUME NEW c \in Commit, PushHead(c)
        PROVE  Held' /\ MergedKept
    BY <2>4, PushHeadKeeps DEF PushHead, Held, Shaped, Locked, Unmerged, Critical, MergedKept, Keeps
  <2> QED BY <1>4, <2>1, <2>2, <2>3, <2>4 DEF User
<1>5. CASE Breakdown
  <2>1. CASE Crash
    BY <2>1 DEF Crash, Held, Shaped, Locked, Unmerged, Critical, MergedKept, Idle
  <2>2. CASE PopFails
    BY <2>2 DEF PopFails, Held, Shaped, Locked, Unmerged, Critical, MergedKept
  <2>3. CASE InitializeFails
    BY <2>3 DEF InitializeFails, Held, Shaped, Locked, Unmerged, Critical, MergedKept
  <2>4. ASSUME NEW branch \in {"head", "base"}, FindPullRequestsFails(branch)
        PROVE  Held' /\ MergedKept
    BY <2>4 DEF FindPullRequestsFails, Held, Shaped, Locked, Unmerged, Critical, MergedKept
  <2> QED BY <1>5, <2>1, <2>2, <2>3, <2>4 DEF Breakdown
<1>6. CASE InitializePullRequests
  BY <1>6 DEF InitializePullRequests, Held, Shaped, Locked, Unmerged, Critical, MergedKept
<1> QED BY <1>1, <1>2, <1>3, <1>4, <1>5, <1>6 DEF Next

(* A merged pull request keeps its status and the commit it was merged     *)
(* with: whoever writes either has read it as not merged, or writes only   *)
(* when it is not, under the lock every writer of merged holds.            *)
THEOREM MergedForGood == Spec => MergedIsFinal
<1>1. Spec => [](Typed /\ Held)
  BY TypedInit, TypedStutters, TypedSteps, HeldInit, HeldStutters, HeldSteps, PTL DEF Spec
<1>2. Typed /\ Held /\ [Next]_vars => [MergedKept]_vars
  BY HeldSteps
<1>3. [MergedKept]_vars => [pr.merged # None => pr'.merged = pr.merged /\ pr'.status = pr.status]_vars
  BY DEF MergedKept
<1> QED BY <1>1, <1>2, <1>3, PTL DEF Spec, MergedIsFinal

(***************************************************************************)
(* The record of a merge.                                                  *)
(***************************************************************************)
(* Who has read the row as open, and goes on to merge. *)
Merging(h) == g[h].op \in {"merge", "schedule"} \/ (g[h].op = "auto" /\ g[h].pc # "read")

(* No merge meets the pull request closed by another than a user. *)
ClosedBy ==
  pr.closed /\ pr.merged = None /\ ~shut /\ ~torn =>
    (\E h \in Server : g[h].pc = "save") \/ (\A h \in Server : ~Merging(h))

Recording(h) == g[h].op \in {"merge", "auto"} /\ g[h].pc \in {"setmerged", "save"}

Recorded == merges # {} => pr.merged # None \/ (\E h \in Server : Recording(h)) \/ torn \/ shut

(* Who gets as far as the hook merges. *)
Merges(h) == g[h].pc \in {"hook", "push"} => g[h].op \in {"merge", "auto"}

Landing == ClosedBy /\ Recorded /\ \A h \in Server : Merges(h)

LEMMA LandingInit == Init => Landing
BY DEF Init, Landing, ClosedBy, Recorded, Merges, Idle

LEMMA LandingStutters == Landing /\ UNCHANGED vars => Landing'
BY DEF vars, history, Landing, ClosedBy, Recorded, Recording, Merging, Merges

LEMMA LandingSteps == Typed /\ Held /\ Landing /\ Next => Landing'
<1> SUFFICES ASSUME Typed, Held, Landing, Next PROVE Landing'
  OBVIOUS
<1> USE NobodyIsNone DEF Typed
<1>1. ASSUME NEW h \in Server, Go(h)
    PROVE  Landing'
  <2>1. CASE Mark(h)
    BY <2>1, GotoBecomes DEF Mark, RowType, Row, SetStatus, Landing, ClosedBy, Recorded, Recording, Merging, Merges, history, Becomes
  <2>2. CASE Enqueue(h)
    BY <2>2, GotoBecomes, EndBecomes DEF Enqueue, AfterEnqueue, Landing, ClosedBy, Recorded, Recording, Merging, Merges, history, Becomes
  <2>3. CASE PushToBaseRepo(h)
    BY <2>3, GotoBecomes DEF PushToBaseRepo, Landing, ClosedBy, Recorded, Recording, Merging, Merges, history, Becomes
  <2>4. ASSUME NEW branch \in {"head", "base"}, StartUpdate(h, branch)
        PROVE  Landing'
    BY <2>4, BeginBecomes DEF StartUpdate, Landing, ClosedBy, Recorded, Recording, Merging, Merges, history, Becomes, Idle
  <2>5. CASE TakeTest(h)
    BY <2>5, BeginBecomes DEF TakeTest, Landing, ClosedBy, Recorded, Recording, Merging, Merges, history, Becomes, Idle
  <2>6. CASE TakeAuto(h)
    BY <2>6, BeginBecomes DEF TakeAuto, Landing, ClosedBy, Recorded, Recording, Merging, Merges, history, Becomes, Idle
  <2>7. CASE LockTest(h)
    BY <2>7, GotoBecomes DEF LockTest, Landing, ClosedBy, Recorded, Recording, Merging, Merges, history, Becomes
  <2>8. CASE ReadTest(h)
    BY <2>8, GotoBecomes, EndBecomes DEF ReadTest, Landing, ClosedBy, Recorded, Recording, Merging, Merges, history, Becomes
  <2>9. CASE Detect(h)
    <3>1. UNCHANGED << pr, shut, torn, merges >> /\ g[h].op = "test" /\ g[h].pc = "detect"
      BY <2>9 DEF Detect, git, history, queues
    <3> QED BY <2>9, <3>1, DetectBecomes, GotoBecomes DEF Landing, ClosedBy, Recorded, Recording, Merging, Merges, history, Becomes
  <2>10. CASE TestPatch(h)
    <3>1. UNCHANGED << pr, shut, torn, merges >> /\ g[h].op = "test" /\ g[h].pc = "tracking"
      BY <2>10 DEF TestPatch, git, history, queues
    <3> QED BY <2>10, <3>1, TestPatchBecomes DEF Landing, ClosedBy, Recorded, Recording, Merging, Merges, history, Becomes
  <2>11. CASE WriteError(h)
    BY <2>11, EndBecomes DEF WriteError, RowType, Row, Landing, ClosedBy, Recorded, Recording, Merging, Merges, history, Becomes
  <2>12. CASE HasTest(h)
    BY <2>12, GotoBecomes, EndBecomes DEF HasTest, Landing, ClosedBy, Recorded, Recording, Merging, Merges, history, Becomes
  <2>13. CASE WriteVerdict(h)
    BY <2>13, EndBecomes DEF WriteVerdict, RowType, Row, SetStatus, Landing, ClosedBy, Recorded, Recording, Merging, Merges, history, Becomes
  <2>14. CASE CheckPullMergable(h)
    BY <2>14, GotoBecomes, EndBecomes DEF CheckPullMergable, Landing, ClosedBy, Recorded, Recording, Merging, Merges, history, Becomes
  <2>15. CASE LockMerge(h)
    BY <2>15, GotoBecomes DEF LockMerge, Landing, ClosedBy, Recorded, Recording, Merging, Merges, history, Becomes
  <2>16. CASE FetchMerge(h)
    <3>1. UNCHANGED << pr, shut, torn, merges >> /\ g[h].op \in {"merge", "auto"} /\ g[h].pc = "tracking"
      BY <2>16 DEF FetchMerge, git, history, queues
    <3> QED BY <2>16, <3>1, FetchMergeBecomes, EndBecomes DEF EndMerge, Landing, ClosedBy, Recorded, Recording, Merging, Merges, history, Becomes
  <2>17. CASE PreReceive(h)
    BY <2>17, GotoBecomes, EndBecomes DEF PreReceive, EndMerge, Landing, ClosedBy, Recorded, Recording, Merging, Merges, history, Becomes
  <2>18. CASE PushMerge(h)
    BY <2>18, GotoBecomes, EndBecomes DEF PushMerge, EndMerge, Landing, ClosedBy, Recorded, Recording, Merging, Merges, history, Becomes
  <2>19. CASE SetMerged(h)
    BY <2>19, GotoBecomes, EndBecomes DEF SetMerged, EndMerge, RowType, Row, Held, Locked, Critical, Landing, ClosedBy, Recorded, Recording, Merging, Merges, history, Becomes
  <2>20. CASE SaveMerged(h)
    BY <2>20, EndBecomes, ConstantsAssumption DEF SaveMerged, AfterSetMerged, EndMerge, RowType, Row, Fetched, Held, Locked, Critical, Landing, ClosedBy, Recorded, Recording, Merging, Merges, history, Becomes
  <2>21. CASE LockManual(h)
    BY <2>21, GotoBecomes DEF LockManual, Landing, ClosedBy, Recorded, Recording, Merging, Merges, history, Becomes
  <2>22. CASE MergedManually(h)
    BY <2>22, EndBecomes, ConstantsAssumption DEF MergedManually, RowType, Row, GitType, Landing, ClosedBy, Recorded, Recording, Merging, Merges, history, Becomes
  <2>23. CASE CompareRefs(h)
    BY <2>23, GotoBecomes DEF CompareRefs, Landing, ClosedBy, Recorded, Recording, Merging, Merges, history, Becomes
  <2>24. CASE Open(h)
    BY <2>24, EndBecomes DEF Open, RowType, Row, Landing, ClosedBy, Recorded, Recording, Merging, Merges, history, Becomes
  <2>25. CASE Lookup(h)
    BY <2>25, EndBecomes DEF Lookup, Landing, ClosedBy, Recorded, Recording, Merging, Merges, history, Becomes
  <2>26. ASSUME NEW doer \in Doers \ {"admin"}, ReadAuto(h, doer)
        PROVE  Landing'
    <3>1. UNCHANGED << pr, shut, torn, merges >> /\ g[h].op = "auto" /\ g[h].pc = "read"
      BY <2>26 DEF ReadAuto, git, history, queues
    <3> QED BY <2>26, <3>1, ReadAutoBecomes, EndBecomes DEF Ready, Landing, ClosedBy, Recorded, Recording, Merging, Merges, history, Becomes
  <2>27. CASE ReadState(h)
    BY <2>27, ReadStateBecomes, GotoBecomes DEF ReadState, Landing, ClosedBy, Recorded, Recording, Merging, Merges, history, Becomes
  <2>28. CASE InsertSchedule(h)
    BY <2>28, EndBecomes DEF InsertSchedule, Landing, ClosedBy, Recorded, Recording, Merging, Merges, history, Becomes
  <2>29. CASE FetchBase(h)
    BY <2>29, FetchBaseBecomes, FetchBaseKeeps DEF Landing, ClosedBy, Recorded, Recording, Merging, Merges, Becomes
  <2> QED BY <1>1, <2>1, <2>2, <2>3, <2>4, <2>5, <2>6, <2>7, <2>8, <2>9, <2>10, <2>11, <2>12, <2>13, <2>14, <2>15, <2>16, <2>17, <2>18, <2>19, <2>20, <2>21, <2>22, <2>23, <2>24, <2>25, <2>26, <2>27, <2>28, <2>29 DEF Go
<1>2. ASSUME NEW h \in Server, Request(h)
    PROVE  Landing'
  <2>1. ASSUME NEW doer \in Doers, NEW expected \in {None, head}, StartMerge(h, doer, expected)
        PROVE  Landing'
    <3>1. UNCHANGED << pr, shut, torn, merges >> /\ Ready
      BY <2>1 DEF StartMerge, git, history, queues
    <3> QED BY <2>1, <3>1, StartMergeBecomes DEF Ready, Landing, ClosedBy, Recorded, Recording, Merging, Merges, history, Becomes, Idle
  <2>2. ASSUME NEW doer \in Doers, NEW expected \in {None, head}, StartSchedule(h, doer, expected)
        PROVE  Landing'
    <3>1. UNCHANGED << pr, shut, torn, merges >> /\ Ready
      BY <2>2 DEF StartSchedule, git, history, queues
    <3> QED BY <2>2, <3>1, StartScheduleBecomes DEF Ready, Landing, ClosedBy, Recorded, Recording, Merging, Merges, history, Becomes, Idle
  <2>3. CASE StartManual(h)
    BY <2>3, BeginBecomes DEF StartManual, Landing, ClosedBy, Recorded, Recording, Merging, Merges, history, Becomes, Idle
  <2>4. ASSUME NEW api \in BOOLEAN, StartReopen(h, api)
        PROVE  Landing'
    BY <2>4, BeginBecomes DEF StartReopen, Landing, ClosedBy, Recorded, Recording, Merging, Merges, history, Becomes, Idle
  <2>5. ASSUME NEW c \in Commit, NEW success \in BOOLEAN, NEW api \in BOOLEAN, Report(h, c, success, api)
        PROVE  Landing'
    <3>1. UNCHANGED << pr, shut, torn, merges >>
      BY <2>5 DEF Report, git, history, queues
    <3> QED BY <2>5, <3>1, ReportBecomes DEF Landing, ClosedBy, Recorded, Recording, Merging, Merges, history, Becomes, Keeps, Idle
  <2> QED BY <1>2, <2>1, <2>2, <2>3, <2>4, <2>5 DEF Request
<1>3. ASSUME NEW h \in Server, Failure(h)
    PROVE  Landing'
  <2>1. CASE PushToBaseRepoFails(h)
    BY <2>1, EndBecomes DEF PushToBaseRepoFails, Landing, ClosedBy, Recorded, Recording, Merging, Merges, history, Becomes
  <2>2. CASE EnqueueFails(h)
    BY <2>2, GotoBecomes, EndBecomes DEF EnqueueFails, AfterEnqueue, Landing, ClosedBy, Recorded, Recording, Merging, Merges, history, Becomes
  <2>3. CASE TestPatchFails(h)
    BY <2>3, GotoBecomes DEF TestPatchFails, Landing, ClosedBy, Recorded, Recording, Merging, Merges, history, Becomes
  <2>4. CASE MarkFails(h)
    BY <2>4, GotoBecomes, EndBecomes DEF MarkFails, AfterEnqueue, RowType, Row, SetStatus, Landing, ClosedBy, Recorded, Recording, Merging, Merges, history, Becomes
  <2>5. CASE TakeTestOnly(h)
    BY <2>5, BeginBecomes DEF TakeTestOnly, Landing, ClosedBy, Recorded, Recording, Merging, Merges, history, Becomes, Idle
  <2>6. CASE HasTestFails(h)
    BY <2>6, GotoBecomes DEF HasTestFails, Landing, ClosedBy, Recorded, Recording, Merging, Merges, history, Becomes
  <2>7. CASE TestGivesUp(h)
    BY <2>7, EndBecomes DEF TestGivesUp, Landing, ClosedBy, Recorded, Recording, Merging, Merges, history, Becomes
  <2>8. CASE MergeFails(h)
    BY <2>8, EndBecomes DEF MergeFails, EndMerge, Lands, Landing, ClosedBy, Recorded, Recording, Merging, Merges, history, Becomes
  <2>9. CASE SetMergedFails(h)
    <3>1. /\ UNCHANGED << pr, shut, merges >> /\ torn' = (torn \/ g[h].pc = "save" \/ g[h].op # "test")
          /\ g[h].pc \in {"setmerged", "save"} /\ (End(h) \/ (Goto(h, "fetch") /\ g[h].op = "test"))
      BY <2>9, Zenon DEF SetMergedFails, EndMerge
    <3>2. CASE g[h].pc = "save" \/ g[h].op # "test"
      <4>1. torn'
        BY <3>1, <3>2, Zenon
      <4> QED BY <3>1, <4>1, GotoBecomes, EndBecomes DEF Landing, ClosedBy, Recorded, Merges, Becomes
    <3>3. CASE g[h].pc = "setmerged" /\ g[h].op = "test"
      <4>1. torn' <=> torn
        BY <3>1, <3>3, Zenon
      <4>2. UNCHANGED << pr, shut, merges >>
        BY <3>1
      <4> QED BY <3>1, <3>3, <4>1, <4>2, GotoBecomes, EndBecomes DEF Landing, ClosedBy, Recorded, Recording, Merging, Merges, Becomes
    <3> QED BY <3>1, <3>2, <3>3
  <2> QED BY <1>3, <2>1, <2>2, <2>3, <2>4, <2>5, <2>6, <2>7, <2>8, <2>9 DEF Failure
<1>4. CASE User
  <2>1. CASE PushBase
    BY <2>1 DEF PushBase, Landing, ClosedBy, Recorded, Recording, Merging, Merges, history
  <2>2. CASE Close
    BY <2>2 DEF Close, RowType, Row, Landing, ClosedBy, Recorded, Recording, Merging, Merges, history
  <2>3. CASE RemoveSchedule
    BY <2>3 DEF RemoveSchedule, Landing, ClosedBy, Recorded, Recording, Merging, Merges, history
  <2>4. ASSUME NEW c \in Commit, PushHead(c)
        PROVE  Landing'
    <3>1. UNCHANGED << pr, shut, torn, merges >>
      BY <2>4 DEF PushHead, git, history, queues
    <3> QED BY <2>4, <3>1, PushHeadKeeps DEF Landing, ClosedBy, Recorded, Recording, Merging, Merges, history, Keeps
  <2> QED BY <1>4, <2>1, <2>2, <2>3, <2>4 DEF User
<1>5. CASE Breakdown
  <2>1. CASE Crash
    BY <2>1 DEF Crash, Landing, ClosedBy, Recorded, Recording, Merging, Merges, history, Idle
  <2>2. CASE PopFails
    BY <2>2 DEF PopFails, Landing, ClosedBy, Recorded, Recording, Merging, Merges, history
  <2>3. CASE InitializeFails
    BY <2>3 DEF InitializeFails, Landing, ClosedBy, Recorded, Recording, Merging, Merges, history
  <2>4. ASSUME NEW branch \in {"head", "base"}, FindPullRequestsFails(branch)
        PROVE  Landing'
    BY <2>4 DEF FindPullRequestsFails, Landing, ClosedBy, Recorded, Recording, Merging, Merges, history
  <2> QED BY <1>5, <2>1, <2>2, <2>3, <2>4 DEF Breakdown
<1>6. CASE InitializePullRequests
  BY <1>6 DEF InitializePullRequests, Landing, ClosedBy, Recorded, Recording, Merging, Merges, history
<1> QED BY <1>1, <1>2, <1>3, <1>4, <1>5, <1>6 DEF Next

(* A commit the pull request's merge put in the base branch is recorded:   *)
(* but for a crash, or a user who closed it, the row says merged or the    *)
(* merge that pushed is about to say so.                                   *)
THEOREM LandedForGood == Spec => []LandedIsRecorded
<1>1. Spec => [](Typed /\ Held /\ Landing)
  BY TypedInit, TypedStutters, TypedSteps, HeldInit, HeldStutters, HeldSteps,
     LandingInit, LandingStutters, LandingSteps, PTL DEF Spec
<1>2. Landing => LandedIsRecorded
  BY DEF Landing, Recorded, Recording, LandedIsRecorded
<1> QED BY <1>1, <1>2, PTL

(***************************************************************************)
(* What lands on a protected branch.                                       *)
(***************************************************************************)
(* A merge that nobody forces and nothing has raced with: one by a pusher  *)
(* keeps what it was checked for, one by a user has it checked by the hook. *)
Unraced(h) == g[h].op \in {"merge", "auto"} /\ g[h].doer # "admin" /\ ~g[h].raced

Hooked(h) ==
  /\ g[h].pc \in {"lock", "fetch", "tracking", "hook"} /\ g[h].doer = "pusher" => head \in passed
  /\ g[h].pc = "hook" => g[h].c = head
  /\ g[h].pc = "push" => g[h].c \in passed

Checked == config.protected => \A h \in Server : Unraced(h) => Hooked(h)

LEMMA GotoFlags ==
  ASSUME GType, NEW h \in Server, NEW p, Goto(h, p)
  PROVE  g'[h].doer = g[h].doer /\ g'[h].raced = g[h].raced
<1> DEFINE r == [g[h] EXCEPT !.pc = p]
<1>1. g'[h] = r /\ g[h] \in Work
  BY DEF Goto, GType
<1> QED BY <1>1, Zenon DEF Work

LEMMA CheckedInit == Init => Checked
BY DEF Init, Checked, Hooked, Idle

LEMMA CheckedStutters == Checked /\ UNCHANGED vars => Checked'
BY DEF vars, git, Checked, Unraced, Hooked

LEMMA CheckedSteps == Typed /\ Checked /\ Next => Checked'
<1> SUFFICES ASSUME Typed, Checked, Next PROVE Checked'
  OBVIOUS
<1> USE DEF Typed
<1>1. ASSUME NEW h \in Server, Go(h)
    PROVE  Checked'
  <2>1. CASE Mark(h)
    BY <2>1, GotoBecomes DEF Mark, git, Checked, Unraced, Hooked, Becomes
  <2>2. CASE Enqueue(h)
    BY <2>2, GotoBecomes, EndBecomes DEF Enqueue, AfterEnqueue, git, Checked, Unraced, Hooked, Becomes
  <2>3. CASE PushToBaseRepo(h)
    BY <2>3, GotoBecomes DEF PushToBaseRepo, git, Checked, Unraced, Hooked, Becomes
  <2>4. ASSUME NEW branch \in {"head", "base"}, StartUpdate(h, branch)
        PROVE  Checked'
    BY <2>4, BeginBecomes DEF StartUpdate, git, Checked, Unraced, Hooked, Becomes, Idle
  <2>5. CASE TakeTest(h)
    BY <2>5, BeginBecomes DEF TakeTest, git, Checked, Unraced, Hooked, Becomes, Idle
  <2>6. CASE TakeAuto(h)
    BY <2>6, BeginBecomes DEF TakeAuto, git, Checked, Unraced, Hooked, Becomes, Idle
  <2>7. CASE LockTest(h)
    BY <2>7, GotoBecomes DEF LockTest, git, Checked, Unraced, Hooked, Becomes
  <2>8. CASE ReadTest(h)
    BY <2>8, GotoBecomes, EndBecomes DEF ReadTest, git, Checked, Unraced, Hooked, Becomes
  <2>9. CASE Detect(h)
    <3>1. UNCHANGED << head, config, passed >> /\ g[h].op = "test" /\ g[h].pc = "detect"
      BY <2>9 DEF Detect, git, history, queues
    <3> QED BY <2>9, <3>1, DetectBecomes, GotoBecomes DEF Checked, Unraced, Hooked, Becomes
  <2>10. CASE TestPatch(h)
    <3>1. UNCHANGED << head, config, passed >> /\ g[h].op = "test" /\ g[h].pc = "tracking"
      BY <2>10 DEF TestPatch, git, history, queues
    <3> QED BY <2>10, <3>1, TestPatchBecomes DEF Checked, Unraced, Hooked, Becomes
  <2>11. CASE WriteError(h)
    BY <2>11, EndBecomes DEF WriteError, git, Checked, Unraced, Hooked, Becomes
  <2>12. CASE HasTest(h)
    BY <2>12, GotoBecomes, EndBecomes DEF HasTest, git, Checked, Unraced, Hooked, Becomes
  <2>13. CASE WriteVerdict(h)
    BY <2>13, EndBecomes DEF WriteVerdict, git, Checked, Unraced, Hooked, Becomes
  <2>14. CASE CheckPullMergable(h)
    BY <2>14, GotoBecomes, EndBecomes, GotoFlags DEF CheckPullMergable, Passes, git, Checked, Unraced, Hooked, Becomes
  <2>15. CASE LockMerge(h)
    BY <2>15, GotoBecomes, GotoFlags DEF LockMerge, git, Checked, Unraced, Hooked, Becomes
  <2>16. CASE FetchMerge(h)
    <3>1. UNCHANGED << head, config, passed >> /\ g[h].op \in {"merge", "auto"} /\ g[h].pc = "tracking"
      BY <2>16 DEF FetchMerge, git, history, queues
    <3>2. CASE EndMerge(h)
      BY <3>1, <3>2, EndBecomes DEF EndMerge, Checked, Unraced, Hooked, Becomes
    <3>3. CASE ~EndMerge(h)
      <4>1. g[h].doer \in {"user", "pusher", "admin"}
        BY WorkFlags DEF Doer
      <4>2. /\ \E p \in {"hook", "setmerged"} : Becomes(h, g[h].op, p, g[h].status, head, g[h].b)
            /\ g'[h].doer = g[h].doer /\ (g'[h].raced <=> g[h].raced /\ g[h].doer # "user")
        BY <2>16, <3>3, FetchMergeBecomes
      <4> QED BY <3>1, <4>1, <4>2 DEF Checked, Unraced, Hooked, Becomes
    <3> QED BY <3>2, <3>3
  <2>17. CASE PreReceive(h)
    <3>1. UNCHANGED << head, config, passed >> /\ g[h].pc = "hook"
      BY <2>17 DEF PreReceive, git, history, queues
    <3>2. CASE EndMerge(h)
      BY <3>1, <3>2, EndBecomes DEF EndMerge, Checked, Unraced, Hooked, Becomes
    <3>3. CASE Goto(h, "push") /\ (Passes \/ g[h].doer # "user")
      <4>1. g[h].doer \in {"user", "pusher", "admin"}
        BY WorkFlags DEF Doer
      <4> QED BY <3>1, <3>3, <4>1, GotoBecomes, GotoFlags DEF Passes, Checked, Unraced, Hooked, Becomes
    <3> QED BY <2>17, <3>2, <3>3 DEF PreReceive
  <2>18. CASE PushMerge(h)
    BY <2>18, GotoBecomes, EndBecomes DEF PushMerge, EndMerge, git, Checked, Unraced, Hooked, Becomes
  <2>19. CASE SetMerged(h)
    BY <2>19, GotoBecomes, EndBecomes DEF SetMerged, EndMerge, git, Checked, Unraced, Hooked, Becomes
  <2>20. CASE SaveMerged(h)
    BY <2>20, EndBecomes DEF SaveMerged, AfterSetMerged, EndMerge, git, Checked, Unraced, Hooked, Becomes
  <2>21. CASE LockManual(h)
    BY <2>21, GotoBecomes DEF LockManual, git, Checked, Unraced, Hooked, Becomes
  <2>22. CASE MergedManually(h)
    BY <2>22, EndBecomes DEF MergedManually, git, Checked, Unraced, Hooked, Becomes
  <2>23. CASE CompareRefs(h)
    BY <2>23, GotoBecomes DEF CompareRefs, git, Checked, Unraced, Hooked, Becomes
  <2>24. CASE Open(h)
    BY <2>24, EndBecomes DEF Open, git, Checked, Unraced, Hooked, Becomes
  <2>25. CASE Lookup(h)
    BY <2>25, EndBecomes DEF Lookup, git, Checked, Unraced, Hooked, Becomes
  <2>26. ASSUME NEW doer \in Doers \ {"admin"}, ReadAuto(h, doer)
        PROVE  Checked'
    <3>1. UNCHANGED << head, config, passed >> /\ g[h].op = "auto" /\ g[h].pc = "read"
      BY <2>26 DEF ReadAuto, git, history, queues
    <3> QED BY <2>26, <3>1, ReadAutoBecomes, EndBecomes DEF Checked, Unraced, Hooked, Becomes
  <2>27. CASE ReadState(h)
    BY <2>27, ReadStateBecomes, GotoBecomes DEF ReadState, git, Checked, Unraced, Hooked, Becomes
  <2>28. CASE InsertSchedule(h)
    BY <2>28, EndBecomes DEF InsertSchedule, git, Checked, Unraced, Hooked, Becomes
  <2>29. CASE FetchBase(h)
    BY <2>29, FetchBaseBecomes, FetchBaseKeeps DEF Checked, Unraced, Hooked, Becomes
  <2> QED BY <1>1, <2>1, <2>2, <2>3, <2>4, <2>5, <2>6, <2>7, <2>8, <2>9, <2>10, <2>11, <2>12, <2>13, <2>14, <2>15, <2>16, <2>17, <2>18, <2>19, <2>20, <2>21, <2>22, <2>23, <2>24, <2>25, <2>26, <2>27, <2>28, <2>29 DEF Go
<1>2. ASSUME NEW h \in Server, Request(h)
    PROVE  Checked'
  <2>1. ASSUME NEW doer \in Doers, NEW expected \in {None, head}, StartMerge(h, doer, expected)
        PROVE  Checked'
    <3>1. UNCHANGED << head, config, passed >> /\ Ready
      BY <2>1 DEF StartMerge, git, history, queues
    <3> QED BY <2>1, <3>1, StartMergeBecomes DEF Checked, Unraced, Hooked, Becomes, Idle
  <2>2. ASSUME NEW doer \in Doers, NEW expected \in {None, head}, StartSchedule(h, doer, expected)
        PROVE  Checked'
    <3>1. UNCHANGED << head, config, passed >> /\ Ready
      BY <2>2 DEF StartSchedule, git, history, queues
    <3> QED BY <2>2, <3>1, StartScheduleBecomes DEF Checked, Unraced, Hooked, Becomes, Idle
  <2>3. CASE StartManual(h)
    BY <2>3, BeginBecomes DEF StartManual, git, Checked, Unraced, Hooked, Becomes, Idle
  <2>4. ASSUME NEW api \in BOOLEAN, StartReopen(h, api)
        PROVE  Checked'
    BY <2>4, BeginBecomes DEF StartReopen, git, Checked, Unraced, Hooked, Becomes, Idle
  <2>5. ASSUME NEW c \in Commit, NEW success \in BOOLEAN, NEW api \in BOOLEAN, Report(h, c, success, api)
        PROVE  Checked'
    <3>1. UNCHANGED << head, config >>
      BY <2>5 DEF Report, git
    <3>2. CASE success /\ api
      <4>1. passed \subseteq passed'
        BY <3>2, <2>5 DEF Report
      <4>2. g' = [g EXCEPT ![h].op = "report", ![h].pc = "lookup", ![h].c = c]
        BY <3>2, <2>5, Zenon DEF Report
      <4>3. g'[h].op = "report" /\ \A i \in Server \ {h} : g'[i] = g[i]
        BY <4>2 DEF GType, Work
      <4> QED BY <3>1, <4>1, <4>3 DEF Checked, Unraced, Hooked
    <3>3. CASE ~(success /\ api)
      <4>1. \A i \in Server : g'[i] = [g[i] EXCEPT !.raced = @ \/ TakenBack(i, c, success)]
        BY <3>3, <2>5, Zenon DEF Report, TakenBack
      <4>2. ASSUME NEW i \in Server
            PROVE  /\ g'[i].op = g[i].op /\ g'[i].pc = g[i].pc /\ g'[i].c = g[i].c /\ g'[i].doer = g[i].doer
                   /\ g[i].raced => g'[i].raced
                   /\ TakenBack(i, c, success) => g'[i].raced
        <5>1. g[i] \in Work
          BY DEF GType
        <5> QED BY <4>1, <5>1, Zenon DEF Work
      <4>3. \A x \in passed : x \in passed' \/ (~success /\ x = c)
        BY <2>5 DEF Report
      <4>4. ASSUME config.protected, NEW i \in Server, Unraced(i)'
            PROVE  Hooked(i)'
        <5>1. Unraced(i) /\ Hooked(i) /\ ~TakenBack(i, c, success)
          BY <3>1, <4>2, <4>4 DEF Checked, Unraced
        <5>2. Racing(i) => success \/ ToLand(i) # c
          BY <5>1 DEF TakenBack
        <5>3. CASE g[i].pc \in {"lock", "fetch", "tracking"}
          BY <3>1, <4>2, <4>3, <5>1, <5>2, <5>3 DEF Racing, ToLand, Unraced, Hooked
        <5>4. CASE g[i].pc \in {"hook", "push"}
          BY <3>1, <4>2, <4>3, <5>1, <5>2, <5>4 DEF Racing, ToLand, Unraced, Hooked
        <5> QED BY <4>2, <5>3, <5>4 DEF Hooked
      <4> QED BY <3>1, <4>4 DEF Checked
    <3> QED BY <3>2, <3>3
  <2> QED BY <1>2, <2>1, <2>2, <2>3, <2>4, <2>5 DEF Request
<1>3. ASSUME NEW h \in Server, Failure(h)
    PROVE  Checked'
  <2>1. CASE PushToBaseRepoFails(h)
    BY <2>1, EndBecomes DEF PushToBaseRepoFails, git, Checked, Unraced, Hooked, Becomes
  <2>2. CASE EnqueueFails(h)
    BY <2>2, GotoBecomes, EndBecomes DEF EnqueueFails, AfterEnqueue, git, Checked, Unraced, Hooked, Becomes
  <2>3. CASE TestPatchFails(h)
    BY <2>3, GotoBecomes DEF TestPatchFails, git, Checked, Unraced, Hooked, Becomes
  <2>4. CASE MarkFails(h)
    BY <2>4, GotoBecomes, EndBecomes DEF MarkFails, AfterEnqueue, RowType, Row, SetStatus, git, Checked, Unraced, Hooked, Becomes
  <2>5. CASE TakeTestOnly(h)
    BY <2>5, BeginBecomes DEF TakeTestOnly, git, Checked, Unraced, Hooked, Becomes, Idle
  <2>6. CASE HasTestFails(h)
    BY <2>6, GotoBecomes DEF HasTestFails, git, Checked, Unraced, Hooked, Becomes
  <2>7. CASE TestGivesUp(h)
    BY <2>7, EndBecomes DEF TestGivesUp, git, Checked, Unraced, Hooked, Becomes
  <2>8. CASE MergeFails(h)
    BY <2>8, EndBecomes DEF MergeFails, EndMerge, Lands, git, Checked, Unraced, Hooked, Becomes
  <2>9. CASE SetMergedFails(h)
    BY <2>9, GotoBecomes, EndBecomes DEF SetMergedFails, EndMerge, git, Checked, Unraced, Hooked, Becomes
  <2> QED BY <1>3, <2>1, <2>2, <2>3, <2>4, <2>5, <2>6, <2>7, <2>8, <2>9 DEF Failure
<1>4. CASE User
  <2>1. CASE PushBase
    BY <2>1 DEF PushBase, git, Checked, Unraced, Hooked
  <2>2. CASE Close
    BY <2>2 DEF Close, git, Checked, Unraced, Hooked
  <2>3. CASE RemoveSchedule
    BY <2>3 DEF RemoveSchedule, git, Checked, Unraced, Hooked
  <2>4. ASSUME NEW c \in Commit, PushHead(c)
        PROVE  Checked'
    <3>1. PICK R \in [Server -> BOOLEAN] :
            Races(R) /\ \A i \in Server : R[i] <=> g[i].raced \/ Racing(i)
      BY <2>4, PushHeadRaces
    <3>2. ASSUME NEW i \in Server
          PROVE  g'[i].doer = g[i].doer /\ (g'[i].raced <=> g[i].raced \/ Racing(i))
      BY <3>1, RacesFlags
    <3>3. UNCHANGED << passed, config >> /\ Keeps
      BY <2>4, PushHeadKeeps DEF PushHead
    <3>4. ASSUME NEW i \in Server, Unraced(i)'
          PROVE  Hooked(i)'
      <4>1. ~Racing(i) /\ g[i].op \in {"merge", "auto"} /\ g'[i].pc = g[i].pc
        BY <3>2, <3>3, <3>4 DEF Unraced, Keeps
      <4> QED BY <4>1 DEF Racing, Hooked
    <3> QED BY <3>3, <3>4 DEF Checked
  <2> QED BY <1>4, <2>1, <2>2, <2>3, <2>4 DEF User
<1>5. CASE Breakdown
  <2>1. CASE Crash
    BY <2>1 DEF Crash, git, Checked, Unraced, Hooked, Idle
  <2>2. CASE PopFails
    BY <2>2 DEF PopFails, git, Checked, Unraced, Hooked
  <2>3. CASE InitializeFails
    BY <2>3 DEF InitializeFails, git, Checked, Unraced, Hooked
  <2>4. ASSUME NEW branch \in {"head", "base"}, FindPullRequestsFails(branch)
        PROVE  Checked'
    BY <2>4 DEF FindPullRequestsFails, git, Checked, Unraced, Hooked
  <2> QED BY <1>5, <2>1, <2>2, <2>3, <2>4 DEF Breakdown
<1>6. CASE InitializePullRequests
  BY <1>6 DEF InitializePullRequests, git, Checked, Unraced, Hooked
<1> QED BY <1>1, <1>2, <1>3, <1>4, <1>5, <1>6 DEF Next

(* On a protected branch only an administrator lands what had not passed,  *)
(* unless the status or the head branch changed since the doer was last    *)
(* checked: by the hook, or, if it lets the doer through, by the request.  *)
THEOREM LandedWasChecked == Spec => LandsChecked
<1>1. Spec => [](Typed /\ Held /\ Landing /\ Checked)
  BY TypedInit, TypedStutters, TypedSteps, HeldInit, HeldStutters, HeldSteps,
     LandingInit, LandingStutters, LandingSteps, CheckedInit, CheckedStutters, CheckedSteps, PTL DEF Spec
<1>2. Landing /\ Checked =>
        [\A h \in Server :
           g[h].pc = "push" /\ merges' # merges /\ config.protected =>
             g[h].c \in passed \/ g[h].doer = "admin" \/ g[h].raced]_vars
  BY DEF Landing, Merges, Checked, Unraced, Hooked
<1> QED BY <1>1, <1>2, PTL DEF LandsChecked

(***************************************************************************)
(* The verdict.                                                            *)
(***************************************************************************)
(* A test that fetched the branches before they changed is made again. *)
Stale(h) == pr.merged = None /\ Tested(h) /\ ~Current(h) => Pending \/ lost

Fresh ==
  pr.merged = None /\ pr.status \in Verdict /\ judged # <<head, base>> =>
    Pending \/ (\E h \in Server : Tested(h) /\ Current(h)) \/ lost

Retested == Fresh /\ \A h \in Server : Stale(h)

LEMMA RetestedInit == Init => Retested
BY DEF Init, Retested, Fresh, Stale, Tested, Idle

LEMMA RetestedStutters == Retested /\ UNCHANGED vars => Retested'
BY DEF vars, history, git, queues, Retested, Fresh, Stale, Tested, Current, Pending, Updating, Retesting

LEMMA RetestedSteps == Typed /\ Held /\ Retested /\ Next => Retested'
<1> SUFFICES ASSUME Typed, Held, Retested, Next PROVE Retested'
  OBVIOUS
<1> USE NobodyIsNone DEF Typed
<1>1. ASSUME NEW h \in Server, Go(h)
    PROVE  Retested'
  <2>1. CASE Mark(h)
    BY <2>1, GotoBecomes DEF Mark, RowType, Row, SetStatus, Retested, Fresh, Stale, Tested, Current, Pending, Updating, Retesting, Held, Shaped, Locked, Unmerged, Critical, GitType, RestType, git, history, queues, Verdict, Becomes
  <2>2. CASE Enqueue(h)
    BY <2>2, GotoBecomes, EndBecomes DEF Enqueue, AfterEnqueue, Retested, Fresh, Stale, Tested, Current, Pending, Updating, Retesting, Held, Shaped, Locked, Unmerged, Critical, GitType, RestType, git, history, queues, Verdict, Becomes
  <2>3. CASE PushToBaseRepo(h)
    BY <2>3, GotoBecomes DEF PushToBaseRepo, Retested, Fresh, Stale, Tested, Current, Pending, Updating, Retesting, Held, Shaped, Locked, Unmerged, Critical, GitType, RestType, git, history, queues, Verdict, Becomes
  <2>4. ASSUME NEW branch \in {"head", "base"}, StartUpdate(h, branch)
        PROVE  Retested'
    <3>1. UNCHANGED << pr, head, base, judged >>
      BY <2>4 DEF StartUpdate, git, history, queues
    <3>2. CASE pr.merged = None /\ ~pr.closed
      <4>1. Begin(h, "update", IF branch = "head" THEN "pushref" ELSE "mark")
        BY <2>4, <3>2 DEF StartUpdate
      <4>2. Updating(h)'
        BY <4>1, BeginBecomes DEF Updating, Becomes
      <4> QED BY <4>2 DEF Retested, Fresh, Stale, Pending
    <3>3. CASE pr.merged = None /\ pr.closed
      BY <2>4, <3>3 DEF StartUpdate, Retested, Fresh, Stale
    <3>4. CASE pr.merged # None
      BY <3>1, <3>4 DEF Retested, Fresh, Stale
    <3> QED BY <3>2, <3>3, <3>4 DEF RowType, Row
  <2>5. CASE TakeTest(h)
    BY <2>5, BeginBecomes DEF TakeTest, Retested, Fresh, Stale, Tested, Current, Pending, Updating, Retesting, Held, Shaped, Locked, Unmerged, Critical, GitType, RestType, git, history, queues, Verdict, Becomes, Idle
  <2>6. CASE TakeAuto(h)
    BY <2>6, BeginBecomes DEF TakeAuto, Retested, Fresh, Stale, Tested, Current, Pending, Updating, Retesting, Held, Shaped, Locked, Unmerged, Critical, GitType, RestType, git, history, queues, Verdict, Becomes, Idle
  <2>7. CASE LockTest(h)
    BY <2>7, GotoBecomes DEF LockTest, Retested, Fresh, Stale, Tested, Current, Pending, Updating, Retesting, Held, Shaped, Locked, Unmerged, Critical, GitType, RestType, git, history, queues, Verdict, Becomes
  <2>8. CASE ReadTest(h)
    BY <2>8, GotoBecomes, EndBecomes DEF ReadTest, Retested, Fresh, Stale, Tested, Current, Pending, Updating, Retesting, Held, Shaped, Locked, Unmerged, Critical, GitType, RestType, git, history, queues, Verdict, Becomes
  <2>9. CASE Detect(h)
    <3>1. UNCHANGED << pr, head, base, judged, lost, testing, tasks >> /\ g[h].op = "test" /\ g[h].pc = "detect"
      BY <2>9 DEF Detect, git, history, queues
    <3> QED BY <2>9, <3>1, DetectBecomes, GotoBecomes DEF Retested, Fresh, Stale, Tested, Current, Pending, Updating, Retesting, Held, Shaped, Locked, Unmerged, Critical, GitType, RestType, git, history, queues, Verdict, Becomes
  <2>10. CASE TestPatch(h)
    <3>1. UNCHANGED << pr, head, base, judged, lost, testing, tasks >> /\ g[h].op = "test" /\ g[h].pc = "tracking"
      BY <2>10 DEF TestPatch, git, history, queues
    <3> QED BY <2>10, <3>1, TestPatchBecomes DEF Retested, Fresh, Stale, Tested, Current, Pending, Updating, Retesting, Held, Shaped, Locked, Unmerged, Critical, GitType, RestType, git, history, queues, Verdict, Becomes
  <2>11. CASE WriteError(h)
    BY <2>11, EndBecomes DEF WriteError, RowType, Row, Retested, Fresh, Stale, Tested, Current, Pending, Updating, Retesting, Held, Shaped, Locked, Unmerged, Critical, GitType, RestType, git, history, queues, Verdict, Becomes
  <2>12. CASE HasTest(h)
    <3>1. UNCHANGED << pr, head, base, judged, testing, tasks >> /\ g[h].op = "test" /\ g[h].pc = "has"
      BY <2>12 DEF HasTest, git, history, queues
    <3>2. CASE testing
      BY <3>1, <3>2 DEF Retested, Fresh, Stale, Pending
    <3>3. CASE stale /\ ~testing
      <4>1. lost'
        BY <2>12, <3>3, Zenon DEF HasTest
      <4> QED BY <4>1 DEF Retested, Fresh, Stale
    <3>4. CASE ~stale /\ ~testing
      <4>1. Goto(h, "write") /\ (lost' <=> lost)
        BY <2>12, <3>4, Zenon DEF HasTest
      <4> QED BY <3>1, <4>1, GotoBecomes DEF Retested, Fresh, Stale, Tested, Current, Pending, Updating, Retesting, Becomes
    <3> QED BY <3>2, <3>3, <3>4
  <2>13. CASE WriteVerdict(h)
    BY <2>13, EndBecomes, ConstantsAssumption DEF WriteVerdict, RowType, Row, SetStatus, Retested, Fresh, Stale, Tested, Current, Pending, Updating, Retesting, Held, Shaped, Locked, Unmerged, Critical, GitType, RestType, git, history, queues, Verdict, Becomes
  <2>14. CASE CheckPullMergable(h)
    BY <2>14, GotoBecomes, EndBecomes DEF CheckPullMergable, Retested, Fresh, Stale, Tested, Current, Pending, Updating, Retesting, Held, Shaped, Locked, Unmerged, Critical, GitType, RestType, git, history, queues, Verdict, Becomes
  <2>15. CASE LockMerge(h)
    BY <2>15, GotoBecomes DEF LockMerge, Retested, Fresh, Stale, Tested, Current, Pending, Updating, Retesting, Held, Shaped, Locked, Unmerged, Critical, GitType, RestType, git, history, queues, Verdict, Becomes
  <2>16. CASE FetchMerge(h)
    <3>1. /\ UNCHANGED << pr, head, base, judged, lost, testing >>
          /\ g[h].op \in {"merge", "auto"} /\ g[h].pc = "tracking"
      BY <2>16 DEF FetchMerge, git, history, queues
    <3>2. CASE EndMerge(h)
      <4>1. Pending'
        BY <3>2 DEF EndMerge, Pending, RestType
      <4> QED BY <4>1 DEF Retested, Fresh, Stale
    <3>3. CASE ~EndMerge(h)
      BY <2>16, <3>1, <3>3, FetchMergeBecomes DEF Retested, Fresh, Stale, Tested, Current, Pending, Updating, Retesting, Becomes
    <3> QED BY <3>2, <3>3
  <2>17. CASE PreReceive(h)
    BY <2>17, GotoBecomes, EndBecomes DEF PreReceive, EndMerge, Retested, Fresh, Stale, Tested, Current, Pending, Updating, Retesting, Held, Shaped, Locked, Unmerged, Critical, GitType, RestType, git, history, queues, Verdict, Becomes
  <2>18. CASE PushMerge(h)
    BY <2>18, GotoBecomes, EndBecomes DEF PushMerge, EndMerge, Retested, Fresh, Stale, Tested, Current, Pending, Updating, Retesting, Held, Shaped, Locked, Unmerged, Critical, GitType, RestType, git, history, queues, Verdict, Becomes
  <2>19. CASE SetMerged(h)
    BY <2>19, GotoBecomes, EndBecomes DEF SetMerged, EndMerge, RowType, Row, Retested, Fresh, Stale, Tested, Current, Pending, Updating, Retesting, Held, Shaped, Locked, Unmerged, Critical, GitType, RestType, git, history, queues, Verdict, Becomes
  <2>20. CASE SaveMerged(h)
    BY <2>20, EndBecomes, ConstantsAssumption DEF SaveMerged, AfterSetMerged, EndMerge, RowType, Row, Fetched, Retested, Fresh, Stale, Tested, Current, Pending, Updating, Retesting, Held, Shaped, Locked, Unmerged, Critical, GitType, RestType, git, history, queues, Verdict, Becomes
  <2>21. CASE LockManual(h)
    BY <2>21, GotoBecomes DEF LockManual, Retested, Fresh, Stale, Tested, Current, Pending, Updating, Retesting, Held, Shaped, Locked, Unmerged, Critical, GitType, RestType, git, history, queues, Verdict, Becomes
  <2>22. CASE MergedManually(h)
    BY <2>22, EndBecomes, ConstantsAssumption DEF MergedManually, RowType, Row, Retested, Fresh, Stale, Tested, Current, Pending, Updating, Retesting, Held, Shaped, Locked, Unmerged, Critical, GitType, RestType, git, history, queues, Verdict, Becomes
  <2>23. CASE CompareRefs(h)
    BY <2>23, GotoBecomes DEF CompareRefs, Retested, Fresh, Stale, Tested, Current, Pending, Updating, Retesting, Held, Shaped, Locked, Unmerged, Critical, GitType, RestType, git, history, queues, Verdict, Becomes
  <2>24. CASE Open(h)
    BY <2>24, EndBecomes DEF Open, RowType, Row, Retested, Fresh, Stale, Tested, Current, Pending, Updating, Retesting, Held, Shaped, Locked, Unmerged, Critical, GitType, RestType, git, history, queues, Verdict, Becomes
  <2>25. CASE Lookup(h)
    BY <2>25, EndBecomes DEF Lookup, Retested, Fresh, Stale, Tested, Current, Pending, Updating, Retesting, Held, Shaped, Locked, Unmerged, Critical, GitType, RestType, git, history, queues, Verdict, Becomes
  <2>26. ASSUME NEW doer \in Doers \ {"admin"}, ReadAuto(h, doer)
        PROVE  Retested'
    <3>1. UNCHANGED << pr, head, base, judged, lost, testing, tasks >> /\ g[h].op = "auto" /\ g[h].pc = "read"
      BY <2>26 DEF ReadAuto, git, history, queues
    <3> QED BY <2>26, <3>1, ReadAutoBecomes, EndBecomes DEF Retested, Fresh, Stale, Tested, Current, Pending, Updating, Retesting, Held, Shaped, Locked, Unmerged, Critical, GitType, RestType, git, history, queues, Verdict, Becomes
  <2>27. CASE ReadState(h)
    BY <2>27, ReadStateBecomes, GotoBecomes DEF ReadState, Retested, Fresh, Stale, Tested, Current, Pending, Updating, Retesting, Held, Shaped, Locked, Unmerged, Critical, GitType, RestType, git, history, queues, Verdict, Becomes
  <2>28. CASE InsertSchedule(h)
    BY <2>28, EndBecomes DEF InsertSchedule, Retested, Fresh, Stale, Tested, Current, Pending, Updating, Retesting, Held, Shaped, Locked, Unmerged, Critical, GitType, RestType, git, history, queues, Verdict, Becomes
  <2>29. CASE FetchBase(h)
    BY <2>29, FetchBaseBecomes, FetchBaseKeeps DEF Retested, Fresh, Stale, Tested, Current, Pending, Updating, Retesting, Held, Shaped, Locked, Unmerged, Critical, Verdict, Becomes
  <2> QED BY <1>1, <2>1, <2>2, <2>3, <2>4, <2>5, <2>6, <2>7, <2>8, <2>9, <2>10, <2>11, <2>12, <2>13, <2>14, <2>15, <2>16, <2>17, <2>18, <2>19, <2>20, <2>21, <2>22, <2>23, <2>24, <2>25, <2>26, <2>27, <2>28, <2>29 DEF Go
<1>2. ASSUME NEW h \in Server, Request(h)
    PROVE  Retested'
  <2>1. ASSUME NEW doer \in Doers, NEW expected \in {None, head}, StartMerge(h, doer, expected)
        PROVE  Retested'
    <3>1. UNCHANGED << pr, head, base, judged, lost, testing, tasks >> /\ Ready
      BY <2>1 DEF StartMerge, git, history, queues
    <3> QED BY <2>1, <3>1, StartMergeBecomes DEF Retested, Fresh, Stale, Tested, Current, Pending, Updating, Retesting, Held, Shaped, Locked, Unmerged, Critical, GitType, RestType, git, history, queues, Verdict, Becomes, Idle
  <2>2. ASSUME NEW doer \in Doers, NEW expected \in {None, head}, StartSchedule(h, doer, expected)
        PROVE  Retested'
    <3>1. UNCHANGED << pr, head, base, judged, lost, testing, tasks >> /\ Ready
      BY <2>2 DEF StartSchedule, git, history, queues
    <3> QED BY <2>2, <3>1, StartScheduleBecomes DEF Retested, Fresh, Stale, Tested, Current, Pending, Updating, Retesting, Held, Shaped, Locked, Unmerged, Critical, GitType, RestType, git, history, queues, Verdict, Becomes, Idle
  <2>3. CASE StartManual(h)
    BY <2>3, BeginBecomes DEF StartManual, Retested, Fresh, Stale, Tested, Current, Pending, Updating, Retesting, Held, Shaped, Locked, Unmerged, Critical, GitType, RestType, git, history, queues, Verdict, Becomes, Idle
  <2>4. ASSUME NEW api \in BOOLEAN, StartReopen(h, api)
        PROVE  Retested'
    BY <2>4, BeginBecomes DEF StartReopen, Retested, Fresh, Stale, Tested, Current, Pending, Updating, Retesting, Held, Shaped, Locked, Unmerged, Critical, GitType, RestType, git, history, queues, Verdict, Becomes, Idle
  <2>5. ASSUME NEW c \in Commit, NEW success \in BOOLEAN, NEW api \in BOOLEAN, Report(h, c, success, api)
        PROVE  Retested'
    <3>1. UNCHANGED << pr, head, base, judged, lost, testing, tasks >>
      BY <2>5 DEF Report, git, history, queues
    <3> QED BY <2>5, <3>1, ReportBecomes DEF Retested, Fresh, Stale, Tested, Current, Pending, Updating, Retesting, Held, Shaped, Locked, Unmerged, Critical, GitType, RestType, git, history, queues, Verdict, Becomes, Keeps, Idle
  <2> QED BY <1>2, <2>1, <2>2, <2>3, <2>4, <2>5 DEF Request
<1>3. ASSUME NEW h \in Server, Failure(h)
    PROVE  Retested'
  <2>1. CASE PushToBaseRepoFails(h)
    BY <2>1, EndBecomes DEF PushToBaseRepoFails, Retested, Fresh, Stale, Tested, Current, Pending, Updating, Retesting, Held, Shaped, Locked, Unmerged, Critical, GitType, RestType, git, history, queues, Verdict, Becomes
  <2>2. CASE EnqueueFails(h)
    BY <2>2, GotoBecomes, EndBecomes DEF EnqueueFails, AfterEnqueue, Retested, Fresh, Stale, Tested, Current, Pending, Updating, Retesting, Held, Shaped, Locked, Unmerged, Critical, GitType, RestType, git, history, queues, Verdict, Becomes
  <2>3. CASE TestPatchFails(h)
    BY <2>3, GotoBecomes DEF TestPatchFails, Retested, Fresh, Stale, Tested, Current, Pending, Updating, Retesting, Held, Shaped, Locked, Unmerged, Critical, GitType, RestType, git, history, queues, Verdict, Becomes
  <2>4. CASE MarkFails(h)
    BY <2>4, GotoBecomes, EndBecomes DEF MarkFails, AfterEnqueue, RowType, Row, SetStatus, Retested, Fresh, Stale, Tested, Current, Pending, Updating, Retesting, Held, Shaped, Locked, Unmerged, Critical, GitType, RestType, git, history, queues, Verdict, Becomes
  <2>5. CASE TakeTestOnly(h)
    BY <2>5, BeginBecomes DEF TakeTestOnly, Retested, Fresh, Stale, Tested, Current, Pending, Updating, Retesting, Held, Shaped, Locked, Unmerged, Critical, GitType, RestType, git, history, queues, Verdict, Becomes, Idle
  <2>6. CASE HasTestFails(h)
    BY <2>6, GotoBecomes DEF HasTestFails, Retested, Fresh, Stale, Tested, Current, Pending, Updating, Retesting, Held, Shaped, Locked, Unmerged, Critical, GitType, RestType, git, history, queues, Verdict, Becomes
  <2>7. CASE TestGivesUp(h)
    BY <2>7, EndBecomes DEF TestGivesUp, Retested, Fresh, Stale, Tested, Current, Pending, Updating, Retesting, Held, Shaped, Locked, Unmerged, Critical, GitType, RestType, git, history, queues, Verdict, Becomes
  <2>8. CASE MergeFails(h)
    BY <2>8, EndBecomes DEF MergeFails, EndMerge, Lands, Retested, Fresh, Stale, Tested, Current, Pending, Updating, Retesting, Held, Shaped, Locked, Unmerged, Critical, GitType, RestType, git, history, queues, Verdict, Becomes
  <2>9. CASE SetMergedFails(h)
    BY <2>9, GotoBecomes, EndBecomes DEF SetMergedFails, EndMerge, Retested, Fresh, Stale, Tested, Current, Pending, Updating, Retesting, Held, Shaped, Locked, Unmerged, Critical, GitType, RestType, git, history, queues, Verdict, Becomes
  <2> QED BY <1>3, <2>1, <2>2, <2>3, <2>4, <2>5, <2>6, <2>7, <2>8, <2>9 DEF Failure
<1>4. CASE User
  <2>1. CASE PushBase
    BY <2>1 DEF PushBase, Retested, Fresh, Stale, Tested, Current, Pending, Updating, Retesting, Held, Shaped, Locked, Unmerged, Critical, GitType, RestType, git, history, queues, Verdict
  <2>2. CASE Close
    BY <2>2 DEF Close, RowType, Row, Retested, Fresh, Stale, Tested, Current, Pending, Updating, Retesting, Held, Shaped, Locked, Unmerged, Critical, GitType, RestType, git, history, queues, Verdict
  <2>3. CASE RemoveSchedule
    BY <2>3 DEF RemoveSchedule, Retested, Fresh, Stale, Tested, Current, Pending, Updating, Retesting, Held, Shaped, Locked, Unmerged, Critical, GitType, RestType, git, history, queues, Verdict
  <2>4. ASSUME NEW c \in Commit, PushHead(c)
        PROVE  Retested'
    <3>1. Pending'
      BY <2>4 DEF PushHead, Pending, RestType
    <3> QED BY <3>1 DEF Retested, Fresh, Stale
  <2> QED BY <1>4, <2>1, <2>2, <2>3, <2>4 DEF User
<1>5. CASE Breakdown
  <2>1. CASE Crash
    BY <2>1 DEF Crash, Retested, Fresh, Stale, Tested, Current, Pending, Updating, Retesting, Held, Shaped, Locked, Unmerged, Critical, GitType, RestType, git, history, queues, Verdict, Idle
  <2>2. CASE PopFails
    BY <2>2 DEF PopFails, Retested, Fresh, Stale, Tested, Current, Pending, Updating, Retesting, Held, Shaped, Locked, Unmerged, Critical, GitType, RestType, git, history, queues, Verdict
  <2>3. CASE InitializeFails
    BY <2>3 DEF InitializeFails, Retested, Fresh, Stale, Tested, Current, Pending, Updating, Retesting, Held, Shaped, Locked, Unmerged, Critical, GitType, RestType, git, history, queues, Verdict
  <2>4. ASSUME NEW branch \in {"head", "base"}, FindPullRequestsFails(branch)
        PROVE  Retested'
    BY <2>4 DEF FindPullRequestsFails, Retested, Fresh, Stale, Tested, Current, Pending, Updating, Retesting, Held, Shaped, Locked, Unmerged, Critical, GitType, RestType, git, history, queues, Verdict
  <2> QED BY <1>5, <2>1, <2>2, <2>3, <2>4 DEF Breakdown
<1>6. CASE InitializePullRequests
  BY <1>6 DEF InitializePullRequests, Retested, Fresh, Stale, Tested, Current, Pending, Updating, Retesting, Held, Shaped, Locked, Unmerged, Critical, GitType, RestType, git, history, queues, Verdict
<1> QED BY <1>1, <1>2, <1>3, <1>4, <1>5, <1>6 DEF Next

(* The verdict an open pull request shows is that of the commits the two   *)
(* branches have now, or a test that will say so is on its way, but for an *)
(* update that was lost.                                                   *)
THEOREM FreshForGood == Spec => []StatusIsFresh
<1>1. Spec => [](Typed /\ Held /\ Retested)
  BY TypedInit, TypedStutters, TypedSteps, HeldInit, HeldStutters, HeldSteps,
     RetestedInit, RetestedStutters, RetestedSteps, PTL DEF Spec
<1>2. Retested => StatusIsFresh
  BY DEF Retested, Fresh, Tested, Current, StatusIsFresh
<1> QED BY <1>1, <1>2, PTL

(***************************************************************************)
(* Who owes a pull request its test.                                       *)
(***************************************************************************)
(* What a test is about to write is a verdict. *)
Decided(h) == g[h].op = "test" /\ g[h].pc \in {"has", "write"} => g[h].status \in Verdict

Owed == CheckingIsOwed /\ \A h \in Server : Decided(h)

LEMMA OwedInit == Init => Owed
BY DEF Init, Owed, CheckingIsOwed, Decided, Idle

LEMMA OwedStutters == Owed /\ UNCHANGED vars => Owed'
BY DEF vars, history, git, queues, Owed, CheckingIsOwed, Decided

LEMMA OwedSteps == Typed /\ Held /\ Owed /\ Next => Owed'
<1> SUFFICES ASSUME Typed, Held, Owed, Next PROVE Owed'
  OBVIOUS
<1> USE NobodyIsNone DEF Typed
<1>1. ASSUME NEW h \in Server, Go(h)
    PROVE  Owed'
  <2>1. CASE Mark(h)
    BY <2>1, GotoBecomes DEF Mark, Owed, CheckingIsOwed, Decided, Becomes
  <2>2. CASE Enqueue(h)
    <3>1. testing' \/ stuck'
      BY <2>2, Zenon DEF Enqueue
    <3>2. Decided(h)' /\ \A i \in Server \ {h} : g'[i] = g[i]
      BY <2>2, GotoBecomes, EndBecomes DEF Enqueue, AfterEnqueue, Decided, Becomes
    <3> QED BY <3>1, <3>2 DEF Owed, CheckingIsOwed, Decided
  <2>3. CASE PushToBaseRepo(h)
    BY <2>3, GotoBecomes DEF PushToBaseRepo, Owed, CheckingIsOwed, Decided, history, queues, Becomes
  <2>4. ASSUME NEW branch \in {"head", "base"}, StartUpdate(h, branch)
        PROVE  Owed'
    <3>1. UNCHANGED << pr, testing, starting, stuck >>
      BY <2>4 DEF StartUpdate, queues
    <3>2. CASE UNCHANGED g
      BY <3>1, <3>2 DEF Owed, CheckingIsOwed, Decided
    <3>3. CASE Begin(h, "update", IF branch = "head" THEN "pushref" ELSE "mark")
      BY <3>1, <3>3, BeginBecomes DEF Owed, CheckingIsOwed, Decided, Becomes, Idle
    <3> QED BY <2>4, <3>2, <3>3 DEF StartUpdate
  <2>5. CASE TakeTest(h)
    BY <2>5, BeginBecomes DEF TakeTest, Owed, CheckingIsOwed, Decided, Becomes
  <2>6. CASE TakeAuto(h)
    BY <2>6, BeginBecomes DEF TakeAuto, Owed, CheckingIsOwed, Decided, history, Becomes, Idle
  <2>7. CASE LockTest(h)
    BY <2>7, GotoBecomes DEF LockTest, Owed, CheckingIsOwed, Decided, Becomes
  <2>8. CASE ReadTest(h)
    BY <2>8, GotoBecomes, EndBecomes DEF ReadTest, Owed, CheckingIsOwed, Decided, Becomes
  <2>9. CASE Detect(h)
    <3>1. UNCHANGED << pr, testing, starting, stuck >> /\ g[h].op = "test" /\ g[h].pc = "detect"
      BY <2>9 DEF Detect, history, queues
    <3> QED BY <2>9, <3>1, DetectBecomes, GotoBecomes DEF Owed, CheckingIsOwed, Decided, Becomes
  <2>10. CASE TestPatch(h)
    <3>1. UNCHANGED << pr, testing, starting, stuck >> /\ g[h].op = "test" /\ g[h].pc = "tracking"
      BY <2>10 DEF TestPatch, history, queues
    <3> QED BY <2>10, <3>1, TestPatchBecomes DEF Owed, CheckingIsOwed, Decided, VerdictOf, Verdict, Becomes
  <2>11. CASE WriteError(h)
    BY <2>11, EndBecomes DEF WriteError, Owed, CheckingIsOwed, Decided, Becomes
  <2>12. CASE HasTest(h)
    <3>1. UNCHANGED << pr, testing, starting >> /\ g[h].op = "test" /\ g[h].pc = "has"
      BY <2>12 DEF HasTest, history, queues
    <3>2. CASE testing \/ stale
      <4>1. testing' \/ stuck'
        BY <2>12, <3>2, Zenon DEF HasTest, queues
      <4>2. Decided(h)' /\ \A i \in Server \ {h} : g'[i] = g[i]
        BY <2>12, <3>2, EndBecomes DEF HasTest, Decided, Becomes
      <4> QED BY <4>1, <4>2 DEF Owed, CheckingIsOwed, Decided
    <3>3. CASE ~(testing \/ stale)
      <4>1. Goto(h, "write") /\ (stuck' <=> stuck)
        BY <2>12, <3>3, Zenon DEF HasTest
      <4> QED BY <3>1, <4>1, GotoBecomes DEF Owed, CheckingIsOwed, Decided, Becomes
    <3> QED BY <3>2, <3>3
  <2>13. CASE WriteVerdict(h)
    BY <2>13, EndBecomes, ConstantsAssumption DEF WriteVerdict, SetStatus, Owed, CheckingIsOwed, Decided, Verdict, Becomes
  <2>14. CASE CheckPullMergable(h)
    BY <2>14, GotoBecomes, EndBecomes DEF CheckPullMergable, Owed, CheckingIsOwed, Decided, Held, Shaped, history, queues, Becomes
  <2>15. CASE LockMerge(h)
    BY <2>15, GotoBecomes DEF LockMerge, Owed, CheckingIsOwed, Decided, history, queues, Becomes
  <2>16. CASE FetchMerge(h)
    <3>1. /\ UNCHANGED << pr, testing, starting, stuck >>
          /\ g[h].op \in {"merge", "auto"} /\ g[h].pc = "tracking"
      BY <2>16 DEF FetchMerge, history, queues
    <3> QED BY <2>16, <3>1, FetchMergeBecomes, EndBecomes DEF EndMerge, Owed, CheckingIsOwed, Decided, Becomes
  <2>17. CASE PreReceive(h)
    BY <2>17, GotoBecomes, EndBecomes DEF PreReceive, EndMerge, Owed, CheckingIsOwed, Decided, Held, Shaped, history, queues, Becomes
  <2>18. CASE PushMerge(h)
    BY <2>18, GotoBecomes, EndBecomes DEF PushMerge, EndMerge, Owed, CheckingIsOwed, Decided, Held, Shaped, queues, Becomes
  <2>19. CASE SetMerged(h)
    BY <2>19, GotoBecomes, EndBecomes DEF SetMerged, EndMerge, RowType, Row, Owed, CheckingIsOwed, Decided, history, queues, Becomes
  <2>20. CASE SaveMerged(h)
    BY <2>20, EndBecomes, ConstantsAssumption DEF SaveMerged, AfterSetMerged, EndMerge, Fetched, Owed, CheckingIsOwed, Decided, Becomes
  <2>21. CASE LockManual(h)
    BY <2>21, GotoBecomes DEF LockManual, Owed, CheckingIsOwed, Decided, history, queues, Becomes
  <2>22. CASE MergedManually(h)
    BY <2>22, EndBecomes, ConstantsAssumption DEF MergedManually, Owed, CheckingIsOwed, Decided, history, queues, Becomes
  <2>23. CASE CompareRefs(h)
    BY <2>23, GotoBecomes DEF CompareRefs, Owed, CheckingIsOwed, Decided, history, queues, Becomes
  <2>24. CASE Open(h)
    BY <2>24, EndBecomes DEF Open, Owed, CheckingIsOwed, Decided, history, queues, Becomes
  <2>25. CASE Lookup(h)
    BY <2>25, EndBecomes DEF Lookup, Owed, CheckingIsOwed, Decided, history, Becomes
  <2>26. ASSUME NEW doer \in Doers \ {"admin"}, ReadAuto(h, doer)
        PROVE  Owed'
    <3>1. UNCHANGED << pr, testing, starting, stuck >> /\ g[h].op = "auto" /\ g[h].pc = "read"
      BY <2>26 DEF ReadAuto, history, queues
    <3> QED BY <2>26, <3>1, ReadAutoBecomes, EndBecomes DEF Owed, CheckingIsOwed, Decided, Becomes
  <2>27. CASE ReadState(h)
    BY <2>27, ReadStateBecomes, GotoBecomes DEF ReadState, Owed, CheckingIsOwed, Decided, history, queues, Becomes
  <2>28. CASE InsertSchedule(h)
    BY <2>28, EndBecomes DEF InsertSchedule, Owed, CheckingIsOwed, Decided, history, queues, Becomes
  <2>29. CASE FetchBase(h)
    BY <2>29, FetchBaseBecomes, FetchBaseKeeps DEF Owed, CheckingIsOwed, Decided, Becomes
  <2> QED BY <1>1, <2>1, <2>2, <2>3, <2>4, <2>5, <2>6, <2>7, <2>8, <2>9, <2>10, <2>11, <2>12, <2>13, <2>14, <2>15, <2>16, <2>17, <2>18, <2>19, <2>20, <2>21, <2>22, <2>23, <2>24, <2>25, <2>26, <2>27, <2>28, <2>29 DEF Go
<1>2. ASSUME NEW h \in Server, Request(h)
    PROVE  Owed'
  <2>1. ASSUME NEW doer \in Doers, NEW expected \in {None, head}, StartMerge(h, doer, expected)
        PROVE  Owed'
    <3>1. UNCHANGED << pr, testing, starting, stuck >> /\ Ready
      BY <2>1 DEF StartMerge, history, queues
    <3> QED BY <2>1, <3>1, StartMergeBecomes DEF Owed, CheckingIsOwed, Decided, Becomes, Idle
  <2>2. ASSUME NEW doer \in Doers, NEW expected \in {None, head}, StartSchedule(h, doer, expected)
        PROVE  Owed'
    <3>1. UNCHANGED << pr, testing, starting, stuck >> /\ Ready
      BY <2>2 DEF StartSchedule, history, queues
    <3> QED BY <2>2, <3>1, StartScheduleBecomes DEF Owed, CheckingIsOwed, Decided, Becomes, Idle
  <2>3. CASE StartManual(h)
    BY <2>3, BeginBecomes DEF StartManual, Owed, CheckingIsOwed, Decided, history, queues, Becomes, Idle
  <2>4. ASSUME NEW api \in BOOLEAN, StartReopen(h, api)
        PROVE  Owed'
    BY <2>4, BeginBecomes DEF StartReopen, Owed, CheckingIsOwed, Decided, history, queues, Becomes, Idle
  <2>5. ASSUME NEW c \in Commit, NEW success \in BOOLEAN, NEW api \in BOOLEAN, Report(h, c, success, api)
        PROVE  Owed'
    <3>1. UNCHANGED << pr, testing, starting, stuck >>
      BY <2>5 DEF Report, history, queues
    <3> QED BY <2>5, <3>1, ReportBecomes DEF Owed, CheckingIsOwed, Decided, Becomes, Keeps, Idle
  <2> QED BY <1>2, <2>1, <2>2, <2>3, <2>4, <2>5 DEF Request
<1>3. ASSUME NEW h \in Server, Failure(h)
    PROVE  Owed'
  <2>1. CASE PushToBaseRepoFails(h)
    BY <2>1, EndBecomes DEF PushToBaseRepoFails, Owed, CheckingIsOwed, Decided, queues, Becomes
  <2>2. CASE EnqueueFails(h)
    <3>1. testing' \/ stuck'
      BY <2>2, Zenon DEF EnqueueFails
    <3>2. Decided(h)' /\ \A i \in Server \ {h} : g'[i] = g[i]
      BY <2>2, GotoBecomes, EndBecomes DEF EnqueueFails, AfterEnqueue, Decided, Becomes
    <3> QED BY <3>1, <3>2 DEF Owed, CheckingIsOwed, Decided
  <2>3. CASE TestPatchFails(h)
    BY <2>3, GotoBecomes DEF TestPatchFails, Owed, CheckingIsOwed, Decided, Becomes
  <2>4. CASE MarkFails(h)
    <3>1. UNCHANGED << testing, starting >> /\ (stuck' <=> stuck \/ pr' # pr) /\ g[h].pc = "mark"
      BY <2>4, Zenon DEF MarkFails, queues
    <3>2. Decided(h)' /\ g'[h].pc # "mark" /\ \A i \in Server \ {h} : g'[i] = g[i]
      BY <2>4, GotoBecomes, EndBecomes DEF MarkFails, AfterEnqueue, Decided, Becomes
    <3>3. g[h].op # "test"
      BY <3>1 DEF Held, Shaped
    <3> QED BY <3>1, <3>2, <3>3 DEF Owed, CheckingIsOwed, Decided
  <2>5. CASE TakeTestOnly(h)
    BY <2>5, BeginBecomes DEF TakeTestOnly, Owed, CheckingIsOwed, Decided, history, queues, Becomes, Idle
  <2>6. CASE HasTestFails(h)
    BY <2>6, GotoBecomes DEF HasTestFails, Owed, CheckingIsOwed, Decided, history, queues, Becomes
  <2>7. CASE TestGivesUp(h)
    BY <2>7, EndBecomes DEF TestGivesUp, Owed, CheckingIsOwed, Decided, history, queues, Becomes
  <2>8. CASE MergeFails(h)
    BY <2>8, EndBecomes DEF MergeFails, EndMerge, Lands, Owed, CheckingIsOwed, Decided, history, queues, Becomes
  <2>9. CASE SetMergedFails(h)
    BY <2>9, GotoBecomes, EndBecomes DEF SetMergedFails, EndMerge, Owed, CheckingIsOwed, Decided, history, queues, Becomes
  <2> QED BY <1>3, <2>1, <2>2, <2>3, <2>4, <2>5, <2>6, <2>7, <2>8, <2>9 DEF Failure
<1>4. CASE User
  <2>1. CASE PushBase
    BY <2>1 DEF PushBase, Owed, CheckingIsOwed, Decided, history, queues
  <2>2. CASE Close
    BY <2>2 DEF Close, Owed, CheckingIsOwed, Decided, queues
  <2>3. CASE RemoveSchedule
    BY <2>3 DEF RemoveSchedule, Owed, CheckingIsOwed, Decided, history, queues
  <2>4. ASSUME NEW c \in Commit, PushHead(c)
        PROVE  Owed'
    <3>1. UNCHANGED << pr, testing, starting, stuck >> /\ Keeps
      BY <2>4, PushHeadKeeps DEF PushHead, history, queues
    <3> QED BY <3>1 DEF Owed, CheckingIsOwed, Decided, Keeps
  <2> QED BY <1>4, <2>1, <2>2, <2>3, <2>4 DEF User
<1>5. CASE Breakdown
  <2>1. CASE Crash
    BY <2>1 DEF Crash, Owed, CheckingIsOwed, Decided, history, queues, Idle
  <2>2. CASE PopFails
    BY <2>2 DEF PopFails, Owed, CheckingIsOwed, Decided, history, queues
  <2>3. CASE InitializeFails
    BY <2>3 DEF InitializeFails, Owed, CheckingIsOwed, Decided, history, queues
  <2>4. ASSUME NEW branch \in {"head", "base"}, FindPullRequestsFails(branch)
        PROVE  Owed'
    BY <2>4 DEF FindPullRequestsFails, Owed, CheckingIsOwed, Decided, history, queues
  <2> QED BY <1>5, <2>1, <2>2, <2>3, <2>4 DEF Breakdown
<1>6. CASE InitializePullRequests
  BY <1>6 DEF InitializePullRequests, Owed, CheckingIsOwed, Decided
<1> QED BY <1>1, <1>2, <1>3, <1>4, <1>5, <1>6 DEF Next

(* A pull request that is "checking" is queued, tested, or found by the    *)
(* next start, with any number of goroutines, crashes and failures, unless *)
(* the push to the queue failed.                                           *)
THEOREM CheckingOwed == Spec => []CheckingIsOwed
<1>1. Spec => [](Typed /\ Held /\ Owed)
  BY TypedInit, TypedStutters, TypedSteps, HeldInit, HeldStutters, HeldSteps,
     OwedInit, OwedStutters, OwedSteps, PTL DEF Spec
<1>2. Owed => CheckingIsOwed
  BY DEF Owed
<1> QED BY <1>1, <1>2, PTL
=============================================================================
