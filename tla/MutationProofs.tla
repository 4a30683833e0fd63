----------------------------- MODULE MutationProofs -----------------------------
(***************************************************************************)
(* Mutations, for any number of clients, keys, values and requests and any *)
(* filters.                                                                *)
(*                                                                         *)
(* The argument has two parts.  What the mutation of one client has done   *)
(* so far fits its request, whatever the others do (Local).  What it has   *)
(* written fits the committed rows, because it holds their locks until it  *)
(* commits (TxSound), and because every later change of a row is counted   *)
(* (WroteSound).                                                           *)
(***************************************************************************)
EXTENDS Mutation, FiniteSetTheorems, SequenceTheorems, TLAPS

Value == Row \cup {Absent}

\* Sets of writes.
LEMMA WritesOut ==
  ASSUME NEW w \in Writes
  PROVE  DOMAIN w \subseteq Keys /\ IsFiniteSet(DOMAIN w) /\ \A k \in DOMAIN w : w[k] \in Value
<1>1. PICK S \in SUBSET Keys : w \in [S -> Value]
  BY DEF Writes, Value
<1> QED BY <1>1, RowAssumption, FS_Subset

LEMMA WritesIn ==
  ASSUME NEW S, S \subseteq Keys, NEW w \in [S -> Value]
  PROVE  w \in Writes
BY DEF Writes, Value

LEMMA NoWritesType == NoWrites \in Writes /\ DOMAIN NoWrites = {} /\ Cardinality(DOMAIN NoWrites) = 0
<1>1. NoWrites \in [{} -> Value] /\ DOMAIN NoWrites = {}
  BY DEF NoWrites
<1> QED BY <1>1, WritesIn, FS_EmptySet

LEMMA OverType ==
  ASSUME NEW a \in Writes, NEW b \in Writes
  PROVE  /\ Over(a, b) \in Writes /\ DOMAIN Over(a, b) = DOMAIN a \cup DOMAIN b
         /\ \A k \in DOMAIN a \cup DOMAIN b : Over(a, b)[k] = IF k \in DOMAIN b THEN b[k] ELSE a[k]
<1>. DEFINE S == DOMAIN a \cup DOMAIN b
<1>1. S \subseteq Keys /\ \A k \in S : (IF k \in DOMAIN b THEN b[k] ELSE a[k]) \in Value
  BY WritesOut
<1>2. Over(a, b) = [k \in S |-> IF k \in DOMAIN b THEN b[k] ELSE a[k]]
  BY DEF Over
<1>. HIDE DEF S
<1>3. Over(a, b) \in [S -> Value]
  BY <1>1, <1>2
<1>4. Over(a, b) \in Writes
  BY <1>1, <1>3, WritesIn
<1> QED BY <1>2, <1>4 DEF S

\* The rows that writes are about.
LEMMA ChangedRows ==
  ASSUME NEW r, NEW w
  PROVE  /\ Changed(r, w) \subseteq DOMAIN w /\ (DOMAIN w = {} => Cardinality(Changed(r, w)) = 0)
         /\ (\A k \in DOMAIN w : w[k] # Absent) \/ r.op \in {"delete", "delete_by_pk"} => Changed(r, w) = DOMAIN w
         /\ \A v : DOMAIN v = DOMAIN w /\ (\A k \in DOMAIN w : v[k] = w[k]) => Changed(r, v) = Changed(r, w)
<1>1. Changed(r, w) \subseteq DOMAIN w
  BY DEF Changed
<1>2. (\A k \in DOMAIN w : w[k] # Absent) \/ r.op \in {"delete", "delete_by_pk"} => Changed(r, w) = DOMAIN w
  BY DEF Changed
<1>3. \A v : DOMAIN v = DOMAIN w /\ (\A k \in DOMAIN w : v[k] = w[k]) => Changed(r, v) = Changed(r, w)
  BY DEF Changed
<1>4. DOMAIN w = {} => Cardinality(Changed(r, w)) = 0
  BY <1>1, FS_EmptySet
<1> QED BY <1>1, <1>2, <1>3, <1>4

-----------------------------------------------------------------------------
(* The invariant.                                                          *)

Open == {"write", "after", "commit"}
Inserting == {"insert", "insert_one"}

\* How far the statements of a mutation have come.
Statements(j) ==
  /\ j.pc \in {"fetch", "before"} => j.n = 0 /\ j.left = j.req.objects
  /\ j.pc \in {"fetch", "before", "write"} /\ j.req.op \notin Inserting => j.tx = NoWrites /\ j.left = <<>>
  /\ j.pc \in Open => j.n = Cardinality(Changed(j.req, j.tx))
  /\ j.pc \in Open /\ j.req.op \in Inserting => \A k \in DOMAIN j.tx : j.tx[k] # Absent
  /\ j.pc \in Open /\ j.req.op = "insert_one" =>
       \/ j.pc = "write" /\ j.tx = NoWrites /\ Len(j.left) = 1
       \/ j.left = <<>> /\ DOMAIN j.tx = {j.key}
  /\ j.pc \in Open /\ j.req.op = "update_by_pk" =>
       DOMAIN j.tx \subseteq j.req.keys \cup {j.req.to} /\ (j.n = 0 => DOMAIN j.tx = {})
  /\ j.pc \in Open /\ j.req.op = "delete_by_pk" => DOMAIN j.tx \subseteq j.req.keys
  /\ j.pc = "commit" => j.audited

\* What a mutation has written, once it is committed.
Outcome(c, j) ==
  /\ j.refused => j.wrote = NoWrites
  /\ j.pc \in {"fetch", "before", "write", "after", "commit"} => j.wrote = NoWrites /\ ~j.refused
  /\ j.pc = "reread" => \/ j.req.op = "insert_one" /\ ~KeyUnknown(j.req) /\ DOMAIN j.wrote = {j.key}
                        \/ j.req.op = "update_by_pk" /\ DOMAIN j.wrote \subseteq j.req.keys \cup {j.req.to}
  /\ j.pc = "answered" /\ j.answer.kind = "count" => Cardinality(Changed(j.req, j.wrote)) = j.answer.n
  /\ j.seen \in Sees[c] \cup {Absent}
  /\ j.pc = "answered" /\ j.req.op = "delete_by_pk" /\ j.answer.kind = "row" =>
       DOMAIN j.wrote = j.req.keys /\ j.answer.row \in Sees[c]

Local(c, j) ==
  /\ j \in JobType
  /\ j.pc # "idle" => j.req \in Requests
  /\ j.pc \notin Open => j.tx = NoWrites
  /\ Statements(j) /\ Outcome(c, j)

\* What a transaction is going to do to the table t.
TxSound(c, j, t) == Contract!Permits(c, t, j.tx)

\* What a mutation did, when the rows have changed ch times since.
WroteSound(c, j, t, ch) ==
  \A k \in DOMAIN j.wrote :
    /\ j.at[k] <= ch[k] /\ (ch[k] = j.at[k] => t[k] = j.wrote[k])
    /\ /\ j.pc = "answered" /\ j.req.op \in {"insert_one", "update_by_pk"} /\ j.answer.kind \in {"row", "null"}
       /\ k # j.req.to /\ j.wrote[k] # Absent /\ ch[k] = j.at[k]
       => j.answer.row = IF j.wrote[k] \in Sees[c] /\ ~KeyUnknown(j.req) THEN j.wrote[k] ELSE Absent

\* Who may do some writes depends on the rows they are about, and on no other.
LEMMA PermitsSame ==
  ASSUME NEW c, NEW t, NEW u, NEW w, NEW v, Contract!Permits(c, t, w),
         DOMAIN v = DOMAIN w, \A k \in DOMAIN w : u[k] = t[k] /\ v[k] = w[k]
  PROVE  Contract!Permits(c, u, v)
BY DEF Contract!Permits, Contract!Leaves, Contract!TurnsUp

LEMMA PermitsNothing == ASSUME NEW c, NEW t PROVE Contract!Permits(c, t, NoWrites)
BY NoWritesType DEF Contract!Permits

\* A row of one's own may be added under a key that is free.
LEMMA PermitsInsert ==
  ASSUME NEW c, NEW t, NEW w, NEW v, NEW k, Contract!Permits(c, t, w),
         DOMAIN v = DOMAIN w \cup {k}, \A x \in DOMAIN w : v[x] = w[x],
         t[k] = Absent, v[k] # Absent, Owns(c, v[k])
  PROVE  Contract!Permits(c, t, v)
BY DEF Contract!Permits, Contract!Leaves, Contract!TurnsUp

Disjoint == \A c, d \in Clients : c # d => DOMAIN job[c].tx \cap DOMAIN job[d].tx = {}

IsJobs(f) == f = [c \in Clients |-> f[c]]

Inv ==
  /\ db \in [Keys -> Value] /\ changes \in [Keys -> Nat] /\ audit = changes
  /\ IsJobs(job) /\ Disjoint
  /\ \A c \in Clients : Local(c, job[c]) /\ TxSound(c, job[c], db) /\ WroteSound(c, job[c], db, changes)

LEMMA StepFields ==
  ASSUME IsJobs(job), NEW c \in Clients, NEW j, Step(c, j)
  PROVE  IsJobs(job') /\ job'[c] = j /\ \A d \in Clients \ {c} : job'[d] = job[d]
BY DEF Step, IsJobs

\* A step of one client that commits nothing.
LEMMA ReadingStep ==
  ASSUME Inv, NEW c \in Clients, NEW j, Step(c, j), Reading,
         Local(c, j), TxSound(c, j, db), WroteSound(c, j, db, changes),
         \A d \in Clients \ {c} : DOMAIN j.tx \cap DOMAIN job[d].tx = {}
  PROVE  Inv'
<1>1. IsJobs(job') /\ job'[c] = j /\ \A d \in Clients \ {c} : job'[d] = job[d]
  BY StepFields DEF Inv
<1>2. db' = db /\ changes' = changes /\ audit' = audit
  BY DEF Reading
<1>3. Disjoint'
  BY <1>1 DEF Inv, Disjoint
<1>4. ASSUME NEW d \in Clients
      PROVE  Local(d, job[d])' /\ TxSound(d, job[d], db)' /\ WroteSound(d, job[d], db, changes)'
  <2>1. /\ Local(d, job[d])' <=> Local(d, job'[d])
        /\ TxSound(d, job[d], db)' <=> TxSound(d, job'[d], db')
        /\ WroteSound(d, job[d], db, changes)' <=> WroteSound(d, job'[d], db', changes')
    BY DEF Local, Statements, Outcome, TxSound, WroteSound
  <2> QED BY <1>1, <1>2, <2>1 DEF Inv
<1> QED BY <1>1, <1>2, <1>3, <1>4 DEF Inv

\* What a client cannot have written for itself stays as it was.
LEMMA StayStep ==
  ASSUME Inv, NEW c \in Clients, NEW j, Step(c, j), Reading, Local(c, j),
         j.tx \in {NoWrites, job[c].tx}, j.req = job[c].req, j.wrote = job[c].wrote,
         j.at = job[c].at,
         j.pc = "answered" => j.answer.kind = "error" \/ j.wrote = NoWrites
  PROVE  Inv'
<1>1. TxSound(c, j, db)
  BY PermitsNothing DEF Inv, TxSound
<1>2. WroteSound(c, j, db, changes)
  BY NoWritesType DEF Inv, WroteSound
<1>3. \A d \in Clients \ {c} : DOMAIN j.tx \cap DOMAIN job[d].tx = {}
  BY NoWritesType DEF Inv, Disjoint
<1> QED BY <1>1, <1>2, <1>3, ReadingStep

-----------------------------------------------------------------------------
(* The records that the steps of a mutation make.                          *)

LEMMA IdleLocal == ASSUME NEW c \in Clients PROVE Local(c, Idle)
<1>1. Idle.pc = "idle" /\ Idle.tx = NoWrites /\ Idle.wrote = NoWrites
      /\ ~Idle.refused /\ Idle.seen = Absent /\ Idle.answer = NoAnswer
  BY DEF Idle
<1>2. NoAnswer \in AnswerType
  BY DEF NoAnswer, AnswerType
<1>3. Idle \in JobType
  BY <1>2, NoWritesType DEF Idle, JobType
<1> QED BY <1>1, <1>3 DEF Local, Statements, Outcome, Open

LEMMA InitInv == Init => Inv
<1>. SUFFICES ASSUME Init PROVE Inv
  OBVIOUS
<1>1. \A c \in Clients : job[c] = Idle
  BY DEF Init
<1>2. Idle.tx = NoWrites /\ Idle.wrote = NoWrites
  BY DEF Idle
<1>3. \A c \in Clients : TxSound(c, Idle, db) /\ WroteSound(c, Idle, db, changes)
  BY <1>2, NoWritesType, PermitsNothing DEF TxSound, WroteSound
<1>4. Disjoint
  BY <1>1, <1>2, NoWritesType DEF Disjoint
<1>. HIDE DEF Idle
<1>5. db \in [Keys -> Value] /\ changes \in [Keys -> Nat] /\ audit = changes /\ IsJobs(job)
  BY DEF Init, Value, IsJobs
<1> QED BY <1>1, <1>3, <1>4, <1>5, IdleLocal DEF Inv

\* The record of a mutation that is answered with an error.
LEMMA AbortedLocal ==
  ASSUME NEW c \in Clients, NEW j, Local(c, j), j.pc \in {"fetch", "before", "write", "after", "commit", "reread"}
  PROVE  /\ Local(c, Aborted(j)) /\ Aborted(j).pc = "answered" /\ Aborted(j).answer.kind = "error"
         /\ Aborted(j).tx = NoWrites /\ Aborted(j).req = j.req /\ Aborted(j).wrote = j.wrote
         /\ Aborted(j).at = j.at /\ Aborted(j).refused = j.refused
<1>. DEFINE e == [kind |-> "error", row |-> Absent, n |-> 0]
            a == [j EXCEPT !.pc = "answered", !.tx = NoWrites, !.answer = e]
<1>1. Aborted(j) = a
  BY DEF Aborted, Answered
<1>2. e \in AnswerType /\ e.kind = "error" /\ j \in JobType
  BY DEF AnswerType, Local
<1>. HIDE DEF e
<1>3. /\ a \in JobType /\ a.pc = "answered" /\ a.answer = e /\ a.tx = NoWrites /\ a.req = j.req
      /\ a.wrote = j.wrote /\ a.at = j.at /\ a.refused = j.refused /\ a.seen = j.seen
  BY <1>2, NoWritesType DEF JobType
<1>. HIDE DEF a
<1>4. Local(c, a)
  BY <1>2, <1>3 DEF Local, Statements, Outcome, Open
<1> QED BY <1>1, <1>2, <1>3, <1>4

LEMMA AbortStep ==
  ASSUME Inv, NEW c \in Clients, Step(c, Aborted(job[c])), Reading,
         job[c].pc \in {"fetch", "before", "write", "after", "commit", "reread"}
  PROVE  Inv'
<1>1. PICK j : j = Aborted(job[c])
  OBVIOUS
<1>2. Local(c, job[c])
  BY DEF Inv
<1>3. /\ Local(c, j) /\ j.answer.kind = "error" /\ j.tx = NoWrites /\ j.req = job[c].req
      /\ j.wrote = job[c].wrote /\ j.at = job[c].at
  BY <1>1, <1>2, AbortedLocal
<1> QED BY <1>1, <1>3, StayStep

\* A hook refuses.
LEMMA RefuseStep ==
  ASSUME Inv, NEW c \in Clients, Step(c, [Aborted(job[c]) EXCEPT !.refused = TRUE]), Reading,
         job[c].pc \in {"before", "after"}
  PROVE  Inv'
<1>1. PICK a : a = Aborted(job[c])
  OBVIOUS
<1>2. Local(c, job[c])
  BY DEF Inv
<1>3. /\ Local(c, a) /\ a.pc = "answered" /\ a.answer.kind = "error" /\ a.tx = NoWrites /\ a.req = job[c].req
      /\ a.wrote = job[c].wrote /\ a.at = job[c].at
  BY <1>1, <1>2, AbortedLocal
<1>4. PICK j : j = [a EXCEPT !.refused = TRUE]
  OBVIOUS
<1>5. a \in JobType
  BY <1>3 DEF Local
<1>6. /\ j \in JobType /\ j.pc = a.pc /\ j.answer = a.answer /\ j.tx = a.tx /\ j.req = a.req /\ j.seen = a.seen
      /\ j.wrote = a.wrote /\ j.at = a.at
  BY <1>4, <1>5 DEF JobType
<1>7. a.wrote = NoWrites
  BY <1>2, <1>3 DEF Local, Outcome
<1>8. Local(c, j)
  BY <1>3, <1>6, <1>7 DEF Local, Statements, Outcome, Open
<1> QED BY <1>1, <1>3, <1>4, <1>6, <1>8, StayStep

LEMMA FailStep == ASSUME Inv, NEW c \in Clients, Fail(c) PROVE Inv'
BY AbortStep DEF Fail

LEMMA StartStep == ASSUME Inv, NEW c \in Clients, NEW r \in Requests, Start(c, r) PROVE Inv'
<1>. DEFINE first == IF r.op = "delete_by_pk" THEN "fetch" ELSE "before"
            sent == job[c].sent + 1
<1>1. PICK j : j = [Idle EXCEPT !.pc = first, !.req = r, !.left = r.objects, !.sent = sent]
  OBVIOUS
<1>2. Idle \in JobType /\ Local(c, Idle)
  BY IdleLocal DEF Local
<1>3. Idle.tx = NoWrites /\ Idle.wrote = NoWrites /\ Idle.n = 0 /\ ~Idle.refused /\ Idle.seen = Absent
  BY DEF Idle
<1>4. r \in Request /\ r.objects \in Seq(Object)
  BY RequestAssumption DEF Request
<1>5. sent \in Nat
  BY DEF Inv, Local, JobType
<1>. HIDE DEF sent, Idle
<1>6. /\ j \in JobType /\ j.pc = first /\ j.req = r /\ j.left = r.objects /\ j.tx = Idle.tx /\ j.wrote = Idle.wrote
      /\ j.n = Idle.n /\ j.refused = Idle.refused /\ j.seen = Idle.seen
  BY <1>1, <1>2, <1>4, <1>5 DEF JobType
<1>7. Local(c, j)
  <2>1. Statements(j)
    BY <1>3, <1>6, RequestAssumption DEF Statements, Open, Inserting
  <2>2. Outcome(c, j)
    BY <1>3, <1>6 DEF Outcome
  <2> QED BY <1>3, <1>6, <2>1, <2>2 DEF Local
<1>8. TxSound(c, j, db) /\ WroteSound(c, j, db, changes) /\ \A d \in Clients \ {c} : DOMAIN j.tx \cap DOMAIN job[d].tx = {}
  BY <1>3, <1>6, NoWritesType, PermitsNothing DEF TxSound, WroteSound
<1>9. Step(c, j) /\ Reading
  BY <1>1 DEF Start, first, sent
<1> QED BY <1>7, <1>8, <1>9, ReadingStep

LEMMA VisibleType ==
  ASSUME Inv, NEW c \in Clients, NEW k \in Keys, NEW filter
  PROVE  Visible(c, k, filter) \in Sees[c] \cup {Absent} /\ Visible(c, k, filter) \in Value
BY DEF Visible, Inv, Value

LEMMA FetchStep == ASSUME Inv, NEW c \in Clients, Fetch(c) PROVE Inv'
<1>1. PICK k \in job[c].req.keys : Step(c, [job[c] EXCEPT !.pc = "before", !.seen = Visible(c, k, MayDelete[c])])
  BY DEF Fetch
<1>2. PICK row : row = Visible(c, k, MayDelete[c])
  OBVIOUS
<1>3. job[c].pc = "fetch" /\ Reading /\ Local(c, job[c]) /\ job[c] \in JobType /\ job[c].req \in Requests
  BY DEF Fetch, Inv, Local
<1>4. k \in Keys
  BY <1>3, RequestAssumption DEF Request
<1>5. row \in Sees[c] \cup {Absent} /\ row \in Value
  BY <1>2, <1>4, VisibleType
<1>6. PICK j : j = [job[c] EXCEPT !.pc = "before", !.seen = row]
  OBVIOUS
<1>7. /\ j \in JobType /\ j.pc = "before" /\ j.seen = row /\ j.req = job[c].req /\ j.left = job[c].left /\ j.tx = job[c].tx
      /\ j.n = job[c].n /\ j.refused = job[c].refused /\ j.wrote = job[c].wrote /\ j.at = job[c].at
  BY <1>3, <1>5, <1>6 DEF JobType, Value
<1>8. Local(c, j)
  BY <1>3, <1>5, <1>7 DEF Local, Statements, Outcome, Open
<1> QED BY <1>1, <1>2, <1>3, <1>6, <1>7, <1>8, StayStep

LEMMA BeforeStep == ASSUME Inv, NEW c \in Clients, Before(c) PROVE Inv'
<1>1. job[c].pc = "before" /\ Reading /\ Local(c, job[c]) /\ job[c] \in JobType /\ job[c].req \in Requests
  BY DEF Before, Inv, Local
<1>2. CASE Step(c, [job[c] EXCEPT !.pc = "write"])
  <2>1. PICK j : j = [job[c] EXCEPT !.pc = "write"]
    OBVIOUS
  <2>2. /\ j \in JobType /\ j.pc = "write" /\ j.seen = job[c].seen /\ j.req = job[c].req /\ j.left = job[c].left
        /\ j.tx = job[c].tx /\ j.n = job[c].n /\ j.refused = job[c].refused /\ j.wrote = job[c].wrote
        /\ j.at = job[c].at
    BY <1>1, <2>1 DEF JobType
  <2>3. j.tx = NoWrites /\ j.n = 0 /\ (j.req.op = "insert_one" => Len(j.left) = 1)
    BY <1>1, <2>2, RequestAssumption DEF Local, Statements, Open
  <2>4. Statements(j)
    BY <1>1, <2>2, <2>3, NoWritesType, ChangedRows DEF Local, Statements, Open, Inserting
  <2>5. Local(c, j)
    BY <1>1, <2>2, <2>4 DEF Local, Outcome, Open
  <2> QED BY <1>1, <1>2, <2>1, <2>2, <2>5, StayStep
<1>3. CASE Step(c, Aborted(job[c]))
  BY <1>1, <1>3, AbortStep
<1> QED BY <1>1, <1>2, <1>3, RefuseStep DEF Before

\* A hook writes its audit rows, or refuses.
LEMMA AfterStep == ASSUME Inv, NEW c \in Clients, After(c) PROVE Inv'
<1>1. job[c].pc = "after" /\ Reading /\ Local(c, job[c]) /\ job[c] \in JobType
  BY DEF After, Inv, Local
<1>2. CASE Step(c, [job[c] EXCEPT !.pc = "commit", !.audited = TRUE])
  <2>1. PICK j : j = [job[c] EXCEPT !.pc = "commit", !.audited = TRUE]
    OBVIOUS
  <2>2. /\ j \in JobType /\ j.pc = "commit" /\ j.audited /\ j.seen = job[c].seen /\ j.req = job[c].req
        /\ j.left = job[c].left /\ j.tx = job[c].tx /\ j.n = job[c].n /\ j.key = job[c].key
        /\ j.refused = job[c].refused /\ j.wrote = job[c].wrote /\ j.at = job[c].at
    BY <1>1, <2>1 DEF JobType
  <2>3. Statements(j)
    BY <1>1, <2>2 DEF Local, Statements, Open
  <2>4. Local(c, j)
    BY <1>1, <2>2, <2>3 DEF Local, Outcome, Open
  <2> QED BY <1>1, <1>2, <2>1, <2>2, <2>4, StayStep
<1> QED BY <1>1, <1>2, RefuseStep DEF After

LEMMA InsertsDoneStep == ASSUME Inv, NEW c \in Clients, InsertsDone(c) PROVE Inv'
<1>1. /\ job[c].pc = "write" /\ job[c].left = <<>> /\ job[c].req.op \in Inserting /\ Reading
      /\ Local(c, job[c]) /\ job[c] \in JobType
  BY DEF InsertsDone, Inv, Local, Inserting
<1>2. PICK j : j = [job[c] EXCEPT !.pc = "after"]
  OBVIOUS
<1>3. /\ j \in JobType /\ j.pc = "after" /\ j.seen = job[c].seen /\ j.req = job[c].req
      /\ j.left = job[c].left /\ j.tx = job[c].tx /\ j.n = job[c].n /\ j.key = job[c].key
      /\ j.refused = job[c].refused /\ j.wrote = job[c].wrote /\ j.at = job[c].at
  BY <1>1, <1>2 DEF JobType
<1>4. Statements(j)
  BY <1>1, <1>3 DEF Local, Statements, Open, Inserting
<1>5. Local(c, j)
  BY <1>1, <1>3, <1>4 DEF Local, Outcome, Open
<1>6. Step(c, j)
  BY <1>2 DEF InsertsDone
<1> QED BY <1>1, <1>3, <1>5, <1>6, StayStep

LEMMA ViewType ==
  ASSUME Inv, NEW c \in Clients, NEW k \in Keys
  PROVE  View(c)[k] \in Value /\ View(c)[k] = IF k \in DOMAIN job[c].tx THEN job[c].tx[k] ELSE db[k]
<1>1. job[c].tx \in Writes
  BY DEF Inv, Local, JobType
<1> QED BY <1>1, WritesOut DEF View, Inv

\* A row of the object, under a key that is free and not locked.
LEMMA InsertStep == ASSUME Inv, NEW c \in Clients, InsertRow(c) PROVE Inv'
<1>. DEFINE o == Head(job[c].left)
<1>1. /\ job[c].pc = "write" /\ job[c].left # <<>> /\ Reading /\ Local(c, job[c]) /\ job[c] \in JobType
      /\ job[c].req \in Requests /\ job[c].req.op \in Inserting
  BY DEF InsertRow, Inv, Local, Statements
<1>2. /\ o \in Object /\ Tail(job[c].left) \in Seq(Object)
      /\ Len(job[c].left) = 1 => Tail(job[c].left) = <<>>
  <2>1. PICK left \in Seq(Object) : left = job[c].left
    BY <1>1 DEF JobType
  <2>2. Head(left) \in Object /\ Tail(left) \in Seq(Object) /\ Len(Tail(left)) = Len(left) - 1
    BY <1>1, <2>1
  <2>3. \A s \in Seq(Object) : Len(s) = 0 => s = <<>>
    BY EmptySeq
  <2>4. ASSUME Len(left) = 1 PROVE Tail(left) = <<>>
    <3>1. PICK rest \in Seq(Object) : rest = Tail(left)
      BY <2>2
    <3>2. Len(rest) = 0
      BY <2>2, <2>4, <3>1
    <3> QED BY <2>3, <3>1, <3>2, Zenon
  <2> QED BY <2>1, <2>2, <2>4
<1>3. PICK k \in InsertKeys(c, o) :
        /\ ~Locked(c, k)
        /\ Step(c, IF View(c)[k] = Absent THEN Inserted(c, o, k) ELSE Aborted(job[c]))
  BY DEF InsertRow
<1>4. k \in Keys
  BY <1>2, <1>3 DEF InsertKeys, Object
<1>5. CASE View(c)[k] # Absent
  BY <1>1, <1>3, <1>5, AbortStep
<1>6. CASE View(c)[k] = Absent
  <2>1. PICK w : w = [x \in {k} |-> Merged(c, o)]
    OBVIOUS
  <2>2. Merged(c, o) \in Row /\ Merged(c, o) # Absent /\ Merged(c, o).owner = Claim[c]
    BY <1>2, RowAssumption DEF Merged, Object, Row
  <2>3. w \in [{k} -> Value] /\ w \in Writes /\ DOMAIN w = {k} /\ w[k] = Merged(c, o)
    BY <1>4, <2>1, <2>2, WritesIn DEF Value
  <2>4. PICK tx : tx = Over(job[c].tx, w)
    OBVIOUS
  <2>5. job[c].tx \in Writes
    BY <1>1 DEF JobType
  <2>6. /\ tx \in Writes /\ DOMAIN tx = DOMAIN job[c].tx \cup {k}
        /\ \A x \in DOMAIN tx : tx[x] = IF x = k THEN Merged(c, o) ELSE job[c].tx[x]
    <3>1. /\ Over(job[c].tx, w) \in Writes /\ DOMAIN Over(job[c].tx, w) = DOMAIN job[c].tx \cup DOMAIN w
          /\ \A x \in DOMAIN job[c].tx \cup DOMAIN w :
               Over(job[c].tx, w)[x] = IF x \in DOMAIN w THEN w[x] ELSE job[c].tx[x]
      BY <2>3, <2>5, OverType
    <3> QED BY <2>3, <2>4, <3>1
  <2>7. k \notin DOMAIN job[c].tx /\ db[k] = Absent
    BY <1>1, <1>4, <1>6, ViewType DEF Local, Statements, Open
  <2>8. Cardinality(DOMAIN tx) = Cardinality(DOMAIN job[c].tx) + 1
    BY <2>5, <2>6, <2>7, WritesOut, FS_AddElement
  <2>9. PICK j : j = Inserted(c, o, k)
    OBVIOUS
  <2>10. j = [job[c] EXCEPT !.left = Tail(job[c].left), !.tx = tx, !.n = job[c].n + 1, !.key = k]
    BY <2>1, <2>4, <2>9 DEF Inserted
  <2>11. /\ j \in JobType /\ j.pc = "write" /\ j.seen = job[c].seen /\ j.req = job[c].req
         /\ j.left = Tail(job[c].left) /\ j.tx = tx /\ j.n = job[c].n + 1 /\ j.key = k
         /\ j.refused = job[c].refused /\ j.wrote = job[c].wrote /\ j.at = job[c].at
    <3>1. PICK left \in Seq(Object) : left = Tail(job[c].left)
      BY <1>2
    <3>2. PICK n \in Nat : n = job[c].n + 1
      BY <1>1 DEF JobType
    <3>3. j = [job[c] EXCEPT !.left = left, !.tx = tx, !.n = n, !.key = k]
      BY <2>10, <3>1, <3>2
    <3>4. /\ j \in JobType /\ j.pc = job[c].pc /\ j.seen = job[c].seen /\ j.req = job[c].req
          /\ j.left = left /\ j.tx = tx /\ j.n = n /\ j.key = k
          /\ j.refused = job[c].refused /\ j.wrote = job[c].wrote /\ j.at = job[c].at
      BY <1>1, <1>4, <2>6, <3>3 DEF JobType
    <3> QED BY <1>1, <3>1, <3>2, <3>4
  <2>12. j.n = Cardinality(Changed(j.req, j.tx)) /\ \A x \in DOMAIN j.tx : j.tx[x] # Absent
    <3>1. /\ job[c].n = Cardinality(Changed(job[c].req, job[c].tx))
          /\ \A x \in DOMAIN job[c].tx : job[c].tx[x] # Absent
      BY <1>1 DEF Local, Statements, Open, Inserting
    <3>2. \A x \in DOMAIN tx : tx[x] # Absent
      BY <2>2, <2>6, <3>1
    <3>3. Changed(job[c].req, job[c].tx) = DOMAIN job[c].tx /\ Changed(job[c].req, tx) = DOMAIN tx
      BY <3>1, <3>2, ChangedRows
    <3> QED BY <2>8, <2>11, <3>1, <3>2, <3>3
  <2>13. j.req.op = "insert_one" => j.left = <<>> /\ DOMAIN j.tx = {j.key}
    <3>1. ASSUME j.req.op = "insert_one" PROVE job[c].tx = NoWrites /\ Len(job[c].left) = 1
      BY <1>1, <2>11, <3>1 DEF Local, Statements, Open
    <3> QED BY <1>2, <2>6, <2>11, <3>1, NoWritesType
  <2>14. Statements(j)
    BY <1>1, <2>11, <2>12, <2>13 DEF Statements, Open, Inserting
  <2>15. Local(c, j)
    BY <1>1, <2>11, <2>14 DEF Local, Outcome, Open
  <2>16. TxSound(c, j, db)
    <3>1. TxSound(c, job[c], db)
      BY DEF Inv
    <3>2. Contract!Permits(c, db, tx)
      BY <2>2, <2>6, <2>7, <3>1, PermitsInsert DEF TxSound, Owns
    <3> QED BY <2>11, <3>2 DEF TxSound
  <2>17. WroteSound(c, j, db, changes)
    <3>1. j.wrote = NoWrites
      BY <1>1, <2>11 DEF Local, Outcome
    <3> QED BY <3>1, NoWritesType DEF WroteSound
  <2>18. \A d \in Clients \ {c} : DOMAIN j.tx \cap DOMAIN job[d].tx = {}
    BY <1>3, <2>6, <2>11 DEF Locked, Inv, Disjoint
  <2> QED BY <1>1, <1>3, <1>6, <2>9, <2>15, <2>16, <2>17, <2>18, ReadingStep
<1> QED BY <1>5, <1>6

TargetsSound(c, hit, filter) ==
  /\ job[c].tx = NoWrites /\ job[c].left = <<>> /\ job[c].wrote = NoWrites
  /\ hit \subseteq job[c].req.keys /\ hit \subseteq Keys /\ IsFiniteSet(hit) /\ Cardinality(hit) \in Nat
  /\ \A k \in hit : View(c)[k] = db[k] /\ db[k] \in Row /\ db[k] \in filter
  /\ \A k \in Keys : View(c)[k] = db[k]

\* What UPDATE and DELETE look at: before them the transaction wrote nothing.
LEMMA TargetsType ==
  ASSUME Inv, NEW c \in Clients, job[c].pc = "write", job[c].req.op \notin Inserting, NEW filter,
         NEW hit, hit = Targets(job[c].req, View(c), filter)
  PROVE  TargetsSound(c, hit, filter)
<1>1. Local(c, job[c]) /\ job[c].req \in Request
  BY RequestAssumption DEF Inv, Local
<1>2. job[c].tx = NoWrites /\ job[c].left = <<>> /\ job[c].wrote = NoWrites
  BY <1>1 DEF Local, Statements, Outcome
<1>3. hit \subseteq job[c].req.keys /\ job[c].req.keys \subseteq Keys
  BY <1>1 DEF Targets, Request
<1>4. \A k \in Keys : View(c)[k] = db[k] /\ db[k] \in Value
  BY <1>2, ViewType, NoWritesType DEF Inv
<1>5. \A k \in hit : View(c)[k] # Absent /\ View(c)[k] \in filter
  BY DEF Targets
<1>6. IsFiniteSet(hit) /\ Cardinality(hit) \in Nat
  BY <1>3, RowAssumption, FS_Subset, FS_CardinalityType
<1> QED BY <1>2, <1>3, <1>4, <1>5, <1>6 DEF Value, TargetsSound

\* The record after UPDATE or DELETE.
LEMMA WrittenStep ==
  ASSUME Inv, NEW c \in Clients, job[c].pc = "write", job[c].req.op \notin Inserting, Reading,
         NEW tx \in Writes, NEW n \in Nat,
         Step(c, [job[c] EXCEPT !.pc = "after", !.n = n, !.tx = Over(@, tx)]),
         n = Cardinality(Changed(job[c].req, tx)),
         job[c].req.op = "update_by_pk" =>
           DOMAIN tx \subseteq job[c].req.keys \cup {job[c].req.to} /\ (n = 0 => DOMAIN tx = {}),
         job[c].req.op = "delete_by_pk" => DOMAIN tx \subseteq job[c].req.keys,
         \A k \in DOMAIN tx : ~Locked(c, k), Contract!Permits(c, db, tx)
  PROVE  Inv'
<1>1. Local(c, job[c]) /\ job[c] \in JobType /\ job[c].tx = NoWrites /\ job[c].left = <<>> /\ job[c].wrote = NoWrites
  BY DEF Inv, Local, Statements, Outcome
<1>2. PICK w : w = Over(job[c].tx, tx)
  OBVIOUS
<1>3. w \in Writes /\ DOMAIN w = DOMAIN tx /\ \A k \in DOMAIN tx : w[k] = tx[k]
  <2>1. /\ Over(NoWrites, tx) \in Writes /\ DOMAIN Over(NoWrites, tx) = DOMAIN NoWrites \cup DOMAIN tx
        /\ \A k \in DOMAIN NoWrites \cup DOMAIN tx :
             Over(NoWrites, tx)[k] = IF k \in DOMAIN tx THEN tx[k] ELSE NoWrites[k]
    BY NoWritesType, OverType
  <2> QED BY <1>1, <1>2, <2>1, NoWritesType
<1>4. PICK j : j = [job[c] EXCEPT !.pc = "after", !.n = n, !.tx = w]
  OBVIOUS
<1>5. Step(c, j)
  BY <1>2, <1>4
<1>6. /\ j \in JobType /\ j.pc = "after" /\ j.seen = job[c].seen /\ j.req = job[c].req
      /\ j.left = job[c].left /\ j.tx = w /\ j.n = n
      /\ j.refused = job[c].refused /\ j.wrote = job[c].wrote
  BY <1>1, <1>3, <1>4 DEF JobType
<1>7. Statements(j)
  <2>1. Changed(job[c].req, w) = Changed(job[c].req, tx)
    BY <1>3, ChangedRows
  <2> QED BY <1>1, <1>3, <1>6, <2>1 DEF Statements, Open, Inserting
<1>8. Local(c, j)
  BY <1>1, <1>6, <1>7 DEF Local, Outcome, Open
<1>9. TxSound(c, j, db)
  BY <1>3, <1>6, PermitsSame DEF TxSound
<1>10. WroteSound(c, j, db, changes)
  BY <1>1, <1>6, NoWritesType DEF WroteSound
<1>11. \A d \in Clients \ {c} : DOMAIN j.tx \cap DOMAIN job[d].tx = {}
  BY <1>3, <1>6 DEF Locked
<1> QED BY <1>5, <1>8, <1>9, <1>10, <1>11, ReadingStep

LEMMA DeleteStep == ASSUME Inv, NEW c \in Clients, DeleteRows(c) PROVE Inv'
<1>1. /\ job[c].pc = "write" /\ job[c].req.op \in {"delete", "delete_by_pk"} /\ job[c].req.op \notin Inserting
      /\ Reading
  BY DEF DeleteRows, Inserting
<1>2. PICK hit : hit = Targets(job[c].req, View(c), MayDelete[c])
  OBVIOUS
<1>3. /\ hit \subseteq job[c].req.keys /\ hit \subseteq Keys /\ Cardinality(hit) \in Nat
      /\ \A k \in hit : db[k] \in MayDelete[c]
  <2>1. TargetsSound(c, hit, MayDelete[c])
    BY <1>1, <1>2, TargetsType
  <2> QED BY <2>1 DEF TargetsSound
<1>4. PICK tx : tx = [k \in hit |-> Absent]
  OBVIOUS
<1>5. tx \in Writes /\ DOMAIN tx = hit /\ \A k \in hit : tx[k] = Absent
  <2>1. tx \in [hit -> Value]
    BY <1>4 DEF Value
  <2> QED BY <1>3, <1>4, <2>1, WritesIn
<1>6. /\ \A k \in hit : ~Locked(c, k)
      /\ Step(c, [job[c] EXCEPT !.pc = "after", !.n = Cardinality(hit), !.tx = Over(@, tx)])
  BY <1>2, <1>4 DEF DeleteRows
<1>7. (\A k \in DOMAIN tx : ~Locked(c, k)) /\ Contract!Permits(c, db, tx)
  BY <1>3, <1>5, <1>6, RowAssumption DEF Contract!Permits, Contract!Leaves
<1>8. Cardinality(hit) = Cardinality(Changed(job[c].req, tx))
  BY <1>1, <1>5, ChangedRows
<1> QED BY <1>1, <1>3, <1>5, <1>6, <1>7, <1>8, WrittenStep

LEMMA UpdateStep == ASSUME Inv, NEW c \in Clients, UpdateRows(c) PROVE Inv'
<1>. DEFINE r == job[c].req
<1>1. /\ job[c].pc = "write" /\ r.op \in {"update", "update_by_pk"} /\ r.op \notin Inserting /\ Reading
      /\ Local(c, job[c]) /\ r \in Requests /\ r \in Request
  BY RequestAssumption DEF UpdateRows, Inserting, Inv, Local
<1>2. PICK hit : hit = Targets(r, View(c), MayUpdate[c])
  OBVIOUS
<1>3. /\ hit \subseteq r.keys /\ hit \subseteq Keys /\ Cardinality(hit) \in Nat /\ IsFiniteSet(hit)
      /\ \A k \in hit : View(c)[k] = db[k] /\ db[k] \in Row /\ db[k] \in MayUpdate[c]
      /\ \A k \in Keys : View(c)[k] = db[k]
  <2>1. TargetsSound(c, hit, MayUpdate[c])
    BY <1>1, <1>2, TargetsType
  <2> QED BY <2>1 DEF TargetsSound
<1>4. PICK moves \in BOOLEAN : moves = (r.to # Absent /\ \E k \in hit : k # r.to)
  OBVIOUS
<1>5. PICK set : set = [k \in hit |-> IF moves THEN Absent ELSE Updated(c, View(c)[k], r.set)]
  OBVIOUS
<1>6. PICK moved : moved = [k \in {r.to} |-> Updated(c, View(c)[CHOOSE h \in hit : TRUE], r.set)]
  OBVIOUS
<1>7. /\ \A k \in hit \cup (IF moves THEN {r.to} ELSE {}) : ~Locked(c, k)
      /\ IF moves /\ (View(c)[r.to] # Absent \/ Cardinality(hit) > 1)
         THEN Step(c, Aborted(job[c]))
         ELSE Step(c, [job[c] EXCEPT !.pc = "after", !.n = Cardinality(hit),
                                     !.tx = Over(@, IF moves THEN Over(set, moved) ELSE set)])
  BY <1>2, <1>4, <1>5, <1>6 DEF UpdateRows
<1>8. ASSUME NEW k \in hit
      PROVE  /\ Updated(c, View(c)[k], r.set) \in Row /\ Updated(c, View(c)[k], r.set) # Absent
             /\ Turns(c, db[k], Updated(c, View(c)[k], r.set))
  <2>1. r.set \in Vals /\ View(c)[k] = db[k] /\ db[k] \in Row
    BY <1>1, <1>3 DEF Request
  <2>2. Updated(c, db[k], r.set) \in Row /\ Turns(c, db[k], Updated(c, db[k], r.set))
    BY <2>1 DEF Row, Updated, Turns
  <2> QED BY <2>1, <2>2, RowAssumption
<1>9. set \in Writes /\ DOMAIN set = hit
  <2>1. set \in [hit -> Value]
    BY <1>5, <1>8 DEF Value
  <2> QED BY <1>3, <1>5, <2>1, WritesIn
<1>10. hit = {} => Cardinality(hit) = 0
  BY FS_EmptySet
<1>11. Cardinality(hit) = 0 => hit = {}
  BY <1>3, FS_EmptySet
<1>12. CASE moves /\ (View(c)[r.to] # Absent \/ Cardinality(hit) > 1)
  BY <1>1, <1>7, <1>12, AbortStep
<1>13. CASE ~moves
  <2>1. (\A k \in DOMAIN set : ~Locked(c, k)) /\ Contract!Permits(c, db, set)
    <3>1. \A k \in hit : set[k] # Absent /\ Turns(c, db[k], set[k])
      BY <1>3, <1>5, <1>8, <1>13
    <3> QED BY <1>3, <1>7, <1>9, <3>1 DEF Contract!Permits
  <2>2. Step(c, [job[c] EXCEPT !.pc = "after", !.n = Cardinality(hit), !.tx = Over(@, set)])
    BY <1>7, <1>13
  <2>3. Cardinality(hit) = Cardinality(Changed(r, set))
    BY <1>5, <1>8, <1>9, <1>13, ChangedRows
  <2> QED BY <1>1, <1>3, <1>9, <1>11, <2>1, <2>2, <2>3, WrittenStep
<1>14. CASE moves /\ View(c)[r.to] = Absent /\ ~(Cardinality(hit) > 1)
  <2>1. r.to # Absent /\ r.to \in Keys /\ hit # {}
    BY <1>1, <1>4, <1>14 DEF Request
  <2>2. PICK h \in hit : hit = {h} /\ h # r.to
    <3>1. Cardinality(hit) = 1
      BY <1>3, <1>11, <1>14, <2>1
    <3>2. PICK x : hit = {x}
      BY <1>3, <3>1, FS_Singleton
    <3> QED BY <1>4, <1>14, <3>2
  <2>9. /\ moved \in Writes /\ DOMAIN moved = {r.to} /\ moved[r.to] # Absent
        /\ Turns(c, db[h], moved[r.to])
    <3>1. (CHOOSE x \in hit : TRUE) = h
      BY <2>2
    <3>2. moved = [k \in {r.to} |-> Updated(c, View(c)[h], r.set)]
      BY <1>6, <3>1
    <3>3. moved \in [{r.to} -> Value] /\ moved[r.to] = Updated(c, View(c)[h], r.set)
      BY <1>8, <2>1, <3>2 DEF Value
    <3> QED BY <1>3, <1>8, <2>1, <3>2, <3>3, WritesIn
  <2>3. PICK tx : tx = Over(set, moved)
    OBVIOUS
  <2>4. /\ tx \in Writes /\ DOMAIN tx = hit \cup {r.to}
        /\ \A k \in hit : k # r.to => tx[k] = Absent
        /\ tx[r.to] # Absent /\ Turns(c, db[h], tx[r.to])
    <3>1. /\ Over(set, moved) \in Writes /\ DOMAIN Over(set, moved) = DOMAIN set \cup DOMAIN moved
          /\ \A k \in DOMAIN set \cup DOMAIN moved :
               Over(set, moved)[k] = IF k \in DOMAIN moved THEN moved[k] ELSE set[k]
      BY <1>9, <2>9, OverType
    <3> QED BY <1>5, <1>9, <1>14, <2>3, <2>9, <3>1
  <2>5. db[r.to] = Absent
    BY <1>3, <1>14, <2>1
  <2>6. (\A k \in DOMAIN tx : ~Locked(c, k)) /\ Contract!Permits(c, db, tx)
    <3>1. Contract!Leaves(db, tx, h) /\ db[h] \in MayUpdate[c] /\ Contract!TurnsUp(db, tx, r.to)
      BY <1>3, <2>2, <2>4, <2>5, RowAssumption DEF Contract!Leaves, Contract!TurnsUp
    <3>2. \A k \in DOMAIN tx : k = h \/ k = r.to
      BY <2>2, <2>4
    <3>3. Contract!Permits(c, db, tx)
      BY <2>2, <2>4, <3>1, <3>2 DEF Contract!Permits
    <3> QED BY <1>7, <1>14, <2>4, <3>3
  <2>7. Step(c, [job[c] EXCEPT !.pc = "after", !.n = Cardinality(hit), !.tx = Over(@, tx)])
    BY <1>7, <1>14, <2>3
  <2>8. DOMAIN tx \subseteq r.keys \cup {r.to} /\ Cardinality(hit) # 0
    BY <1>3, <1>11, <2>1, <2>4
  <2>10. Cardinality(hit) = Cardinality(Changed(r, tx))
    <3>1. Changed(r, tx) = {r.to}
      BY <1>1, <2>2, <2>4 DEF Changed
    <3> QED BY <2>2, <3>1, FS_Singleton
  <2> QED BY <1>1, <1>3, <2>1, <2>4, <2>6, <2>7, <2>8, <2>10, WrittenStep
<1> QED BY <1>12, <1>13, <1>14

-----------------------------------------------------------------------------
(* The commit, and the read after it.                                      *)

IsAnswered(j, a, kind, row, n) ==
  /\ j \in JobType /\ j.pc = "answered" /\ j.tx = NoWrites
  /\ j.answer.kind = kind /\ j.answer.row = row /\ j.answer.n = n
  /\ j.req = a.req /\ j.seen = a.seen /\ j.refused = a.refused /\ j.wrote = a.wrote /\ j.at = a.at

LEMMA AnsweredRecord ==
  ASSUME NEW a \in JobType, NEW kind \in {"none", "count", "row", "null", "error"}, NEW row \in Value, NEW n \in Nat,
         NEW j, j = Answered(a, kind, row, n)
  PROVE  IsAnswered(j, a, kind, row, n)
<1>1. PICK e : e = [kind |-> kind, row |-> row, n |-> n]
  OBVIOUS
<1>2. e \in AnswerType /\ e.kind = kind /\ e.row = row /\ e.n = n
  BY <1>1 DEF AnswerType, Value
<1>3. j = [a EXCEPT !.pc = "answered", !.tx = NoWrites, !.answer = e]
  BY <1>1 DEF Answered
<1>4. /\ j \in JobType /\ j.pc = "answered" /\ j.tx = NoWrites /\ j.answer = e
      /\ j.req = a.req /\ j.seen = a.seen /\ j.refused = a.refused /\ j.wrote = a.wrote
      /\ j.at = a.at
  BY <1>2, <1>3, NoWritesType DEF JobType
<1> QED BY <1>2, <1>4 DEF IsAnswered

\* The mutation has been applied, and the client is not yet told what it reads.
LEMMA AppliedStep ==
  ASSUME Inv, NEW c \in Clients, Applied(c), NEW j, Step(c, j), Local(c, j),
         j.tx = NoWrites, j.req = job[c].req, j.wrote = job[c].tx,
         j.at = changes', job[c].audited,
         \/ j.pc # "answered" \/ j.req.op \notin {"insert_one", "update_by_pk"}
         \/ j.answer.kind \notin {"row", "null"} \/ DOMAIN j.wrote = {}
         \/ KeyUnknown(j.req) /\ j.answer.row = Absent
  PROVE  Inv'
<1>1. IsJobs(job') /\ job'[c] = j /\ \A d \in Clients \ {c} : job'[d] = job[d]
  BY StepFields DEF Inv
<1>2. job[c].tx \in Writes /\ DOMAIN job[c].tx \subseteq Keys
  BY WritesOut DEF Inv, Local, JobType
<1>3. /\ db' \in [Keys -> Value]
      /\ \A k \in Keys : db'[k] = IF k \in DOMAIN job[c].tx THEN job[c].tx[k] ELSE db[k]
  <2>1. db' = [k \in Keys |-> IF k \in DOMAIN job[c].tx THEN job[c].tx[k] ELSE db[k]]
    BY DEF Applied, View
  <2>2. \A k \in Keys : (IF k \in DOMAIN job[c].tx THEN job[c].tx[k] ELSE db[k]) \in Value
    BY <1>2, WritesOut DEF Inv
  <2> QED BY <2>1, <2>2
<1>4. /\ changes' \in [Keys -> Nat] /\ audit' = changes'
      /\ \A k \in Keys : changes'[k] = IF k \in DOMAIN job[c].tx THEN changes[k] + 1 ELSE changes[k]
  <2>1. changes \in [Keys -> Nat] /\ audit = changes
    BY DEF Inv
  <2>2. changes' = [k \in Keys |-> changes[k] + (IF k \in DOMAIN job[c].tx THEN 1 ELSE 0)]
    BY DEF Applied
  <2>3. audit' = [k \in Keys |-> changes[k] + (IF k \in DOMAIN job[c].tx THEN 1 ELSE 0)]
    BY <2>1 DEF Applied
  <2> QED BY <2>1, <2>2, <2>3
<1>5. Disjoint'
  BY <1>1, NoWritesType DEF Inv, Disjoint
<1>6. ASSUME NEW d \in Clients
      PROVE  /\ Local(d, job[d])' <=> Local(d, job'[d])
             /\ TxSound(d, job[d], db)' <=> TxSound(d, job'[d], db')
             /\ WroteSound(d, job[d], db, changes)' <=> WroteSound(d, job'[d], db', changes')
  BY DEF Local, Statements, Outcome, TxSound, WroteSound
<1>7. TxSound(c, j, db') /\ WroteSound(c, j, db', changes')
  <2>1. TxSound(c, j, db')
    BY PermitsNothing DEF TxSound
  <2>2. \A k \in DOMAIN j.wrote :
          k \in Keys /\ db'[k] = j.wrote[k] /\ changes'[k] \in Nat
    BY <1>2, <1>3, <1>4
  <2> QED BY <2>1, <2>2 DEF WroteSound
<1>8. ASSUME NEW d \in Clients \ {c}
      PROVE  TxSound(d, job[d], db') /\ WroteSound(d, job[d], db', changes')
  <2>1. /\ DOMAIN job[d].tx \subseteq Keys /\ DOMAIN job[d].wrote \subseteq Keys
        /\ \A k \in DOMAIN job[d].wrote : job[d].at[k] \in Nat
    <3>1. job[d].tx \in Writes /\ job[d].wrote \in Writes /\ job[d].at \in [Keys -> Nat]
      BY DEF Inv, Local, JobType
    <3> QED BY <3>1, WritesOut
  <2>2. \A k \in DOMAIN job[d].tx : db'[k] = db[k]
    BY <1>3, <2>1 DEF Inv, Disjoint
  <2>3. TxSound(d, job[d], db) /\ WroteSound(d, job[d], db, changes)
    BY DEF Inv
  <2>4. TxSound(d, job[d], db')
    BY <2>2, <2>3, PermitsSame DEF TxSound
  <2>5. \A k \in DOMAIN job[d].wrote :
          /\ job[d].at[k] <= changes[k] => job[d].at[k] <= changes'[k]
          /\ job[d].at[k] <= changes[k] /\ changes'[k] = job[d].at[k] => changes[k] = job[d].at[k] /\ db'[k] = db[k]
    <3>1. \A k \in Keys : changes[k] \in Nat
      BY DEF Inv
    <3> QED BY <1>3, <1>4, <2>1, <3>1
  <2>6. WroteSound(d, job[d], db', changes')
    BY <2>3, <2>5 DEF WroteSound
  <2> QED BY <2>4, <2>6
<1>9. ASSUME NEW d \in Clients
      PROVE  Local(d, job[d])' /\ TxSound(d, job[d], db)' /\ WroteSound(d, job[d], db, changes)'
  BY <1>1, <1>6, <1>7, <1>8 DEF Inv
<1> QED BY <1>1, <1>3, <1>4, <1>5, <1>9 DEF Inv

\* The record that is kept for the properties.
IsKept(K, c) ==
  /\ K \in JobType /\ K.pc = "commit" /\ K.tx = job[c].tx /\ K.req = job[c].req /\ K.n = job[c].n /\ K.key = job[c].key
  /\ K.seen = job[c].seen /\ K.refused = job[c].refused
  /\ K.wrote = job[c].tx /\ K.at = changes'

LEMMA KeptRecord ==
  ASSUME Inv, NEW c \in Clients, job[c].pc = "commit", Applied(c), NEW K, K = Kept(c)
  PROVE  IsKept(K, c)
<1>1. job[c] \in JobType /\ job[c].tx \in Writes /\ DOMAIN job[c].tx \subseteq Keys
  BY WritesOut DEF Inv, Local, JobType
<1>2. PICK at : at = changes'
  OBVIOUS
<1>3. at \in [Keys -> Nat]
  BY <1>2 DEF Applied, Inv
<1>4. K = [job[c] EXCEPT !.wrote = job[c].tx, !.at = at]
  BY <1>2 DEF Kept
<1>5. /\ K \in JobType /\ K.pc = job[c].pc /\ K.tx = job[c].tx /\ K.req = job[c].req /\ K.n = job[c].n
      /\ K.key = job[c].key /\ K.seen = job[c].seen /\ K.refused = job[c].refused
      /\ K.wrote = job[c].tx /\ K.at = at
  BY <1>1, <1>3, <1>4 DEF JobType
<1> QED BY <1>2, <1>5 DEF IsKept

\* The answer is given with the commit.
LEMMA CommitAnswered ==
  ASSUME Inv, NEW c \in Clients, job[c].pc = "commit", Applied(c), NEW K, IsKept(K, c),
         NEW kind \in {"count", "row", "null", "error"}, NEW row \in Value, NEW n \in Nat,
         Step(c, Answered(K, kind, row, n)),
         kind = "count" => Cardinality(Changed(job[c].req, job[c].tx)) = n,
         job[c].req.op = "delete_by_pk" /\ kind = "row" => DOMAIN job[c].tx = job[c].req.keys /\ row \in Sees[c],
         \/ job[c].req.op \notin {"insert_one", "update_by_pk"}
         \/ kind \notin {"row", "null"} \/ DOMAIN job[c].tx = {}
         \/ KeyUnknown(job[c].req) /\ row = Absent
  PROVE  Inv'
<1>1. Local(c, job[c]) /\ job[c].audited
  BY DEF Inv, Local, Statements
<1>2. PICK j : j = Answered(K, kind, row, n)
  OBVIOUS
<1>3. IsAnswered(j, K, kind, row, n)
  BY <1>2, AnsweredRecord DEF IsKept
<1>4. /\ j \in JobType /\ j.pc = "answered" /\ j.tx = NoWrites /\ j.answer.kind = kind /\ j.answer.row = row
      /\ j.answer.n = n /\ j.req = job[c].req /\ j.seen = job[c].seen /\ j.refused = job[c].refused
      /\ j.wrote = job[c].tx /\ j.at = changes'
  BY <1>3 DEF IsAnswered, IsKept
<1>5. Outcome(c, j)
  BY <1>1, <1>4 DEF Local, Outcome
<1>6. Local(c, j)
  BY <1>1, <1>4, <1>5 DEF Local, Statements, Open
<1>7. Step(c, j)
  BY <1>2
<1> QED BY <1>1, <1>4, <1>6, <1>7, AppliedStep

LEMMA CommitFailsStep == ASSUME Inv, NEW c \in Clients, CommitFails(c) PROVE Inv'
<1>1. job[c].pc = "commit"
  BY DEF CommitFails
<1>2. CASE Step(c, Aborted(job[c])) /\ Reading
  BY <1>1, <1>2, AbortStep
<1>3. CASE Applied(c) /\ Step(c, Aborted(Kept(c)))
  <2>1. PICK K : K = Kept(c)
    OBVIOUS
  <2>2. IsKept(K, c)
    BY <1>1, <1>3, <2>1, KeptRecord
  <2>3. Step(c, Answered(K, "error", Absent, 0))
    BY <1>3, <2>1 DEF Aborted
  <2>4. Absent \in Value /\ 0 \in Nat
    BY DEF Value
  <2> QED BY <1>1, <1>3, <2>2, <2>3, <2>4, CommitAnswered
<1> QED BY <1>2, <1>3 DEF CommitFails

\* A set with one element has no other part that is not empty.
LEMMA OneElement ==
  ASSUME NEW S, IsFiniteSet(S), Cardinality(S) = 1, NEW T, T \subseteq S
  PROVE  T = {} \/ T = S
<1>1. PICK x : S = {x}
  BY FS_Singleton
<1> QED BY <1>1

\* Which mutations read the row again.
LEMMA KeyIsKnown ==
  ASSUME NEW j, j.n \in Nat
  PROVE  /\ ReadsAgain(j) <=> \/ j.req.op = "insert_one" /\ ~KeyUnknown(j.req)
                              \/ j.req.op = "update_by_pk" /\ j.n > 0
         /\ \A k \in insertedPKCond(j) : k = j.key
BY DEF ReadsAgain, KeyUnknown, insertedPKCond

LEMMA CommitStep == ASSUME Inv, NEW c \in Clients, Commit(c) PROVE Inv'
<1>1. /\ job[c].pc = "commit" /\ Applied(c) /\ Local(c, job[c]) /\ job[c] \in JobType
      /\ job[c].req \in Requests /\ job[c].req \in Request /\ job[c].n \in Nat /\ job[c].seen \in Value
  <2>1. job[c].pc = "commit" /\ Applied(c) /\ Local(c, job[c]) /\ job[c] \in JobType
    BY DEF Commit, Inv, Local
  <2> QED BY <2>1, RequestAssumption DEF Local, JobType, Value
<1>2. PICK K : K = Kept(c)
  OBVIOUS
<1>3. IsKept(K, c) /\ Step(c, Committed(K))
  BY <1>1, <1>2, KeptRecord DEF Commit
<1>4. K.req = job[c].req /\ K.n = job[c].n /\ K.seen = job[c].seen
  BY <1>3 DEF IsKept
<1>5. job[c].n = Cardinality(Changed(job[c].req, job[c].tx))
  BY <1>1 DEF Local, Statements, Open
<1>6. CASE ReadsAgain(K)
  <2>1. PICK j : j = [K EXCEPT !.pc = "reread", !.tx = NoWrites]
    OBVIOUS
  <2>2. Committed(K) = j
    BY <1>6, <2>1 DEF Committed, ReadsAgain
  <2>3. /\ j \in JobType /\ j.pc = "reread" /\ j.tx = NoWrites /\ j.req = K.req /\ j.key = K.key /\ j.seen = K.seen
        /\ j.refused = K.refused /\ j.wrote = K.wrote /\ j.at = K.at
    <3>1. K \in JobType
      BY <1>3 DEF IsKept
    <3> QED BY <2>1, <3>1, NoWritesType DEF JobType
  <2>4. /\ j.req = job[c].req /\ j.key = job[c].key /\ j.seen = job[c].seen /\ j.refused = job[c].refused
        /\ j.wrote = job[c].tx /\ j.at = changes'
    BY <1>3, <2>3 DEF IsKept
  <2>7. \/ job[c].req.op = "insert_one" /\ ~KeyUnknown(job[c].req)
        \/ job[c].req.op = "update_by_pk" /\ job[c].n > 0
    BY <1>1, <1>4, <1>6, KeyIsKnown
  <2>5. Outcome(c, j)
    BY <1>1, <2>3, <2>4, <2>7 DEF Local, Outcome, Statements, Open
  <2>6. Local(c, j) /\ job[c].audited
    BY <1>1, <2>3, <2>4, <2>5 DEF Local, Statements, Open
  <2> QED BY <1>1, <1>3, <2>2, <2>3, <2>4, <2>6, AppliedStep
<1>7. CASE job[c].req.op \in {"insert_one", "update_by_pk"} /\ ~ReadsAgain(K)
  <2>1. Step(c, Answered(K, "null", Absent, 0))
    BY <1>3, <1>4, <1>7 DEF Committed
  <2>2. DOMAIN job[c].tx = {} \/ KeyUnknown(job[c].req)
    <3>1. KeyUnknown(job[c].req) \/ (job[c].req.op = "update_by_pk" /\ job[c].n = 0)
      BY <1>1, <1>4, <1>7, KeyIsKnown
    <3> QED BY <1>1, <3>1 DEF Local, Statements, Open
  <2>3. Absent \in Value /\ 0 \in Nat
    BY DEF Value
  <2> QED BY <1>1, <1>3, <1>7, <2>1, <2>2, <2>3, CommitAnswered
<1>8. CASE job[c].req.op = "delete_by_pk"
  <2>1. PICK row : row = IF job[c].n = 0 THEN Absent ELSE job[c].seen
    OBVIOUS
  <2>2. PICK kind : kind = IF row = Absent THEN "null" ELSE "row"
    OBVIOUS
  <2>3. Step(c, Answered(K, kind, row, job[c].n))
    BY <1>3, <1>4, <1>8, <2>1, <2>2 DEF Committed, RowOrNull, ReadsAgain
  <2>4. row \in Value /\ kind \in {"count", "row", "null", "error"} /\ kind # "count"
    BY <1>1, <2>1, <2>2 DEF Value
  <2>5. ASSUME kind = "row" PROVE DOMAIN job[c].tx = job[c].req.keys /\ row \in Sees[c]
    <3>1. job[c].n # 0 /\ row = job[c].seen /\ row # Absent
      BY <2>1, <2>2, <2>5
    <3>2. row \in Sees[c]
      BY <1>1, <3>1 DEF Local, Outcome
    <3>3. DOMAIN job[c].tx # {}
      BY <1>5, <3>1, ChangedRows
    <3>4. DOMAIN job[c].tx \subseteq job[c].req.keys
      BY <1>1, <1>8 DEF Local, Statements, Open
    <3>5. IsFiniteSet(job[c].req.keys) /\ Cardinality(job[c].req.keys) = 1
      <4>1. job[c].req.keys \subseteq Keys
        BY <1>1 DEF Request
      <4> QED BY <1>1, <1>8, <4>1, RequestAssumption, RowAssumption, FS_Subset
    <3> QED BY <3>2, <3>3, <3>4, <3>5, OneElement
  <2> QED BY <1>1, <1>3, <1>8, <2>3, <2>4, <2>5, CommitAnswered
<1>9. CASE job[c].req.op \in {"insert", "update", "delete"}
  <2>1. Step(c, Answered(K, "count", Absent, job[c].n))
    BY <1>3, <1>4, <1>9 DEF Committed, ReadsAgain
  <2>2. Absent \in Value /\ Cardinality(Changed(job[c].req, job[c].tx)) = job[c].n
    BY <1>5 DEF Value
  <2> QED BY <1>1, <1>3, <1>9, <2>1, <2>2, CommitAnswered
<1>10. job[c].req.op \in Op
  BY <1>1 DEF Request
<1> QED BY <1>1, <1>6, <1>7, <1>8, <1>9, <1>10 DEF Op

\* The row is read again by the key that was written.
LEMMA RereadStep == ASSUME Inv, NEW c \in Clients, Reread(c) PROVE Inv'
<1>1. /\ job[c].pc = "reread" /\ Reading /\ Local(c, job[c]) /\ job[c] \in JobType
      /\ job[c].req \in Requests /\ job[c].req \in Request /\ job[c].n \in Nat
  <2>1. job[c].pc = "reread" /\ Reading /\ Local(c, job[c]) /\ job[c] \in JobType
    BY DEF Reread, Inv, Local
  <2> QED BY <2>1, RequestAssumption DEF Local, JobType
<1>2. PICK k \in IF job[c].req.op = "insert_one" THEN insertedPKCond(job[c]) ELSE job[c].req.keys :
        Step(c, RowOrNull(job[c], Visible(c, k, Row)))
  BY DEF Reread
<1>3. DOMAIN job[c].wrote \subseteq Keys
  BY <1>1, WritesOut DEF JobType
<1>4. k \in Keys /\ \A x \in DOMAIN job[c].wrote : x # job[c].req.to => x = k
  <2>1. CASE job[c].req.op = "insert_one"
    BY <1>1, <1>2, <1>3, <2>1, KeyIsKnown DEF Local, Outcome
  <2>2. CASE job[c].req.op = "update_by_pk"
    <3>1. job[c].req.keys \subseteq Keys /\ Cardinality(job[c].req.keys) = 1
      BY <1>1, <2>2, RequestAssumption DEF Request
    <3>2. PICK x : job[c].req.keys = {x}
      BY <3>1, RowAssumption, FS_Subset, FS_Singleton
    <3>3. DOMAIN job[c].wrote \subseteq job[c].req.keys \cup {job[c].req.to}
      BY <1>1, <2>2 DEF Local, Outcome
    <3> QED BY <1>2, <2>2, <3>1, <3>2, <3>3
  <2> QED BY <1>1, <2>1, <2>2 DEF Local, Outcome
<1>5. PICK row : row = Visible(c, k, Row)
  OBVIOUS
<1>6. row \in Value /\ row = IF db[k] \in Sees[c] THEN db[k] ELSE Absent
  <2>1. row \in Value
    BY <1>4, <1>5, VisibleType
  <2>2. Sees[c] \cap Row = Sees[c]
    BY RowAssumption
  <2> QED BY <1>5, <2>1, <2>2 DEF Visible
<1>7. PICK kind : kind = IF row = Absent THEN "null" ELSE "row"
  OBVIOUS
<1>8. PICK j : j = Answered(job[c], kind, row, job[c].n)
  OBVIOUS
<1>9. Step(c, j)
  BY <1>2, <1>5, <1>7, <1>8 DEF RowOrNull
<1>10. IsAnswered(j, job[c], kind, row, job[c].n)
  BY <1>1, <1>6, <1>7, <1>8, AnsweredRecord
<1>11. /\ j \in JobType /\ j.pc = "answered" /\ j.tx = NoWrites /\ j.answer.kind \in {"null", "row"}
       /\ j.answer.row = row /\ j.req = job[c].req /\ j.seen = job[c].seen /\ j.refused = job[c].refused
       /\ j.wrote = job[c].wrote /\ j.at = job[c].at
  BY <1>7, <1>10 DEF IsAnswered
<1>12. Outcome(c, j)
  BY <1>1, <1>11 DEF Local, Outcome
<1>13. Local(c, j)
  BY <1>1, <1>11, <1>12 DEF Local, Statements, Open
<1>14. TxSound(c, j, db) /\ \A d \in Clients \ {c} : DOMAIN j.tx \cap DOMAIN job[d].tx = {}
  BY <1>11, NoWritesType, PermitsNothing DEF TxSound
<1>15. WroteSound(c, j, db, changes)
  <2>1. WroteSound(c, job[c], db, changes)
    BY DEF Inv
  <2>2. ~KeyUnknown(j.req)
    BY <1>1, <1>11 DEF Local, Outcome, KeyUnknown
  <2> QED BY <1>4, <1>6, <1>11, <2>1, <2>2 DEF WroteSound
<1> QED BY <1>1, <1>9, <1>13, <1>14, <1>15, ReadingStep

LEMMA StutterStep == ASSUME Inv, UNCHANGED vars PROVE Inv'
<1>1. db' = db /\ changes' = changes /\ audit' = audit /\ job' = job
  BY DEF vars
<1>2. ASSUME NEW d \in Clients
      PROVE  /\ Local(d, job[d])' <=> Local(d, job'[d])
             /\ TxSound(d, job[d], db)' <=> TxSound(d, job'[d], db')
             /\ WroteSound(d, job[d], db, changes)' <=> WroteSound(d, job'[d], db', changes')
  BY DEF Local, Statements, Outcome, TxSound, WroteSound
<1>3. Disjoint'
  BY <1>1 DEF Inv, Disjoint
<1> QED BY <1>1, <1>2, <1>3 DEF Inv

LEMMA Invariant == Spec => []Inv
<1>1. ASSUME Inv, Next PROVE Inv'
  <2>1. PICK c \in Clients :
          \/ \E r \in Requests : Start(c, r)
          \/ Fetch(c) \/ Before(c) \/ InsertRow(c) \/ InsertsDone(c) \/ UpdateRows(c) \/ DeleteRows(c)
          \/ After(c) \/ Commit(c) \/ CommitFails(c) \/ Reread(c) \/ Fail(c)
    BY <1>1 DEF Next
  <2> QED BY <1>1, <2>1, StartStep, FetchStep, BeforeStep, InsertStep, InsertsDoneStep, UpdateStep, DeleteStep,
             AfterStep, CommitStep, CommitFailsStep, RereadStep, FailStep
<1>2. Inv /\ [Next]_vars => Inv'
  BY <1>1, StutterStep
<1> QED BY InitInv, <1>2, PTL DEF Spec

-----------------------------------------------------------------------------
(* What it says of the program.                                            *)

\* The mutations keep their types, no two transactions hold the same row and
\* none outlives its mutation.
THEOREM MutationTypeCorrect == Spec => []TypeOK
<1>1. ASSUME Inv PROVE TypeOK
  <2>1. \A c \in Clients : job[c] \in JobType
    BY <1>1 DEF Inv, Local
  <2>2. job \in [Clients -> JobType]
    BY <1>1, <2>1 DEF Inv, IsJobs
  <2>3. \A c \in Clients : job[c].pc \notin {"write", "after", "commit"} => job[c].tx = NoWrites
    BY <1>1 DEF Inv, Local, Open
  <2> QED BY <1>1, <2>2, <2>3 DEF Inv, Disjoint, TypeOK, Value
<1> QED BY <1>1, Invariant, PTL

\* Audit rows are written with the change they are about or not at all, for any
\* order of commits, refusals and broken connections.
THEOREM AuditTrailKept == Spec => []AuditTrail
<1>1. Inv => AuditTrail
  BY DEF Inv, AuditTrail
<1> QED BY <1>1, Invariant, PTL

\* The count of a mutation is that of the rows it changed, and a refused one
\* has changed none.
THEOREM AlwaysAllOrNothing == Spec => []AllOrNothing
<1>1. Inv => AllOrNothing
  BY DEF Inv, Local, Outcome, AllOrNothing, answered
<1> QED BY <1>1, Invariant, PTL

\* insert_one and update_by_pk answer with the row that they wrote, or with
\* null if the select filter hides it, unless it has been changed since, or
\* moved to another key; insert_one answers with null, always, if a default
\* gave the row its key.
THEOREM WrittenRowReturned == Spec => []ReturnsWrittenRow
<1>1. ASSUME Inv PROVE ReturnsWrittenRow
  <2>1. \A c \in Clients : WroteSound(c, job[c], db, changes)
    BY <1>1 DEF Inv
  <2> QED BY <2>1 DEF WroteSound, ReturnsWrittenRow, answered
<1> QED BY <1>1, Invariant, PTL

\* delete_by_pk answers with a row that it has deleted, and that the client may
\* see, or with null.
THEOREM OnlyDeletedReturned == Spec => []ReturnsOnlyDeleted
<1>1. Inv => ReturnsOnlyDeleted
  BY DEF Inv, Local, Outcome, ReturnsOnlyDeleted, answered
<1> QED BY <1>1, Invariant, PTL

-----------------------------------------------------------------------------
(* Every step is one of the contract, or is not seen by it.  A mutation is *)
(* applied in the step that commits it: TxSound says that it may be.       *)

Asked == {"fetch", "before", "write", "after", "commit"}

LEMMA ProgressStep ==
  ASSUME Inv, NEW c \in Clients, NEW j, Step(c, j), NEW from, progress(job[c]) \in from
  PROVE  Contract!Becomes(c, from, progress(j))
<1>1. job'[c] = j /\ \A d \in Clients \ {c} : job'[d] = job[d]
  BY StepFields DEF Inv
<1>2. PICK S : S = [d \in Clients |-> progress(job[d])]
  OBVIOUS
<1>3. PICK T : T = [d \in Clients |-> progress(job'[d])]
  OBVIOUS
<1>4. T = [S EXCEPT ![c] = progress(j)] /\ S[c] = progress(job[c])
  BY <1>1, <1>2, <1>3
<1>5. [d \in Clients |-> progress(job[d])]' = [d \in Clients |-> progress(job'[d])]
  BY DEF progress
<1> QED BY <1>2, <1>3, <1>4, <1>5 DEF Contract!Becomes

\* A mutation that goes on.
LEMMA GoesOn ==
  ASSUME Inv, NEW c \in Clients, NEW j, Step(c, j), Reading, job[c].pc \in Asked, j.pc \in Asked
  PROVE  UNCHANGED Contract!vars
<1>1. job'[c] = j /\ \A d \in Clients \ {c} : job'[d] = job[d]
  BY StepFields DEF Inv
<1>2. progress(j) = "asked" /\ progress(job[c]) = "asked"
  BY DEF progress, Asked
<1>3. \A d \in Clients : progress(job'[d]) = progress(job[d])
  BY <1>1, <1>2
<1>4. [d \in Clients |-> progress(job[d])]' = [d \in Clients |-> progress(job'[d])]
  BY DEF progress
<1>5. [d \in Clients |-> progress(job[d])]' = [d \in Clients |-> progress(job[d])]
  BY <1>3, <1>4
<1>6. db' = db /\ audit' = audit
  BY DEF Reading
<1> QED BY <1>5, <1>6 DEF Contract!vars

\* A mutation that is given up.
LEMMA GivenUp ==
  ASSUME Inv, NEW c \in Clients, NEW j, Step(c, j), Reading, job[c].pc \in Asked,
         j.pc = "answered", j.answer.kind = "error"
  PROVE  Contract!GiveUp(c)
<1>1. progress(j) = "failed" /\ progress(job[c]) \in {"asked"}
  BY DEF progress, Asked
<1> QED BY <1>1, ProgressStep DEF Contract!GiveUp, Reading

LEMMA AbortGivesUp ==
  ASSUME Inv, NEW c \in Clients, Step(c, Aborted(job[c])), Reading, job[c].pc \in Asked
  PROVE  Contract!GiveUp(c)
<1>1. PICK j : j = Aborted(job[c])
  OBVIOUS
<1>2. j.pc = "answered" /\ j.answer.kind = "error"
  BY <1>1, AbortedLocal DEF Inv, Asked
<1> QED BY <1>1, <1>2, GivenUp

LEMMA RefusalGivesUp ==
  ASSUME Inv, NEW c \in Clients, Step(c, [Aborted(job[c]) EXCEPT !.refused = TRUE]), Reading,
         job[c].pc \in Asked
  PROVE  Contract!GiveUp(c)
<1>1. PICK a : a = Aborted(job[c])
  OBVIOUS
<1>2. a \in JobType /\ a.pc = "answered" /\ a.answer.kind = "error"
  BY <1>1, AbortedLocal DEF Inv, Asked, Local
<1>3. PICK j : j = [a EXCEPT !.refused = TRUE]
  OBVIOUS
<1>4. j.pc = "answered" /\ j.answer.kind = "error"
  BY <1>2, <1>3 DEF JobType
<1> QED BY <1>1, <1>3, <1>4, GivenUp

LEMMA StartAsks == ASSUME Inv, NEW c \in Clients, NEW r \in Requests, Start(c, r) PROVE Contract!Ask(c)
<1>. DEFINE first == IF r.op = "delete_by_pk" THEN "fetch" ELSE "before"
            sent == job[c].sent + 1
<1>1. PICK j : j = [Idle EXCEPT !.pc = first, !.req = r, !.left = r.objects, !.sent = sent]
  OBVIOUS
<1>2. Idle \in JobType
  BY IdleLocal DEF Local
<1>3. j.pc = first
  BY <1>1, <1>2 DEF JobType
<1>4. progress(j) = "asked" /\ progress(job[c]) \in {"idle", "done", "failed"}
  BY <1>3 DEF progress, Start
<1>5. Step(c, j) /\ Reading
  BY <1>1 DEF Start
<1> QED BY <1>4, <1>5, ProgressStep DEF Contract!Ask, Reading

\* The fetch, the statements and the hooks are not seen.
LEMMA WorkStep ==
  ASSUME Inv, NEW c \in Clients,
         Fetch(c) \/ Before(c) \/ InsertRow(c) \/ InsertsDone(c) \/ UpdateRows(c) \/ DeleteRows(c) \/ After(c)
  PROVE  UNCHANGED Contract!vars \/ Contract!GiveUp(c)
<1>1. job[c] \in JobType
  BY DEF Inv, Local
<1>2. job[c].pc \in Asked /\ Reading
  BY DEF Asked, Fetch, Before, InsertRow, InsertsDone, UpdateRows, DeleteRows, After
<1>3. ASSUME Fetch(c) PROVE UNCHANGED Contract!vars
  <2>1. PICK row : Step(c, [job[c] EXCEPT !.pc = "before", !.seen = row])
    BY <1>3 DEF Fetch
  <2>2. PICK j : j = [job[c] EXCEPT !.pc = "before", !.seen = row]
    OBVIOUS
  <2>3. j.pc \in Asked
    BY <1>1, <2>2 DEF JobType, Asked
  <2> QED BY <1>2, <2>1, <2>2, <2>3, GoesOn
<1>4. ASSUME NEW pc \in Asked, Step(c, [job[c] EXCEPT !.pc = pc]) PROVE UNCHANGED Contract!vars
  <2>1. PICK j : j = [job[c] EXCEPT !.pc = pc]
    OBVIOUS
  <2>2. j.pc \in Asked
    BY <1>1, <2>1 DEF JobType
  <2> QED BY <1>2, <1>4, <2>1, <2>2, GoesOn
<1>5. CASE Before(c)
  BY <1>2, <1>4, <1>5, RefusalGivesUp, AbortGivesUp DEF Before, Asked
<1>6. CASE InsertsDone(c)
  BY <1>4, <1>6 DEF InsertsDone, Asked
<1>7. CASE After(c)
  <2>1. CASE Step(c, [job[c] EXCEPT !.pc = "commit", !.audited = TRUE])
    <3>1. PICK j : j = [job[c] EXCEPT !.pc = "commit", !.audited = TRUE]
      OBVIOUS
    <3>2. j.pc \in Asked
      BY <1>1, <3>1 DEF JobType, Asked
    <3> QED BY <1>2, <2>1, <3>1, <3>2, GoesOn
  <2> QED BY <1>2, <1>7, <2>1, RefusalGivesUp DEF After
<1>8. CASE InsertRow(c)
  <2>1. PICK o, k : Step(c, IF View(c)[k] = Absent THEN Inserted(c, o, k) ELSE Aborted(job[c]))
    BY <1>8 DEF InsertRow
  <2>2. CASE View(c)[k] = Absent
    <3>1. PICK left, tx, n : Inserted(c, o, k) = [job[c] EXCEPT !.left = left, !.tx = tx, !.n = n, !.key = k]
      BY DEF Inserted
    <3>2. PICK j : j = [job[c] EXCEPT !.left = left, !.tx = tx, !.n = n, !.key = k]
      OBVIOUS
    <3>3. j.pc \in Asked
      BY <1>1, <1>2, <3>2 DEF JobType
    <3> QED BY <1>2, <2>1, <2>2, <3>1, <3>2, <3>3, GoesOn
  <2> QED BY <1>2, <2>1, <2>2, AbortGivesUp
<1>9. ASSUME NEW n, NEW tx, Step(c, [job[c] EXCEPT !.pc = "after", !.n = n, !.tx = tx])
      PROVE  UNCHANGED Contract!vars
  <2>1. PICK j : j = [job[c] EXCEPT !.pc = "after", !.n = n, !.tx = tx]
    OBVIOUS
  <2>2. j.pc \in Asked
    BY <1>1, <2>1 DEF JobType, Asked
  <2> QED BY <1>2, <1>9, <2>1, <2>2, GoesOn
<1>10. CASE UpdateRows(c)
  BY <1>2, <1>9, <1>10, AbortGivesUp DEF UpdateRows
<1>11. CASE DeleteRows(c)
  BY <1>9, <1>11 DEF DeleteRows
<1> QED BY <1>3, <1>5, <1>6, <1>7, <1>8, <1>10, <1>11

\* The step that commits is the one that the contract knows.
LEMMA CommitApplies ==
  ASSUME Inv, NEW c \in Clients, job[c].pc = "commit", Applied(c), NEW j, Step(c, j),
         progress(j) \in {"applied", "done", "failed"}
  PROVE  Contract!Apply(c)
<1>1. progress(job[c]) \in {"asked"}
  BY DEF progress
<1>2. Local(c, job[c]) /\ job[c].audited /\ TxSound(c, job[c], db)
  BY DEF Inv, Local, Statements
<1>3. PICK w : w = job[c].tx
  OBVIOUS
<1>4. w \in Contract!Writes
  BY <1>2, <1>3 DEF Local, JobType, Writes, Contract!Writes
<1>5. Contract!Permits(c, db, w)
  BY <1>2, <1>3 DEF TxSound
<1>6. db' = [k \in Keys |-> IF k \in DOMAIN w THEN w[k] ELSE db[k]]
  BY <1>3 DEF Applied, View
<1>7. audit' = [k \in Keys |-> IF k \in DOMAIN w THEN audit[k] + 1 ELSE audit[k]]
  <2>1. \A k \in Keys : audit[k] + 0 = audit[k]
    BY DEF Inv
  <2>2. audit' = [k \in Keys |-> audit[k] + (IF k \in DOMAIN w THEN 1 ELSE 0)]
    BY <1>2, <1>3 DEF Applied
  <2> QED BY <2>1, <2>2
<1>8. Contract!Becomes(c, {"asked"}, progress(j))
  BY <1>1, ProgressStep
<1> QED BY <1>4, <1>5, <1>6, <1>7, <1>8 DEF Contract!Apply

\* An answer that is no error ends a mutation well.
LEMMA AnsweredProgress ==
  ASSUME NEW a \in JobType, NEW kind \in {"count", "row", "null", "error"}, NEW row \in Value, NEW n \in Nat
  PROVE  progress(Answered(a, kind, row, n)) = IF kind = "error" THEN "failed" ELSE "done"
<1>1. PICK j : j = Answered(a, kind, row, n)
  OBVIOUS
<1>2. IsAnswered(j, a, kind, row, n)
  BY <1>1, AnsweredRecord
<1>3. progress(j) = IF kind = "error" THEN "failed" ELSE "done"
  BY <1>2 DEF IsAnswered, progress
<1> QED BY <1>1, <1>3

LEMMA CommittedProgress ==
  ASSUME NEW K \in JobType
  PROVE  progress(Committed(K)) \in {"applied", "done", "failed"}
<1>1. Absent \in Value /\ 0 \in Nat /\ K.n \in Nat /\ K.seen \in Value
  BY DEF JobType, Value
<1>2. CASE ReadsAgain(K)
  <2>1. PICK j : j = [K EXCEPT !.pc = "reread", !.tx = NoWrites]
    OBVIOUS
  <2>2. j.pc = "reread"
    BY <2>1 DEF JobType
  <2>3. Committed(K) = j
    BY <1>2, <2>1 DEF Committed, ReadsAgain
  <2> QED BY <2>2, <2>3 DEF progress
<1>3. \A row \in Value : progress(RowOrNull(K, row)) \in {"done", "failed"}
  BY <1>1, AnsweredProgress DEF RowOrNull
<1>4. CASE K.req.op \in {"insert_one", "update_by_pk"} /\ ~ReadsAgain(K)
  <2>1. Committed(K) = Answered(K, "null", Absent, 0)
    BY <1>4 DEF Committed
  <2> QED BY <1>1, <2>1, AnsweredProgress
<1>5. CASE K.req.op = "delete_by_pk"
  <2>1. PICK row \in Value : row = IF K.n = 0 THEN Absent ELSE K.seen
    BY <1>1
  <2>2. Committed(K) = RowOrNull(K, row)
    BY <1>5, <2>1 DEF Committed, ReadsAgain
  <2> QED BY <1>3, <2>2
<1>6. CASE K.req.op \notin {"insert_one", "update_by_pk", "delete_by_pk"}
  <2>1. Committed(K) = Answered(K, "count", Absent, K.n)
    BY <1>6 DEF Committed, ReadsAgain
  <2> QED BY <1>1, <2>1, AnsweredProgress
<1> QED BY <1>1, <1>2, <1>4, <1>5, <1>6

LEMMA CommitIsApply == ASSUME Inv, NEW c \in Clients, Commit(c) PROVE Contract!Apply(c)
<1>1. PICK K : K = Kept(c)
  OBVIOUS
<1>2. job[c].pc = "commit" /\ Applied(c) /\ Step(c, Committed(K)) /\ K \in JobType
  BY <1>1, KeptRecord DEF Commit, IsKept
<1> QED BY <1>2, CommittedProgress, CommitApplies

LEMMA CommitFailsIsSeen ==
  ASSUME Inv, NEW c \in Clients, CommitFails(c)
  PROVE  Contract!Apply(c) \/ Contract!GiveUp(c)
<1>1. job[c].pc = "commit"
  BY DEF CommitFails
<1>2. CASE Step(c, Aborted(job[c])) /\ Reading
  BY <1>1, <1>2, AbortGivesUp DEF Asked
<1>3. CASE Applied(c) /\ Step(c, Aborted(Kept(c)))
  <2>1. PICK K : K = Kept(c)
    OBVIOUS
  <2>2. K \in JobType
    BY <1>1, <1>3, <2>1, KeptRecord DEF IsKept
  <2>3. progress(Aborted(K)) = "failed"
    BY <2>2, AnsweredProgress DEF Aborted, Value
  <2> QED BY <1>1, <1>3, <2>1, <2>3, CommitApplies
<1> QED BY <1>2, <1>3 DEF CommitFails

LEMMA RereadTells == ASSUME Inv, NEW c \in Clients, Reread(c) PROVE Contract!Tell(c)
<1>1. /\ job[c].pc = "reread" /\ Reading /\ job[c] \in JobType /\ job[c].n \in Nat
      /\ job[c].req \in Request /\ Local(c, job[c])
  BY RequestAssumption DEF Reread, Inv, Local, JobType
<1>2. PICK k \in IF job[c].req.op = "insert_one" THEN insertedPKCond(job[c]) ELSE job[c].req.keys :
        Step(c, RowOrNull(job[c], Visible(c, k, Row)))
  BY DEF Reread
<1>3. k \in Keys
  <2>1. job[c].req.op = "insert_one" => job[c].key \in Keys
    <3>1. job[c].wrote \in Writes /\ (job[c].req.op = "insert_one" => DOMAIN job[c].wrote = {job[c].key})
      BY <1>1 DEF Local, Outcome, JobType
    <3> QED BY <3>1, WritesOut
  <2> QED BY <1>1, <1>2, <2>1, KeyIsKnown DEF Request
<1>4. PICK row : row = Visible(c, k, Row)
  OBVIOUS
<1>5. row \in Value
  BY <1>3, <1>4, VisibleType
<1>6. progress(RowOrNull(job[c], row)) \in {"done", "failed"}
  BY <1>1, <1>5, AnsweredProgress DEF RowOrNull
<1>7. progress(job[c]) \in {"applied"}
  BY <1>1 DEF progress
<1> QED BY <1>1, <1>2, <1>4, <1>6, <1>7, ProgressStep DEF Contract!Tell, Reading

LEMMA FailIsSeen ==
  ASSUME Inv, NEW c \in Clients, Fail(c)
  PROVE  Contract!GiveUp(c) \/ Contract!Tell(c)
<1>1. Step(c, Aborted(job[c])) /\ Reading
  BY DEF Fail
<1>2. CASE job[c].pc \in Asked
  BY <1>1, <1>2, AbortGivesUp
<1>3. CASE job[c].pc = "reread"
  <2>1. progress(Aborted(job[c])) = "failed"
    BY AnsweredProgress DEF Inv, Local, Aborted, Value
  <2>2. progress(job[c]) \in {"applied"}
    BY <1>3 DEF progress
  <2> QED BY <1>1, <2>1, <2>2, ProgressStep DEF Contract!Tell, Reading
<1> QED BY <1>2, <1>3 DEF Fail, Asked

\* The contract: for any clients, filters and requests, and in any interleaving
\* with refusals, failures and commits that are lost, a mutation changes the
\* table and its audit trail in one step between its request and its answer or
\* not at all, and only where the filters let it.
THEOREM MutationsImplementContract == Spec => ImplementsContract
<1>1. Init => Contract!Init
  <2>. SUFFICES ASSUME Init PROVE Contract!Init
    OBVIOUS
  <2>1. progress(Idle) = "idle"
    <3>1. Idle.pc = "idle"
      BY DEF Idle
    <3> QED BY <3>1 DEF progress
  <2>2. \A c \in Clients : job[c] = Idle
    BY DEF Init
  <2>3. [c \in Clients |-> progress(job[c])] = [c \in Clients |-> "idle"]
    BY <2>1, <2>2
  <2> QED BY <2>3 DEF Init, Contract!Init
<1>2. Inv /\ [Next]_vars => [Contract!Next]_Contract!vars
  <2>. SUFFICES ASSUME Inv, [Next]_vars PROVE [Contract!Next]_Contract!vars
    OBVIOUS
  <2>1. ASSUME NEW c \in Clients, NEW r \in Requests, Start(c, r) PROVE Contract!Next
    BY <2>1, StartAsks DEF Contract!Next
  <2>2. ASSUME NEW c \in Clients, Commit(c) \/ CommitFails(c) \/ Reread(c) \/ Fail(c) PROVE Contract!Next
    BY <2>2, CommitIsApply, CommitFailsIsSeen, RereadTells, FailIsSeen DEF Contract!Next
  <2>3. ASSUME NEW c \in Clients,
               Fetch(c) \/ Before(c) \/ InsertRow(c) \/ InsertsDone(c) \/ UpdateRows(c) \/ DeleteRows(c) \/ After(c)
        PROVE  UNCHANGED Contract!vars \/ Contract!Next
    BY <2>3, WorkStep DEF Contract!Next
  <2>4. ASSUME UNCHANGED vars PROVE UNCHANGED Contract!vars
    BY <2>4 DEF vars, Contract!vars, progress
  <2> QED BY <2>1, <2>2, <2>3, <2>4 DEF Next
<1> QED BY Invariant, <1>1, <1>2, PTL DEF Spec, ImplementsContract, Contract!Spec
=============================================================================
