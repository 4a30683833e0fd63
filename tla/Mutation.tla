------------------------------ MODULE Mutation ------------------------------
(***************************************************************************)
(* Generated mutations (addMutationFields of schema/builder.go, runInsert, *)
(* runUpdate, runDelete and execInTx of schema/sqlgen.go, schema/hooks.go).*)
(*                                                                         *)
(* Every mutation runs the before hooks, its statements and the after      *)
(* hooks in one transaction; insert_one and update_by_pk read the row      *)
(* again after the commit, delete_by_pk reads it before the transaction    *)
(* begins.  Between any two of these database calls other clients commit.  *)
(* The table's after hook writes an audit row for each row written, with   *)
(* the transaction it is handed.                                           *)
(***************************************************************************)
EXTENDS Integers, Sequences, FiniteSets

CONSTANTS
  Clients,
  Keys, Vals,       \* primary keys; the column that clients may write
  Absent,           \* no row
  AutoKey,          \* a key left to AUTO_INCREMENT
  DefaultKey,       \* a key that is left, as a whole or in part, to a default
  Claim,            \* Claim[c] is the claim that presets and filters use
  Sees,             \* Sees[c] is the set of rows the select filter lets through
  MayUpdate,        \* the update filter, likewise
  MayDelete,        \* the delete filter
  UpdatePreset,     \* UpdatePreset[c]: updates preset the owner column from the claim
  Requests,         \* mutations that clients send
  MaxRequests       \* bound on requests of one client

Row == [owner : {Claim[c] : c \in Clients}, val : Vals]

\* The arguments of a field: condition (by_pk or where), _set with the key if
\* the client sets it, and the objects to insert.
Op == {"insert", "insert_one", "update", "update_by_pk", "delete", "delete_by_pk"}
Object == [key : Keys \cup {AutoKey, DefaultKey}, val : Vals]
Request == [op : Op, keys : SUBSET Keys, vals : SUBSET Vals, set : Vals, to : Keys \cup {Absent},
            objects : Seq(Object)]

ASSUME RowAssumption ==
  /\ IsFiniteSet(Keys) /\ Absent \notin Row \cup Keys
  /\ AutoKey \notin Keys /\ DefaultKey \notin Keys \cup {AutoKey}
  /\ \A c \in Clients : Sees[c] \subseteq Row /\ MayUpdate[c] \subseteq Row /\ MayDelete[c] \subseteq Row
ASSUME RequestAssumption ==
  /\ Requests \subseteq Request /\ MaxRequests \in Nat
  /\ \A r \in Requests : r.op \in {"update_by_pk", "delete_by_pk"} => Cardinality(r.keys) = 1
  /\ \A r \in Requests : r.op = "insert_one" => Len(r.objects) = 1
  /\ \A r \in Requests : r.op \notin {"insert", "insert_one"} => r.objects = <<>>
  /\ \A r \in Requests : r.to # Absent => r.op \in {"update", "update_by_pk"}

VARIABLES
  db,        \* the table, as committed
  changes,   \* changes[k]: committed changes of key k so far
  audit,     \* audit[k]: audit rows for key k, as committed
  job        \* what every client's mutation is doing

vars == <<db, changes, audit, job>>

NoWrites == [k \in {} |-> Absent]

NoAnswer == [kind |-> "none", row |-> Absent, n |-> 0]
Idle == [pc |-> "idle", req |-> Absent, left |-> <<>>, seen |-> Absent, tx |-> NoWrites, n |-> 0,
         key |-> Absent, audited |-> FALSE, refused |-> FALSE, answer |-> NoAnswer, sent |-> 0,
         wrote |-> NoWrites, at |-> [k \in Keys |-> 0]]

-----------------------------------------------------------------------------
\* What the client's transaction sees: its own writes over the committed rows.
View(c) == [k \in Keys |-> IF k \in DOMAIN job[c].tx THEN job[c].tx[k] ELSE db[k]]

\* The row locks of the other transactions.
Locked(c, k) == \E d \in Clients \ {c} : k \in DOMAIN job[d].tx

\* writes over old.
Over(old, writes) == [k \in DOMAIN old \cup DOMAIN writes |-> IF k \in DOMAIN writes THEN writes[k] ELSE old[k]]

\* combineConds: the rows of t that meet the field's condition and the filter.
\* (TargetsUnfiltered is a mutant without the role's filter.)
TargetsUnfiltered(r, t, filter) == {k \in r.keys : t[k] # Absent /\ t[k].val \in r.vals}
Targets(r, t, filter) == {k \in r.keys : t[k] # Absent /\ t[k].val \in r.vals /\ t[k] \in filter}

\* mergedRowValues: the object, with the owner column preset from the claim.
Merged(c, o) == [owner |-> Claim[c], val |-> o.val]

\* setClause: the row with _set, and with the owner column preset.
Updated(c, row, val) == [owner |-> IF UpdatePreset[c] THEN Claim[c] ELSE row.owner, val |-> val]

\* The one row a by_pk field or insert_one reads back: the select filter
\* applies.  (VisibleToAll is a mutant without it.)
VisibleToAll(c, k, filter) == IF db[k] \in filter THEN db[k] ELSE Absent
Visible(c, k, filter) == IF db[k] \in Sees[c] \cap filter THEN db[k] ELSE Absent

\* The deferred Rollback ends whatever was not committed.  (AnsweredOpen is a
\* mutant that leaves the transaction open.)
AnsweredOpen(j, kind, row, n) ==
  [j EXCEPT !.pc = "answered", !.answer = [kind |-> kind, row |-> row, n |-> n]]
Answered(j, kind, row, n) ==
  [j EXCEPT !.pc = "answered", !.tx = NoWrites, !.answer = [kind |-> kind, row |-> row, n |-> n]]
Aborted(j) == Answered(j, "error", Absent, 0)
RowOrNull(j, row) == Answered(j, IF row = Absent THEN "null" ELSE "row", row, j.n)

Step(c, j) == job' = [job EXCEPT ![c] = j]
Reading == UNCHANGED <<db, changes, audit>>

-----------------------------------------------------------------------------
Init ==
  /\ db \in [Keys -> Row \cup {Absent}]
  /\ changes = [k \in Keys |-> 0]
  /\ audit = [k \in Keys |-> 0]
  /\ job = [c \in Clients |-> Idle]

\* The resolver is called.  Only delete_by_pk goes to the database before the
\* transaction does.
Start(c, r) ==
  /\ job[c].pc \in {"idle", "answered"} /\ job[c].sent < MaxRequests
  /\ Step(c, [Idle EXCEPT !.pc = IF r.op = "delete_by_pk" THEN "fetch" ELSE "before",
                          !.req = r, !.left = r.objects, !.sent = job[c].sent + 1])
  /\ Reading

\* No objects at all.
Nothing(r) == r.op = "insert" /\ r.objects = <<>>

\* "Fetch first (respecting select + delete filters), then delete."
Fetch(c) ==
  /\ job[c].pc = "fetch"
  /\ \E k \in job[c].req.keys :
       Step(c, [job[c] EXCEPT !.pc = "before", !.seen = Visible(c, k, MayDelete[c])])
  /\ Reading

\* "objects must not be empty"; then BeginTx and runBefore, whose hooks let the
\* mutation pass, or refuse it.
Before(c) ==
  /\ job[c].pc = "before"
  /\ \/ Nothing(job[c].req) /\ Step(c, Aborted(job[c]))
     \/ ~Nothing(job[c].req) /\ Step(c, [job[c] EXCEPT !.pc = "write"])
     \/ ~Nothing(job[c].req) /\ Step(c, [Aborted(job[c]) EXCEPT !.refused = TRUE])
  /\ Reading

\* One INSERT of runInsert; a key that exists fails the whole mutation.
\* AUTO_INCREMENT finds a key that is free, a default may give any.
\* (InsertSkips is a mutant that goes on after a failed INSERT.)
InsertKeys(c, o) ==
  CASE o.key = AutoKey -> {k \in Keys : db[k] = Absent /\ \A d \in Clients : k \notin DOMAIN job[d].tx}
    [] o.key = DefaultKey -> Keys
    [] OTHER -> {o.key}
Inserted(c, o, k) ==
  [job[c] EXCEPT !.left = Tail(@), !.tx = Over(@, [j \in {k} |-> Merged(c, o)]), !.n = @ + 1, !.key = k]

InsertSkips(c) ==
  LET o == Head(job[c].left) IN
  /\ job[c].pc = "write" /\ job[c].left # <<>>
  /\ \E k \in InsertKeys(c, o) :
       /\ ~Locked(c, k)
       /\ Step(c, IF View(c)[k] = Absent THEN Inserted(c, o, k) ELSE [job[c] EXCEPT !.left = Tail(@), !.n = @ + 1])
  /\ Reading
InsertRow(c) ==
  LET o == Head(job[c].left) IN
  /\ job[c].pc = "write" /\ job[c].left # <<>>
  /\ \E k \in InsertKeys(c, o) :
       /\ ~Locked(c, k)
       /\ Step(c, IF View(c)[k] = Absent THEN Inserted(c, o, k) ELSE Aborted(job[c]))
  /\ Reading

\* All objects are inserted.
InsertsDone(c) ==
  /\ job[c].pc = "write" /\ job[c].req.op \in {"insert", "insert_one"} /\ job[c].left = <<>>
  /\ Step(c, [job[c] EXCEPT !.pc = "after"])
  /\ Reading

\* The UPDATE: it waits for the locks on the rows it looks for, and a key that
\* it moves a row to must be free, and the row the only one.
UpdateRows(c) ==
  LET r == job[c].req
      hit == Targets(r, View(c), MayUpdate[c])
      moves == r.to # Absent /\ \E k \in hit : k # r.to
      set == [k \in hit |-> IF moves THEN Absent ELSE Updated(c, View(c)[k], r.set)]
      moved == [k \in {r.to} |-> Updated(c, View(c)[CHOOSE h \in hit : TRUE], r.set)]
  IN  /\ job[c].pc = "write" /\ r.op \in {"update", "update_by_pk"}
      /\ \A k \in hit \cup (IF moves THEN {r.to} ELSE {}) : ~Locked(c, k)
      /\ IF moves /\ (View(c)[r.to] # Absent \/ Cardinality(hit) > 1)
         THEN Step(c, Aborted(job[c]))
         ELSE Step(c, [job[c] EXCEPT !.pc = "after", !.n = Cardinality(hit),
                                     !.tx = Over(@, IF moves THEN Over(set, moved) ELSE set)])
      /\ Reading

\* The DELETE.
DeleteRows(c) ==
  LET r == job[c].req
      hit == Targets(r, View(c), MayDelete[c])
  IN  /\ job[c].pc = "write" /\ r.op \in {"delete", "delete_by_pk"}
      /\ \A k \in hit : ~Locked(c, k)
      /\ Step(c, [job[c] EXCEPT !.pc = "after", !.n = Cardinality(hit),
                                !.tx = Over(@, [k \in hit |-> Absent])])
      /\ Reading

\* runAfter: the hooks write their audit rows in the transaction, or refuse.
\* (AfterIgnored is a mutant that goes on when a hook refuses.)
AfterIgnored(c) ==
  /\ job[c].pc = "after"
  /\ \/ Step(c, [job[c] EXCEPT !.pc = "commit", !.audited = TRUE])
     \/ Step(c, [job[c] EXCEPT !.pc = "commit", !.refused = TRUE])
  /\ Reading
After(c) ==
  /\ job[c].pc = "after"
  /\ \/ Step(c, [job[c] EXCEPT !.pc = "commit", !.audited = TRUE])
     \/ Step(c, [Aborted(job[c]) EXCEPT !.refused = TRUE])
  /\ Reading

\* The rows of the transaction are committed.  wrote and at are kept for the
\* properties: the rows written, and the counts of changes.
Kept(c) == [job[c] EXCEPT !.wrote = job[c].tx, !.at = changes']
Applied(c) ==
  LET tx == job[c].tx IN
  /\ db' = View(c)
  /\ changes' = [k \in Keys |-> changes[k] + (IF k \in DOMAIN tx THEN 1 ELSE 0)]
  /\ audit' = [k \in Keys |-> audit[k] + (IF k \in DOMAIN tx /\ job[c].audited THEN 1 ELSE 0)]

\* insertedPKCond: the key to find an inserted row by is the one of the object
\* or that of AUTO_INCREMENT, and is not known if a default gave it.
insertedPKCond(j) == {k \in {j.key} : Head(j.req.objects).key # DefaultKey}

\* The field has a row to read again, and a condition to find it by.
ReadsAgain(j) ==
  \/ j.req.op = "insert_one" /\ insertedPKCond(j) # {}
  \/ j.req.op = "update_by_pk" /\ j.n > 0

\* What follows the commit: by_pk updates and insert_one read the row again, if
\* they can, delete_by_pk returns what it read before.
\* (DeletedAnyway is a mutant that returns it even if nothing was deleted.)
DeletedAnyway(j) ==
  CASE j.req.op = "delete_by_pk" -> RowOrNull(j, j.seen)
    [] OTHER -> Answered(j, "count", Absent, j.n)
Committed(j) ==
  CASE ReadsAgain(j) -> [j EXCEPT !.pc = "reread", !.tx = NoWrites]
    [] j.req.op \in {"insert_one", "update_by_pk"} /\ ~ReadsAgain(j) -> Answered(j, "null", Absent, 0)
    [] j.req.op = "delete_by_pk" -> RowOrNull(j, IF j.n = 0 THEN Absent ELSE j.seen)
    [] OTHER -> Answered(j, "count", Absent, j.n)

Commit(c) ==
  /\ job[c].pc = "commit"
  /\ Applied(c)
  /\ Step(c, Committed(Kept(c)))

\* The connection breaks in COMMIT: an error is returned, and the database has
\* applied the transaction or not.
CommitFails(c) ==
  /\ job[c].pc = "commit"
  /\ \/ Step(c, Aborted(job[c])) /\ Reading
     \/ Applied(c) /\ Step(c, Aborted(Kept(c)))

\* runSelect by the condition of the field: insertedPKCond or pkCond.
Reread(c) ==
  /\ job[c].pc = "reread"
  /\ \E k \in IF job[c].req.op = "insert_one" THEN insertedPKCond(job[c]) ELSE job[c].req.keys :
       Step(c, RowOrNull(job[c], Visible(c, k, Row)))
  /\ Reading

\* A statement fails, or the request times out: the transaction is rolled
\* back; after the commit, the read alone fails.
Fail(c) ==
  /\ job[c].pc \in {"fetch", "before", "write", "after", "reread"}
  /\ Step(c, Aborted(job[c]))
  /\ Reading

Next == \E c \in Clients :
  \/ \E r \in Requests : Start(c, r)
  \/ Fetch(c) \/ Before(c) \/ InsertRow(c) \/ InsertsDone(c) \/ UpdateRows(c) \/ DeleteRows(c)
  \/ After(c) \/ Commit(c) \/ CommitFails(c) \/ Reread(c) \/ Fail(c)

Spec == Init /\ [][Next]_vars

-----------------------------------------------------------------------------
Writes == UNION {[S -> Row \cup {Absent}] : S \in SUBSET Keys}
AnswerType == [kind : {"none", "count", "row", "null", "error"}, row : Row \cup {Absent}, n : Nat]
JobType ==
  [pc : {"idle", "fetch", "before", "write", "after", "commit", "reread", "answered"},
   req : Requests \cup {Absent}, left : Seq(Object), seen : Row \cup {Absent}, tx : Writes, n : Nat,
   key : Keys \cup {Absent}, audited : BOOLEAN, refused : BOOLEAN, answer : AnswerType, sent : Nat,
   wrote : Writes, at : [Keys -> Nat]]

\* Every variable has its type; two transactions never hold the same row, and
\* none outlives its mutation.
TypeOK ==
  /\ db \in [Keys -> Row \cup {Absent}]
  /\ changes \in [Keys -> Nat] /\ audit \in [Keys -> Nat]
  /\ job \in [Clients -> JobType]
  /\ \A c, d \in Clients : c # d => DOMAIN job[c].tx \cap DOMAIN job[d].tx = {}
  /\ \A c \in Clients : job[c].pc \notin {"write", "after", "commit"} => job[c].tx = NoWrites

answered(c, ops) == job[c].pc = "answered" /\ job[c].req.op \in ops

\* "They run inside the mutation's transaction: use ev.Tx to read/write
\* atomically with it (e.g. audit rows)": in every committed state the audit
\* rows are those of the committed changes, whatever failed on the way.
AuditTrail == audit = changes

\* The rows that writes are about: one that moves leaves a key and takes another.
Changed(r, w) == {k \in DOMAIN w : w[k] # Absent \/ r.op \in {"delete", "delete_by_pk"}}

\* A mutation is applied as a whole or not at all: the count it reports is the
\* number of rows it changed, and a hook that refuses it has rolled it back.
AllOrNothing ==
  \A c \in Clients :
    /\ answered(c, Op) /\ job[c].answer.kind = "count" => Cardinality(Changed(job[c].req, job[c].wrote)) = job[c].answer.n
    /\ job[c].refused => job[c].wrote = NoWrites

\* A default gave the inserted row its key.
KeyUnknown(r) == r.op = "insert_one" /\ Head(r.objects).key = DefaultKey

\* "insert_one and update_by_pk re-read the row through your select filter: if
\* the filter hides it, you get null back": they answer with the row they
\* wrote, or null if it is hidden, unless it has been changed since.  There are
\* two exceptions the documentation does not name: insert_one also answers null
\* for a row that the filter shows when a default gave its key, always, and
\* update_by_pk reads the old key of a row that it moved (which is left out
\* here, for another row may be there by then).
ReturnsWrittenRow ==
  \A c \in Clients : \A k \in DOMAIN job[c].wrote :
    /\ answered(c, {"insert_one", "update_by_pk"}) /\ job[c].answer.kind \in {"row", "null"}
    /\ k # job[c].req.to
    /\ job[c].wrote[k] # Absent /\ changes[k] = job[c].at[k]
    => job[c].answer.row = IF job[c].wrote[k] \in Sees[c] /\ ~KeyUnknown(job[c].req)
                           THEN job[c].wrote[k] ELSE Absent

\* delete_by_pk never shows a row to a client that did not delete it.
ReturnsOnlyDeleted ==
  \A c \in Clients :
    answered(c, {"delete_by_pk"}) /\ job[c].answer.kind = "row" =>
      DOMAIN job[c].wrote = job[c].req.keys /\ job[c].answer.row \in Sees[c]
-----------------------------------------------------------------------------
\* How far the contract sees a mutation.
Owns(c, r) == r.owner = Claim[c]
Turns(c, r, s) == s.owner = IF UpdatePreset[c] THEN Claim[c] ELSE r.owner

progress(j) ==
  CASE j.pc = "idle" -> "idle"
    [] j.pc = "reread" -> "applied"
    [] j.pc = "answered" -> IF j.answer.kind = "error" THEN "failed" ELSE "done"
    [] OTHER -> "asked"

Contract == INSTANCE MutationContract
              WITH rows <- db, trail <- audit, state <- [c \in Clients |-> progress(job[c])]

\* Whatever clients, statements and hooks are under way, a mutation is one step
\* of the table between its request and its answer, or none: who is answered
\* with anything but an error has had it.  update.filter and delete.filter are
\* "rows the role may touch", and presets are forced: at that step the filter
\* lets through every row it changes, the client owns every row it inserts, and
\* a row that it updates is its own or keeps its owner, as the presets say.
ImplementsContract == Contract!Spec
=============================================================================
