-------------------------------- MODULE Reads --------------------------------
(***************************************************************************)
(* The other fields that read a table: <table>_by_pk, <table>_aggregate,   *)
(* the total_count of a connection and <table>_nearest_by_<column>         *)
(* (addQueryFields of schema/builder.go, runAggregate of                   *)
(* schema/aggregate.go, runCount of schema/sqlgen.go, runNearest of        *)
(* schema/vector.go).  They share the conditions of ListField; the fields  *)
(* are there as far as the role reads the columns they need.               *)
(***************************************************************************)
EXTENDS ListField

CONSTANTS
  Ids,      \* arguments of <table>_by_pk
  Vector,   \* the vector column; a vector is an integer here
  To,       \* the vector that nearest is asked for
  NoRead    \* no root field was asked for yet

VARIABLE root   \* the root field that was read: [field, of, got]

\* A field has an answer, or fails like any other.
Answer(p, c, got) ==
  IF Refuses(args.where, p.columns) \/ FilterFails(p.filter, c) THEN {Failed} ELSE got

-----------------------------------------------------------------------------
(* The queries, as sets of answers.                                        *)

\* pkExposable: only if the role reads the key.
pkExposable(p) == Pk \in p.columns
ByPk(t, p, c, id) ==
  IF FilterFails(p.filter, c) THEN {Failed}
  ELSE {{r \in Matching(t, p, c, {}) : r[Pk] = id}}

runCount(t, p, c) == Answer(p, c, {Cardinality(Matching(t, p, c, args.where))})

\* SUM and MIN of a column leave NULL out; without any value they are NULL.
Values(rows, col) == {r \in rows : r[col] # Null}
SumOf(rows, col) ==
  IF Values(rows, col) = {} THEN Null ELSE MapThenSumSet(LAMBDA r : r[col], Values(rows, col))
MinOf(rows, col) ==
  IF Values(rows, col) = {} THEN Null ELSE Min({r[col] : r \in Values(rows, col)})

Aggregates(rows, columns) ==
  [count |-> Cardinality(rows),
   sum |-> [x \in columns |-> SumOf(rows, x)], min |-> [x \in columns |-> MinOf(rows, x)]]

\* (RowsOf is a mutant that forgets the filter of the role.)
RowsOf(t, p, c) == Matching(t, [p EXCEPT !.filter = NoFilter], c, args.where)
Aggregated(t, p, c) == Matching(t, p, c, args.where)
runAggregate(t, p, c) == Answer(p, c, {Aggregates(Aggregated(t, p, c), p.columns)})

\* runNearest: rows without a vector are left out, ties come in any order.
Distance(r) == IF r[Vector] > To THEN r[Vector] - To ELSE To - r[Vector]
Nearer(q) == \A i, j \in 1 .. Len(q) : i < j => Distance(q[i]) <= Distance(q[j])
runNearest(t, p, c) ==
  IF Limit(args) < 0 THEN {Failed}
  ELSE LET rows == {r \in Matching(t, p, c, args.where) : r[Vector] # Null}
       IN  Answer(p, c, {Page(q, [limit |-> Limit(args), offset |-> 0]) :
                           q \in {s \in SetToSeqs(rows) : Nearer(s)}})

-----------------------------------------------------------------------------
RootInit == Init /\ root = NoRead

\* No field at the root takes order_by or an offset.
Unread == answer = None /\ root = NoRead /\ args.order = <<>> /\ Offset(args) = 0

Read(field, of, answers) ==
  /\ Unread
  /\ \E got \in answers : root' = [field |-> field, of |-> of, got |-> got]
  /\ UNCHANGED vars

ReadByPk == pkExposable(role) /\ \E id \in Ids : Read("by_pk", id, ByPk(table, role, claim, id))
ReadCount == pkExposable(role) /\ Read("count", Null, runCount(table, role, claim))
ReadAggregate == Read("aggregate", Null, runAggregate(table, role, claim))
ReadNearest == Vector \in role.columns /\ Read("nearest", To, runNearest(table, role, claim))

ReadList == root = NoRead /\ Resolve /\ UNCHANGED root

ReadNext == ReadList \/ ReadByPk \/ ReadCount \/ ReadAggregate \/ ReadNearest

ReadSpec == RootInit /\ [][ReadNext]_<<vars, root>>

-----------------------------------------------------------------------------
(* Properties.                                                             *)

\* The rows that `where` finds among those that the claim lets through.
Granted ==
  {r \in table :
     /\ whereSQL(args.where, r) = "T"
     /\ role.filter # NoFilter =>
          LET x == r[role.filter.col]
          IN  x # Null /\ IF role.filter.op = "_in" THEN x \in claim ELSE {x, Null} \cap claim = {}}

Found(field) == root # NoRead /\ root.got # Failed /\ root.field = field

\* "the RBAC row filter is applied on every read path (connections, aggregates,
\* relationships, vector search)": each field answers about the rows that the
\* role is granted, all of them and no others; a missing or empty claim grants
\* none.
EveryPathFiltered ==
  /\ root # NoRead /\ role.filter # NoFilter /\ claim = NoClaim => root.got = Failed
  /\ LET rows == IF role.filter # NoFilter /\ claim = {} THEN {} ELSE Granted
     IN  /\ Found("count") => root.got = Cardinality(rows)
         /\ Found("aggregate") => root.got = Aggregates(rows, role.columns)
         /\ Found("nearest") =>
              LET shown == ToSet(root.got)
              IN  /\ shown \subseteq rows
                  /\ Len(root.got) <= MaxPage /\ Nearer(root.got)
                  /\ \A r \in rows \ shown : r[Vector] # Null =>
                       Len(root.got) = Limit(args) /\ \A s \in shown : Distance(s) <= Distance(r)
         /\ Found("by_pk") /\ args.where = {} => root.got = {r \in rows : r[Pk] = root.of}

\* What the role may know of a table: the rows that pass the filter, with the
\* columns it reads and those of `more`.
View(t, more) ==
  {<<r[Pk], [x \in role.columns \cup more |-> r[x]]>> : r \in Matching(t, role, claim, {})}

Shown(rows) == [i \in 1 .. Len(rows) |-> [x \in role.columns |-> rows[i][x]]]

\* The answers as the caller sees them: the columns that are selected.
Lists(t) ==
  {[k \in Parents |-> IF a[k] = Failed THEN <<>> ELSE Shown(a[k])] : a \in Answers(t, role, claim, args)}
Nearest(t) ==
  {IF a = Failed THEN <<>> ELSE Shown(a) : a \in runNearest(t, role, claim)}
Looked(t, id) ==
  {IF a = Failed THEN {} ELSE {[x \in role.columns |-> r[x]] : r \in a} : a \in ByPk(t, role, claim, id)}

\* "Only these columns exist in the role's object type, where, and order_by":
\* no argument of any field tells two tables apart that differ only in hidden
\* columns or in rows that the filter hides; a relationship shows in addition
\* under which parent a row is.
RoleSeesItsView ==
  answer = None /\ root = NoRead /\ claim # NoClaim =>
    \A other \in Tables :
      /\ View(other, {Joined}) = View(table, {Joined}) => Lists(other) = Lists(table)
      /\ View(other, {}) = View(table, {}) /\ Unread =>
           /\ runCount(other, role, claim) = runCount(table, role, claim)
           /\ runAggregate(other, role, claim) = runAggregate(table, role, claim)
           /\ Vector \in role.columns => Nearest(other) = Nearest(table)
           /\ pkExposable(role) => \A id \in Ids : Looked(other, id) = Looked(table, id)
=============================================================================
