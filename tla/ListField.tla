------------------------------ MODULE ListField ------------------------------
(***************************************************************************)
(* A to-many relationship field with its arguments: posts { comments(where,*)
(* order_by, limit, offset) } (whereSQL, columnCond, rbacCond,             *)
(* orderColumns, pageBounds, applyPage, runSelect and runSelectByKeys of   *)
(* schema/sqlgen.go; Filter.SQL of rbac/rbac.go).                          *)
(*                                                                         *)
(* The rows come from one query per parent when the role cannot read the   *)
(* join column, and from one windowed query for all parents when it can.   *)
(* SQL leaves the order of rows that compare equal open: an answer is one  *)
(* of a set.  One behaviour is one request over one table.                 *)
(***************************************************************************)
EXTENDS Integers, SequencesExt

CONSTANTS
  Columns, Pk,     \* columns of the child table; its primary key
  Joined,          \* its foreign key column
  Null,
  Tables,          \* contents the table may have
  Roles,           \* [columns, filter]: select permissions
  NoFilter,        \* a role without select.filter
  Claims, NoClaim, \* values of the claim that filters use, arrays as sets; no such claim
  Wheres, Orders,  \* `where` arguments and what is nested in them; `order_by` arguments
  Limits, Offsets, \* `limit` and `offset` arguments
  Left,            \* an argument left out
  Default, MaxPage,\* schema_gen: default_page_size, max_page_size
  Parents,         \* keys of the parent rows
  Failed           \* the field is answered with an error

Rows == [Columns -> Int \cup {Null}]
Args == [where : Wheres, order : Orders, limit : Limits, offset : Offsets]

ASSUME ListFieldAssumption ==
  /\ {Pk, Joined} \subseteq Columns
  /\ \A t \in Tables : /\ t \subseteq Rows /\ IsFiniteSet(t)
                       /\ \A r, s \in t : r[Pk] = s[Pk] => r = s
  /\ Limits \cup Offsets \subseteq Int \cup {Left} /\ Left \notin Int
  /\ Default \in Nat /\ MaxPage \in Nat
  /\ Orders \subseteq Seq([col : Columns, desc : BOOLEAN])
  /\ Failed \notin Seq(Rows) /\ \A t \in Tables : \A rows \in SUBSET t : rows # Failed
  /\ \A p \in Roles : /\ p.columns \subseteq Columns
                      /\ p.filter # NoFilter => p.filter.col \in Columns /\ p.filter.op \in {"_in", "_nin"}

\* A bool_exp is a set of entries [op, col, list, sub] that nests others in
\* `sub`, and has a bottom: JSON that a client sent.
Operators == {"_and", "_or", "_not"}
Comparisons == {"_is_null", "_not_null", "_eq", "_in", "_neq", "_nin", "_gt"}
ASSUME WhereAssumption ==
  /\ {} \in Wheres
  /\ \A exp \in Wheres : \A e \in exp : e.op \in Operators \cup Comparisons /\ e.sub \subseteq Wheres
  /\ \A S \in SUBSET Wheres : S # {} => \E exp \in S : \A e \in exp : e.sub \cap S = {}

VARIABLES
  table,    \* the child table
  role,     \* the role of the caller
  claim,    \* the claim in the caller's token
  args,     \* the arguments of the field
  answer    \* what each parent was answered with: rows, or Failed

vars == <<table, role, claim, args, answer>>

-----------------------------------------------------------------------------
(* SQL conditions are true, false or unknown.                              *)

SqlAnd(vs) == IF "F" \in vs THEN "F" ELSE IF "U" \in vs THEN "U" ELSE "T"
SqlNot(v) == CASE v = "T" -> "F" [] v = "F" -> "T" [] OTHER -> "U"
SqlOr(vs) == SqlNot(SqlAnd({SqlNot(v) : v \in vs}))
SqlTruth(b) == IF b THEN "T" ELSE "F"
SqlIn(x, list) ==
  IF x # Null /\ x \in list THEN "T" ELSE IF Null \in list \cup {x} THEN "U" ELSE "F"

\* columnCond: an empty _in matches nothing, an empty _nin everything.
columnCond(op, x, list) ==
  CASE op = "_is_null" -> SqlTruth(x = Null)
    [] op = "_not_null" -> SqlTruth(x # Null)
    [] op \in {"_eq", "_in"} -> IF list = {} THEN "F" ELSE SqlIn(x, list)
    [] op \in {"_neq", "_nin"} -> IF list = {} THEN "T" ELSE SqlNot(SqlIn(x, list))
    [] op = "_gt" -> IF x = Null THEN "U" ELSE SqlTruth(\A v \in list : x > v)

\* whereSQL.  Empty _and and _or are skipped.
whereSQL(exp, r) ==
  LET truth[x \in Wheres] ==
        LET sub(e) == {truth[y] : y \in e.sub}
            part(e) == CASE e.op = "_and" -> SqlAnd(sub(e))
                         [] e.op = "_or" -> IF e.sub = {} THEN "T" ELSE SqlOr(sub(e))
                         [] e.op = "_not" -> SqlNot(SqlAnd(sub(e)))
                         [] OTHER -> columnCond(e.op, r[e.col], e.list)
        IN  SqlAnd({part(e) : e \in x})
  IN  truth[exp]

\* What whereSQL refuses: a column that the role does not read, and null
\* where a value is compared.  (Unknown is a mutant that refuses only columns
\* that the table does not have.)
Unknown(e, columns) == e.col \notin Columns
Unreadable(e, columns) == e.col \notin columns

Refuses(exp, columns) ==
  LET refused[x \in Wheres] ==
        \E e \in x :
          IF e.op \in Operators
            THEN \E y \in e.sub : refused[y]
            ELSE Unreadable(e, columns) \/ (e.op \in {"_eq", "_neq", "_gt"} /\ e.list = {})
  IN  refused[exp]

\* Filter.SQL: an empty array is bound as NULL.  (BoundAsIs is a mutant that
\* binds nothing, as an empty _in of a client does.)
BoundAsIs(c) == c
Bound(c) == IF c = {} THEN {Null} ELSE c

FilterFails(f, c) == f # NoFilter /\ c = NoClaim
rbacCond(f, c, r) == IF f = NoFilter THEN "T" ELSE columnCond(f.op, r[f.col], Bound(c))

\* combineConds.
Matching(t, p, c, exp) ==
  {r \in t : SqlAnd({whereSQL(exp, r), rbacCond(p.filter, c, r)}) = "T"}

-----------------------------------------------------------------------------
(* Order and pages.                                                        *)

\* NULL sorts before every value.
Precedes(x, y) == (x = Null /\ y # Null) \/ (x # Null /\ y # Null /\ x < y)

\* orderColumns: a sequence of [col, desc]; r comes before s.
Before(r, s, order) ==
  \E i \in 1 .. Len(order) :
    LET o == order[i]
    IN  /\ \A j \in 1 .. (i - 1) : r[order[j].col] = s[order[j].col]
        /\ IF o.desc THEN Precedes(s[o.col], r[o.col]) ELSE Precedes(r[o.col], s[o.col])

\* ORDER BY: every sequence of the rows that respects the order.
Sorted(rows, order) ==
  {q \in SetToSeqs(rows) : \A i, j \in 1 .. Len(q) : i < j => ~Before(q[j], q[i], order)}

\* windowOrder: order_by, or the primary key.
windowOrder(order) == IF order # <<>> THEN order ELSE <<[col |-> Pk, desc |-> FALSE]>>

\* pageBounds.
Limit(a) ==
  LET asked == IF a.limit = Left THEN Default ELSE a.limit
  IN  IF asked > MaxPage THEN MaxPage ELSE asked
Offset(a) == IF a.offset = Left THEN 0 ELSE a.offset
BadPage(a) == Limit(a) < 0 \/ Offset(a) < 0

\* LIMIT and OFFSET of a query; applyPage does the same in memory.
Page(q, a) ==
  LET rest == SubSeq(q, Offset(a) + 1, Len(q))
  IN  IF Len(rest) > Limit(a) THEN SubSeq(rest, 1, Limit(a)) ELSE rest

\* The field fails before any query, or the filter cannot be bound.
Fails(p, c, a) ==
  \/ BadPage(a)
  \/ Refuses(a.where, p.columns)
  \/ \E i \in 1 .. Len(a.order) : a.order[i].col \notin p.columns
  \/ FilterFails(p.filter, c)

-----------------------------------------------------------------------------
(* The two ways to read the children of a parent, as sets of answers.      *)

ChildrenOf(k, rows) == {r \in rows : r[Joined] = k}

\* runSelect with the join as a condition.
runSelect(t, p, c, a, k) ==
  {Page(q, a) : q \in Sorted(ChildrenOf(k, Matching(t, p, c, a.where)), a.order)}

\* How many rows the window keeps of each parent; 0 leaves it out.
\* (PageOnly is a mutant that forgets the offset.)
PageOnly(a) == Limit(a)
perKeyLimit(a) == Limit(a) + Offset(a)

\* ROW_NUMBER() ... <= perKeyLimit: the rows of parent k the window may keep.
Window(rows, a, k) ==
  IF perKeyLimit(a) = 0 THEN {ChildrenOf(k, rows)}
  ELSE {{q[i] : i \in {j \in 1 .. Len(q) : j <= perKeyLimit(a)}} :
          q \in Sorted(ChildrenOf(k, rows), windowOrder(a.order))}

\* runSelectByKeys: the windows of all parents, in one order.
runSelectByKeys(t, p, c, a) ==
  LET rows == Matching(t, p, c, a.where)
      kept == {f \in [Parents -> SUBSET rows] : \A k \in Parents : f[k] \in Window(rows, a, k)}
  IN  UNION {Sorted(UNION {f[k] : k \in Parents}, a.order) : f \in kept}

\* groupByColumns: the rows one after the other, each to the end of its group.
groupByColumns(q) ==
  LET groups[n \in 0 .. Len(q)] ==
        IF n = 0 THEN [k \in Parents |-> <<>>]
        ELSE [groups[n - 1] EXCEPT ![q[n][Joined]] = Append(@, q[n])]
  IN  groups[Len(q)]
Grouped(q, a) == [k \in Parents |-> Page(groupByColumns(q)[k], a)]

\* columnsReadable decides which way is taken.
Batchable(p) == Joined \in p.columns

Answers(t, p, c, a) ==
  IF Fails(p, c, a) THEN {[k \in Parents |-> Failed]}
  ELSE IF Batchable(p) THEN {Grouped(q, a) : q \in runSelectByKeys(t, p, c, a)}
  ELSE {f \in [Parents -> UNION {runSelect(t, p, c, a, k) : k \in Parents}] :
          \A k \in Parents : f[k] \in runSelect(t, p, c, a, k)}

-----------------------------------------------------------------------------
None == [k \in Parents |-> <<>>]

Init ==
  /\ table \in Tables /\ role \in Roles /\ claim \in Claims \cup {NoClaim}
  /\ args \in Args
  /\ answer = None

Resolve ==
  /\ answer = None
  /\ answer' \in Answers(table, role, claim, args)
  /\ UNCHANGED <<table, role, claim, args>>

Next == Resolve

Spec == Init /\ [][Next]_vars

-----------------------------------------------------------------------------
Rowed(k) == answer[k] # Failed /\ answer[k] # <<>>

\* select.filter is "appended to every read; an empty array matches nothing; a
\* missing claim is an error, never no filter": whatever `where` combines, every
\* row shown belongs to its parent and is one the claim lets through.  Whatever
\* limit was asked for, no parent has more rows than max_page_size.
RowsPermitted ==
  \A k \in Parents : Rowed(k) =>
    Len(answer[k]) <= MaxPage /\ \A i \in 1 .. Len(answer[k]) :
      LET r == answer[k][i] f == role.filter
      IN  /\ r[Joined] = k
          /\ f # NoFilter =>
               /\ claim \notin {NoClaim, {}} /\ r[f.col] # Null
               /\ IF f.op = "_in" THEN r[f.col] \in claim ELSE {r[f.col], Null} \cap claim = {}

\* The batched query is "never a correctness compromise": what it gives a
\* parent, windows, ties and NULLs included, is a possible answer of the query
\* for that parent alone.
BatchedIsDirect ==
  answer # None => \A k \in Parents :
    IF Fails(role, claim, args) THEN answer[k] = Failed
    ELSE answer[k] \in runSelect(table, role, claim, args, k)
=============================================================================
