----------------------------- MODULE Dataloader -----------------------------
(***************************************************************************)
(* Relationship fields of one GraphQL request (schema/dataloader.go, the   *)
(* resolvers of schema/builder.go, runSelectByKeys of schema/sqlgen.go).   *)
(*                                                                         *)
(* A site is a relationship field at one place of the query document.  The *)
(* executor (graphql-go, outside src/) runs the resolver of a site for     *)
(* every parent row, which enqueues the parent's key in a loader and       *)
(* leaves a thunk; it fires thunks breadth first, and completing a value   *)
(* runs the resolvers of the selection below it.  Other clients write to   *)
(* the database between two queries of the request.                        *)
(***************************************************************************)
EXTENDS Integers, Sequences, FiniteSets

CONSTANTS
  Sites, Root,     \* relationship fields of the query; the list at the top
  Parent,          \* Parent[s] is the site s is selected below, or Root
  Depth,           \* Depth[s] is the nesting depth of s
  Rels,            \* relationships: a foreign key taken in one direction
  Rel,             \* Rel[s] is the relationship of s
  Dir, Name,       \* direction and constraint name of a relationship
  Args,            \* Args[s] is the signature of where, order_by, limit, offset
  ArgSigs,
  Keys, Null,      \* values of join columns
  Fold,            \* Fold[k] is k as the column's collation compares it
  Admits,          \* Admits[a] is the set of rows the arguments a let through
  RootKeys,        \* join values of the rows of the top list
  Databases,       \* states the tables may be in
  MaxWrites        \* bound on writes by other clients

\* at is the value of the join column on the far side, own the value the
\* relationships of the row itself start from.
Row == [rel : Rels, at : Keys, own : Keys \cup {Null}]
Thunk == [site : Sites, key : Keys]

ASSUME SiteAssumption ==
  /\ Root \notin Sites
  /\ Parent \in [Sites -> Sites \cup {Root}]
  /\ Depth \in [Sites -> Nat]
  /\ \A s \in Sites : Parent[s] \in Sites => Depth[s] = Depth[Parent[s]] + 1
  /\ Rel \in [Sites -> Rels] /\ Args \in [Sites -> ArgSigs]
ASSUME KeyAssumption == Null \notin Keys /\ RootKeys \subseteq Keys \cup {Null}
ASSUME RowAssumption ==
  /\ Admits \in [ArgSigs -> SUBSET Row]
  /\ Databases \subseteq SUBSET Row
  /\ MaxWrites \in Nat

VARIABLES
  hist,      \* states of the database since the request began; last is current
  loaders,   \* the request's loaderSet: a function on the keys in use
  thunks,    \* thunks not fired yet
  answers,   \* values returned so far
  queries    \* queries[l][d]: batches loader l sent while depth d was fired

vars == <<hist, loaders, thunks, answers, queries>>

-----------------------------------------------------------------------------
\* loaderKey: direction, constraint name and argument signature.
\* (LoaderWithoutArgs is a mutant that leaves the arguments out.)
LoaderWithoutArgs(s) == <<Dir[Rel[s]], Name[Rel[s]]>>
LoaderOf(s) == <<Dir[Rel[s]], Name[Rel[s]], Args[s]>>

LoaderKeys == {LoaderOf(s) : s \in Sites}

\* SQL equality of a join column with a bound key.
SqlEq(a, b) == Fold[a] = Fold[b]

\* runSelectByKeys: rows of the site's table matching any key of the batch.
SelectByKeys(s, batch, d) ==
  {r \in d \cap Admits[Args[s]] : r.rel = Rel[s] /\ \E k \in batch : SqlEq(r.at, k)}

\* The per-row query of the same field.
Direct(s, k, d) == SelectByKeys(s, {k}, d)

\* groupByColumns: rows grouped by the signature of their join column.
Group(rows, k) == {r \in rows : r.at = k}

\* The resolvers run on the rows a site returned: one per row and selected
\* relationship, none for a NULL join value.
Children(s, rows) ==
  {[site |-> c, key |-> r.own] : c \in {x \in Sites : Parent[x] = s},
                                 r \in {x \in rows : x.own # Null}}

\* newRelLoader, its loadFn closed over the site that asked first.
NewLoader(s) == [site |-> s, seen |-> {}, pending |-> {}, loaded |-> {},
                 byKey |-> [k \in Keys |-> {}], err |-> FALSE]

\* getOrCreate and enqueue for a set of resolvers.  Go ranges over field maps
\* in no order, so any of the sites that need a new loader may create it.
Keyed(ts, l) == {t.key : t \in {x \in ts : LoaderOf(x.site) = l}}

\* (EnqueueAlways is a mutant that forgets what was seen before.)
EnqueueAlways(l, ks) == [l EXCEPT !.seen = @ \cup ks, !.pending = @ \cup ks]
Enqueue(l, ks) == [l EXCEPT !.seen = @ \cup ks, !.pending = @ \cup (ks \ l.seen)]

Creators(ls, ts) ==
  LET new == {LoaderOf(t.site) : t \in ts} \ DOMAIN ls
  IN  {f \in [new -> {t.site : t \in ts}] : \A l \in new : LoaderOf(f[l]) = l}

Resolved(ls, ts, creator) ==
  [l \in DOMAIN ls \cup DOMAIN creator |->
     Enqueue(IF l \in DOMAIN ls THEN ls[l] ELSE NewLoader(creator[l]), Keyed(ts, l))]

\* Mutant of fetch: one query per key.
FlushOne(l, k, d) ==
  LET rows == SelectByKeys(l.site, {k}, d)
  IN  [l EXCEPT !.pending = @ \ {k}, !.loaded = @ \cup {k}, !.byKey[k] = Group(rows, k)]

\* relLoader.fetch on the first access to an unloaded key: every pending key
\* goes in one query over the current database.
Flush(l, k, d) ==
  LET rows == SelectByKeys(l.site, l.pending, d)
  IN  [l EXCEPT !.pending = {}, !.loaded = @ \cup l.pending,
                !.byKey = [x \in Keys |-> IF Group(rows, x) # {} THEN Group(rows, x) ELSE @[x]]]

\* The query failed: the error is sticky, and the pending keys are gone.
\* (FlushForgotten is a mutant whose error is not sticky.)
FlushForgotten(l) == [l EXCEPT !.pending = {}, !.err = FALSE]
FlushFailed(l) == [l EXCEPT !.pending = {}, !.err = TRUE]

NeedsFlush(l, k) == k \notin l.loaded /\ l.pending # {}

-----------------------------------------------------------------------------
current == hist[Len(hist)]

RootThunks == {[site |-> s, key |-> k] : s \in {x \in Sites : Parent[x] = Root}, k \in RootKeys \ {Null}}

NoQueries == [l \in LoaderKeys |-> [d \in {Depth[s] : s \in Sites} |-> 0]]

\* The top list has been read and the resolvers of its rows have run.
Init ==
  /\ \E d \in Databases : hist = <<d>>
  /\ thunks = RootThunks
  /\ \E creator \in Creators(<<>>, RootThunks) : loaders = Resolved(<<>>, RootThunks, creator)
  /\ answers = {}
  /\ queries = NoQueries

\* Another client commits a write.
Write == \E d \in Databases :
  /\ Len(hist) <= MaxWrites
  /\ hist' = Append(hist, d)
  /\ UNCHANGED <<loaders, thunks, answers, queries>>

\* The executor fires thunks level by level.
Shallowest(t) == \A u \in thunks : Depth[t.site] <= Depth[u.site]

Counted(t) == [queries EXCEPT ![LoaderOf(t.site)][Depth[t.site]] = @ + 1]

Return(t, rows) ==
  answers' = answers \cup {[site |-> t.site, key |-> t.key, ok |-> TRUE, rows |-> rows]}

ReturnError(t) ==
  /\ answers' = answers \cup {[site |-> t.site, key |-> t.key, ok |-> FALSE, rows |-> {}]}
  /\ thunks' = thunks \ {t}

\* The rows of t's key are returned and the resolvers below them run, with
\* ls the loaders after the flush, if there was one.
Complete(t, ls) ==
  LET rows == ls[LoaderOf(t.site)].byKey[t.key]
      below == Children(t.site, rows)
  IN  /\ Return(t, rows)
      /\ thunks' = (thunks \ {t}) \cup below
      /\ \E creator \in Creators(ls, below) : loaders' = Resolved(ls, below, creator)

\* The loader failed before, or its batch is already there.
FireCached(t) ==
  LET l == loaders[LoaderOf(t.site)]
  IN  /\ Shallowest(t)
      /\ \/ l.err /\ ReturnError(t) /\ UNCHANGED loaders
         \/ ~l.err /\ ~NeedsFlush(l, t.key) /\ Complete(t, loaders)
      /\ UNCHANGED <<hist, queries>>

\* The first thunk of a wave sends the batch.
FireBatch(t) ==
  LET l == loaders[LoaderOf(t.site)]
  IN  /\ Shallowest(t)
      /\ ~l.err /\ NeedsFlush(l, t.key)
      /\ Complete(t, [loaders EXCEPT ![LoaderOf(t.site)] = Flush(l, t.key, current)])
      /\ queries' = Counted(t)
      /\ UNCHANGED hist

\* The batch fails: database error or request timeout.
FireFailing(t) ==
  LET l == loaders[LoaderOf(t.site)]
  IN  /\ Shallowest(t)
      /\ ~l.err /\ NeedsFlush(l, t.key)
      /\ ReturnError(t)
      /\ loaders' = [loaders EXCEPT ![LoaderOf(t.site)] = FlushFailed(l)]
      /\ queries' = Counted(t)
      /\ UNCHANGED hist

Fire(t) == FireCached(t) \/ FireBatch(t) \/ FireFailing(t)

Next == Write \/ \E t \in thunks : Fire(t)

Spec == Init /\ [][Next]_vars

-----------------------------------------------------------------------------

\* Batching is never a correctness compromise: a value returned for a parent
\* is what the field's own query gives for that parent, over a state of the
\* database since the request began, whatever was batched, deduplicated,
\* reused from another depth or failed in between.
Contract == INSTANCE RelationContract WITH States <- Databases

AnswersAreDirect == Contract!Spec

\* Inside one request a loader never contradicts itself: the same field asked
\* for the same parent at two depths shows the same rows, writes in between
\* or not.
Repeatable ==
  \A a, b \in answers :
    a.ok /\ b.ok /\ LoaderOf(a.site) = LoaderOf(b.site) /\ a.key = b.key => a.rows = b.rows

\* "2 queries, not N+1": a loader sends at most one batch per nesting depth.
OneQueryPerWave == \A l \in LoaderKeys : \A d \in DOMAIN queries[l] : queries[l][d] <= 1

\* A failed batch fails every field that waits for it: no parent is shown
\* without children because the query for them failed.
NothingLostSilently ==
  \A a \in answers : a.ok => a.key \in loaders[LoaderOf(a.site)].loaded

=============================================================================
