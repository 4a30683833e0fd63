# TitaniumGraphAPI in TLA+

Specifications, model checking and proofs for gqlgate, the gateway in this
repository: one Go process that reads a YAML file, introspects a MySQL-compatible
database (TiDB), generates a GraphQL schema per role and answers requests with
SQL. Paths below are relative to `src/`. The definition-by-definition relation to
the source is the `map` of `PROJECT.json`; this file explains it.

    tlasany M.tla                      parse a module
    tlc -workers 2 -config X.cfg M     check a run (the runs are listed below)
    tlapm --threads 4 M.tla            check the proofs of M

## 1. The system

| part | state | operations | interacts with |
|---|---|---|---|
| **Gate** (`gqlgate.go`) | `staticCfg` (settings of the start), `state` (an atomic pointer to the generation: verifier and schemas), `reloadMu`, the watcher's last stamp | `Run`, `openWithRetry`, `Open`, `Reload`, `watchConfig`, `ListenAndServe`, `SignToken` | reads the file, introspects the database, replaces the generation under requests |
| **HTTP server** (`server/`) | none of its own; each request keeps the generation it read | `execute`, depth check | Gate (snapshot), Verifier, schemas |
| **Authentication** (`auth/`) | the Verifier of a generation; the role cache of its resolver | `Identify`, role lookup | database, hot reload |
| **Roles** (`rbac/`) | none (an `Access` per role and generation) | `Resolve`, `Filter.SQL`, presets | schema generation, every SQL statement |
| **Schema** (`schema/builder.go`, `sqlgen.go`) | none between requests | list, by-pk, connection, aggregate fields; insert, update, delete | pool, hooks |
| **Names** (`schema/builder.go`) | none | `checkNameCollisions`, `graphqlName`, the names of `buildRole` | catalog and roles, at each build |
| **Depth limit, aggregates** (`server/depth.go`, `schema/aggregate.go`) | the memo of one scan | `checkDepth`; `flattenFields`, `collectAggSelections`, `runAggregate` | the parsed document, fragments included |
| **Loaders** (`schema/dataloader.go`) | `loaderSet` of one request: seen, pending, loaded and answered keys | `getOrCreate`, `enqueue`, `fetch` | the executor of graphql-go, which decides when thunks fire |
| **Cursors** (`schema/cursor.go`) | held by clients, not by the gateway | `encodeCursor`, `decodeCursor` | keyset queries |
| **Hooks** (`schema/hooks.go`, `register/`, `hooks/`) | the registry, filled by `init` functions | before and after hooks in the transaction of a mutation | mutations, buildState |
| **Introspection** (`introspect/`) | the catalog of a generation | `Load` | seeder and migrations, which change the database meanwhile |
| **Configuration** (`config/`) | none | `Load`, `validate` | Gate |
| **Command, seeder** (`cmd/`, `example/seed/`) | none | flags; creating and filling the demo tables | the startup wait |

What makes the code hard to test is never inside one function:

* *Reload.* The file, the catalog and the served generation change
  independently; the watcher and embedding hosts reload concurrently; a request
  uses its generation over several steps.
* *Startup.* An attempt is many queries, the seeder works between them, and which
  error is worth another attempt is read off its text.
* *Relationships.* Whether two fields share a query depends on loader keys; what is
  in a batch depends on the order in which the executor fires thunks.
* *Pages.* Each page is a query of its own over a table that others write, under a
  configuration that a reload may have changed, from a cursor that the client keeps.
* *Mutations.* Reads before and after the transaction see other transactions' work;
  failures come between any two statements, and in the commit itself.
* *Role cache.* The mutex is released between lookup and store.
* *List arguments.* Three-valued logic, NULLs, ties, windows and an in-memory page
  have to add up to the plain query.

`hazards` in `PROJECT.json` has each of these at its line.

## 2. The modules

| module | models | abstract view |
|---|---|---|
| `GateReload` | Run, Open, Reload, watchConfig, execute up to the schema lookup | implements `GateContract` |
| `Access` | `rbac.Resolve` and `resolveOp`: what a role is granted over a catalog | |
| `Names` (extends `Access`) | `checkNameCollisions`, and the names that the schema of a role is built from | |
| `Startup` (extends `Names`) | openWithRetry, introspection and buildState against database and seeder | |
| `QueryDepth` | `checkDepth` with its memo, as a stack machine | the depth of the unfolded document |
| `Document` (extends `QueryDepth`) | one request's document: depth check, then the aggregates it selects | what a client reads as selected |
| `Dataloader` | relationship resolvers and loaders of one request | implements `RelationContract` |
| `ListField` | arguments of one relationship list, batched and not | `runSelect` is the reference of `runSelectByKeys` |
| `Reads` (extends `ListField`) | by_pk, total_count, aggregate and nearest fields | rows granted by the filter |
| `KeysetPages` | connections, cursors, writers and reloads | |
| `Mutation` | the six mutations as transactions with hooks | implements `MutationContract` |
| `RoleCache` | the identity-table resolver and its cache | |
| `*Proofs` | theorems about `GateReload`, `Startup`, `Document`, `Dataloader`, `Reads` (with `ListField`), `KeysetPages`, `Mutation`, `RoleCache` | |
| `MC*` | values of the constants for the runs | |

**GateReload.** The file's history is `log`, the catalog's is `ddl`; a *version* is an
index in them, and the last entry is what is on disk. A generation is the pair of
versions it was built from, so "older" and "fresh" can be said at all. The file
stamp (mtime and size) tells versions apart. The actions `ReloadLock`,
`ReloadLoad`, `ReloadIntrospect` and `ReloadStore` are the steps of `Reload` between
which something else can happen: mutex, `config.Load` with `reloadCompatible`,
`introspect.Load`, and the rest of `buildState` with `state.Store` and the deferred
unlock. `BuildOutcomes` is the list of the ways a build ends, a panic over a role
without a body included. `WatchStart`, `WatchTick`, `WatchRestamp` are the watcher
goroutine; `ReqArrive` to `ReqEnd` one HTTP request, which reads the generation
once. `Cancel` and `Exit` are the shutdown. `GateContract` says of all this only
that entries of the history are served, never an earlier one after a later one,
and only ones that can be served by this process.

**Access, Names, Startup.** A catalog maps tables to columns with a name, a kind and
whether they are in the primary key; the rules of a role map tables or `*` to what
each operation allows. `Resolve` gives the columns and presets that are granted.
A GraphQL name is a sequence of words, so that `users_one` the table and the `one`
of `insert_users_one` can meet; `Words` gives the words of each identifier, which
is where sanitizing enters. `Claimed` is what `checkNameCollisions` reserves, without
looking at any role; `OfAccess` and `Columns` are what `buildRole` and its helpers
define for one role, with the conditions of the code (a readable key, a settable
column, a readable vector). That the first suffices for the second is the property
`OneNameOneThing`. In `Startup`, `Ping`, `ListTables`, `LoadColumns` (one query per table,
any order), `Loaded`, `Build` and `Lookup` are the steps of one attempt; the seeder of an
earlier run's schema drops it first and creates its tables one after the other
meanwhile (`Seed`), so the catalog that `Load` reads may be of no moment. `RoleOutcome` is
how building a role ends, `BuildOutcomes` allows for any order of the roles, as Go's map gives
it; custom fields are the names of queries and mutations that `addCustomFields` refuses if they are
taken. `Lookup` is `validateRoleLookup`: an identity table that is absent is waited for, one that
lacks a required column is a final error; a table has all its columns from the statement that makes
it. `Retry` is `isNotReady` with the deadline, `Wake` the end of the pause.

**QueryDepth, Document.** The selection sets of a document are numbered, a fragment
names one. The recursion of `depthOfSet` is `stack`; a frame has the set, the place in
it, the best depth so far and what the caller adds. `fragDepth` is the memo and
`computing` the mark against cycles; both outlive an operation, as in the code. `walks`
counts how often each set is entered: an observation, the code has no such variable.
`Depth` is the reference, the depth of the document with its fragments unfolded; it has a value
where no set reaches itself (`Acyclic`), and `TooDeep` says what must be refused.
`Document` adds the step that follows an accepted document of the aggregate field:
`flattenFields`, a recursive function over the selection sets, and `collectAggSelections` over the
fields that the executor has merged. `Selected` is the reference, without order: the fields in the
least set of selection sets that is closed under fragments (`Reach`).

**Dataloader.** A *site* is a relationship field at a place in the query.
`LoaderOf` is `loaderKey`; `Resolved` is `getOrCreate` and `enqueue` for the resolvers
that ran, in any order, as Go maps give it; `FireCached`, `FireBatch`, `FireFailing`
are a thunk calling `fetch`. The loader function is closed over the site that
created the loader, as in the code. Thunks fire level by level: that is what
graphql-go's breadth-first completion does, and the one thing taken from outside
`src/`. `RelationContract` promises that each value returned is the answer of the
field's own query over some state since the request began, or an error.

**ListField, Reads.** One step answers one field for all its parents, or one root
field. `whereSQL`, `columnCond`, `rbacCond`, `combineConds`, `orderColumns`, `pageBounds`,
`runSelect`, `runSelectByKeys`, `runCount`, `runAggregate`, `runNearest` are operators with
the names of the code; SQL is three-valued, and an ORDER BY with ties gives a *set* of
possible answers. A `where` argument is a set of entries [op, col, list, sub], of which `_and`,
`_or` and `_not` nest others from the set `Wheres`; nesting has a bottom, as JSON has
(`WhereAssumption`), so `whereSQL` and `Refuses` are recursive functions over `Wheres`. A row
filter is IN or NOT IN over a claim, which may hold NULL. `groupByColumns` is the loop of the code,
one row after the other. LIKE, REGEXP and JSON operators are conditions on a value like any other and left
out; a vector is a number, the distance its difference.

**KeysetPages.** `Page` is the connection resolver: page size, cursor test,
`runKeysetPage` with one row more than the page, `has_next_page`, `end_cursor`. A key
goes to text and back through `Text` and `Seek`, which need not be inverse: that is
how the conversion of key values enters. `Begin` may use a cursor that another walk
was given. `Put`, `Remove` and `Reload` happen between any two pages.

**Mutation.** The actions follow one mutation through `delete_by_pk`'s first read,
`BeginTx` and before hooks, each INSERT or the UPDATE or DELETE, after hooks, COMMIT,
and the read of `insert_one` and `update_by_pk`. Transactions hold the locks of the
rows they wrote; a statement waits for them, and each reads the latest committed
rows it does not own, as locking statements of the database do. `CommitFails` is a
connection that breaks in COMMIT with either outcome. An insert may leave its key to AUTO_INCREMENT
or, as a whole or in part, to a default: then `insertedPKCond` has no condition to read the row by
(`ReadsAgain`). An update may set the key itself, and forces the presets of the role; a condition
of several rows that would move to one key fails, and so does an empty list of objects. Keys are stored
as they were given. The after hook is the audit hook
of the documentation, which uses the transaction it is handed. `MutationContract` has none of
this: there a mutation is asked for, applied in one step with its audit rows, and answered, or given
up; `Permits` says which rows a client may change in that step, and `progress` how far the contract
sees a mutation of the code.

**RoleCache.** `Lookup`, `Query` and `Store` are the three parts of the resolver that
the mutex does not hold together; the cache belongs to the resolver of a
generation (`epoch`), so that a request may store in a cache that has been replaced.
`cache_seconds` is a function of the epoch: a reload may change it.

## 3. The runs

| run | module | what is asked | distinct states |
|---|---|---|---|
| `gate_safe` | GateReload | soundness, freshness, monotonicity, the contract | 1.9 M |
| `gate_live` | GateReload | edits the watcher can notice are served; Reload returns | 52 thousand |
| `gate_everyedit` | GateReload | *violated:* every edit is served | |
| `startup_window` | Startup | no name for two things; checked before served; the window; serves in the end | 260 thousand |
| `loader_same` | Dataloader | the contract, repeatable answers, one query per wave, failures shown | 18 thousand |
| `loader_names` | Dataloader | *violated:* the contract, for constraints of one name | |
| `list_arguments` | Reads | permitted rows only, nothing of hidden data, batched as direct, every read path filtered | 77 thousand |
| `documents` | Document | no set walked twice, the depth of the unfolded document, the aggregates selected | 199 thousand |
| `aggregates` | Document | *violated:* all columns selected of a function are computed | |
| `pages_walks` | KeysetPages | ascending, complete, advancing, bound and finite walks | 153 thousand |
| `mutation_mixed` | Mutation | the contract (one permitted step or none), audit trail, all or nothing, answers | 245 thousand |
| `roles` | RoleCache | bounded staleness, freshness without cache | 2.9 M |

*Bounds, and why they suffice.*

* `gate_safe`: 7 contents of the file (a good one, one with another role set, another signing
  key and role lookup, one per way to refuse or break), one edit after the first content, one
  migration that takes the only table away or brings it, the watcher and one host, one request. Overtaking needs two callers and
  two versions; a mixed generation needs one request over one reload. More edits
  repeat the same race, and the theorems hold for any number.
* `gate_live`, `gate_everyedit`: two tables, so that a configuration may name one that is not
  there; two edits, no migration, so that one can be lost and
  another one notices. In the first a host competes for the mutex.
* `startup_window`: nine schemas of two tables: plain ones, one without a key, one without
  numbers, one with a generated column, and five with a collision (two columns, two tables,
  a table and a mutation, a table and a vector field, a table and a built-in type). Six
  configurations: a wildcard admin with an identity table, which lacks a required column in some
  schemas; the same with credentials that are refused; an entry with nothing under it; two
  roles with an identity table; listed columns and presets beside the admin; a custom query and a
  custom mutation with generated names. The schema may be there from an earlier run. A window of 3, a pause of
  2, an attempt of 1; database and seeder are done at any time up to 5, in the window or after
  it. Two tables are the least at which a catalog can be half made or torn.
* `loader_same`: a self-referential to-many at two depths, the same with an argument,
  a to-one; three keys and NULL; three contents of the table, two writes. Keys recur at
  the second depth, so batches overlap with what was loaded.
* `list_arguments`: two or three rows, of which one has three forms and one two, with NULLs
  and ties, a score and an owner; four roles (no filter; IN, owner hidden; IN, key hidden, so no by_pk
  and no count; NOT IN, join column hidden, so not batched); 10 expressions, some nested, some refused (a hidden
  column, a comparison with null); 3 orders; limits -1, 0, 3 and none with a maximum of 2 and a default of 1; offsets 0
  and 1; claims empty, one value, a value and NULL, and missing; ids 1 and 2; the score as vector. All combinations are initial
  states. Two parents are the least at which windows and groups can mix.
* `documents`, `aggregates`: up to seven selection sets, two fragments that may spread each
  other and themselves, an unknown fragment, inline fragments, two operations, limits -1, 1, 2
  and 3. Aggregates stand in one set, in a fragment, in an inline fragment and in two merged
  fields. Two fragments suffice for fan-out and for a cycle through both; `ScanIsLinear` holds
  for any number.
* `pages_walks`: three keys, two values, two walks with different filters, two writes,
  page sizes -1, 0, 3 and default over maxima of 2 and 1. Full, short, empty and
  refused pages all occur.
* `mutation_mixed`: two clients, two keys, one request each of thirteen that cover all
  operations, multi-row inserts in opposite orders, no objects at all, keys left to AUTO_INCREMENT and
  to a default, and keys that an update moves; the updates of one client preset the owner. Lost updates,
  phantom answers and deadlocking lock orders need two transactions over two rows.
* `roles`: one user, two requests that may be reused, two changes, one reload that
  turns the cache off, four seconds. Two requests are what it takes to overwrite.
  They are interchangeable (symmetry); no liveness is checked there.

Each run sets `CHECK_DEADLOCK FALSE`: requests end, the process may exit, and bounded
environments run out of moves; in `Mutation` two transactions that wait for each
other's rows are ended by `Fail`, as the database ends them.

*Fairness.* `GateReload`: steps of goroutines that can run (weak), and acquisition of
`reloadMu` (strong, as a `sync.Mutex` hands over to a starving waiter). Operators,
migrations, hosts and requests owe nothing. `Startup`: the process, the clock, the database
and the seeder go on (weak, for `Step`, `Tick`, `Boot` and `Seed`); failing queries and
cancellation are not fair. `KeysetPages`: a client that has begun a walk asks again, sooner or
later with room for a row; nothing is assumed of writers and reloads, which are bounded or may
stop. The other modules have no liveness property: a mutation or request may always be cut off
by its timeout, and a document or a field is a finite computation.

## 4. Where code and documentation disagree

Shown by a run (see `findings`):

1. `gate_everyedit`: an edit saved between the reading of the file and the stamp taken
   afterwards (`gqlgate.go:298` and `:314`) is never served. README:318 promises the next
   request sees it. `gate_live` shows that all other edits are served.
2. `loader_names`: loaders are keyed by constraint name, which is unique per table only.
3. `aggregates`: a function selected in two places keeps the columns of the last one
   (`schema/aggregate.go:147`); README:519-522 promises otherwise. `documents` shows what does
   hold: nothing is computed that was not selected, and a function in one place is complete.

Met while modelling. They have no run of their own, because the model would only repeat one
line of the code or because the properties of the runs already name the exception:

* A half-seeded schema is taken for a seeded one when roles use wildcards; README:64 says start
  order never matters. A role that names a table the seeder has not made yet ends the gateway at
  once, with the window still open, and so may a catalog that is torn by re-seeding, whose
  tables lost their columns between two queries (`introspect/introspect.go:126`). `TooEarly` in
  `ServesInTheEnd` is exactly these cases.
* A column that a role names wrongly for good is retried for the whole window, for its error
  reads "does not exist" (`gqlgate.go:440`). When two roles fail, one finally and one not, Go's
  map order decides (`schema/builder.go:35`).
* Credentials that are refused are retried for the whole window: the error of the ping begins with
  "cannot reach database" (`gqlgate.go:88-90`), where the comment at `gqlgate.go:394-396` counts an
  "auth failure" among the errors that are returned immediately. `WaitsTheWindow` names it
  (`NeverReady`).
* An identity table that is absent is waited for, one that lacks a required column ends the gateway
  at once (`gqlgate.go:367-371`), for "has no column" is not among the texts of `isNotReady`. It is
  counted as a misconfiguration in `ServesInTheEnd`; a seeder that adds the column after it has made
  the table, which would be one more start that is too early, is not modelled.
* A table entry with nothing under it falls back to `*` (`rbac/rbac.go:113`), where README:189
  reads as if naming a table replaced the wildcard.
* A table whose readable columns are none of them numeric ends the build with an error of
  graphql-go, for the types of its sums have no fields (`schema/aggregate.go:83`).
* A column named `_and`, `_or` or `_not` takes the operator's place in `where`
  (`schema/builder.go:590`).
* A `TINYINT(1)` in the primary key goes into the cursor as `true` (`schema/cursor.go:77`) and the
  walk is lost; so does a `DATE` or `DATETIME`, which is scanned as a `time.Time` (`parseTime`) and
  printed as Go prints one, zone included. `ExactCursors` excludes them.
* `insert_one` answers null for a row that was written and that the select filter shows, whenever a
  part of its key was left to a default other than AUTO_INCREMENT (`schema/builder.go:957-960` and
  `:1115-1117`). README:195-196 and the description of the field (`schema/builder.go:943`) give a
  hiding filter as the only reason. `ReturnsWrittenRow` states this exception (`KeyUnknown`).
* `update_by_pk` that sets the key itself reads the old key back and answers null
  (`schema/builder.go:1027`; README:195-196 gives a hiding filter as the only reason).
  `ReturnsWrittenRow` leaves out the moved row.
* `delete_by_pk` returns the row as it was before the transaction; what was deleted may be a
  newer version (`schema/builder.go:1085`). `ReturnsOnlyDeleted` says what does hold.
* A deleted user is let in for `cache_seconds` (`auth/rolelookup.go:66`), where README:213-214
  says "rejected with 403 immediately"; `BoundedStaleness` is the bound.
* A numeric id claim above 2^53 arrives as a float64 and is looked up as another id
  (`auth/rolelookup.go:53`); the claims `5` and `"5"` share a cache entry.
* A role without a body is a nil `*Role`, and `rbac.Resolve` panics (`rbac/rbac.go:101`): in the
  watcher goroutine that ends the process, where the comment at `gqlgate.go:286-289` says a failed
  reload keeps the previous config. The panic is an outcome in `BuildOutcomes`.
* `Gate.SignToken` signs with the settings of Open (`gqlgate.go:232`), "the same tokens the
  gateway verifies" only until a reload changes them.
* Join keys that the collation takes for equal and JSON does not are fetched and then lost by
  `groupByColumns` (`schema/dataloader.go:131`). The constant `Fold` is there for it; the runs
  compare exactly; `BatchingImplementsIdentical` shows for every `Fold` that rows may be lost this
  way and none is shown wrongly.
* `limit: 0` leaves the window of a batch out altogether (`schema/builder.go:550`,
  `schema/sqlgen.go:541`): the answer is right, the query is unbounded.

## 5. The proofs

All theorems hold for every value of the constants that meets the named assumptions of
the module (types of the constants, distinctness of special values).

**GateReloadProofs**: `TypeCorrect`, `ServedAlwaysSound`, `RoleAlwaysHasSchema`,
`ReloadAlwaysFresh`, `NextRequestAlwaysSees`, `AlwaysForward`, `GateImplementsContract`, for any
number of hosts, requests, edits and migrations. None of the properties is
inductive. `Inv` adds `Mutex` (who is between lock and unlock holds `reloadMu`), `Carried` (the
version such a call has read is at least what is served, loads and fits the process),
`GenSound`, `Started` (what is true before the first generation) and `Holding` (what a request
holds loads, and its role is one of it). `Carried` is the heart: it is stable only because of
`Mutex`, and it gives monotonicity, freshness and the contract. `StepMovesForward` turns it into
a fact about steps, from which `AlwaysForward` and the refinement follow. `TypeOK` is kept step by
step by `GrowStep` (the project's files and the database change), `CallStep` (who starts, waits for
or leaves a reload) and `MainStep` (the process is told to stop).

**StartupProofs**: `StartupTypeCorrect`, `NamesNeverClash`, `ServesOnlyWhatItChecked`, `WindowKept`,
for any schema, configuration, window and pause. Two facts need no time. `NoClash`: if
`checkNameCollisions` passes and the role builds, no name of the role's schema stands for two
things; it rests on `OfAccessClaimed`, that every name of a role was claimed for its table.
`GrantedWhole`: over a catalog in which each table has its columns, a role that builds is granted
what its rules say. The invariant brings them together with the seeder: `CatalogSound` (every
table read has its columns or, only if an old schema is dropped under the attempt, none), `Built`
(past the build no role was refused) and `Timely` (when attempts and pauses began; a final "not
ready" comes after the window, and with a seeded database only over a name that is not there or
credentials that are refused).

**DocumentProofs**: `ScanTypeCorrect`, `ScanIsLinear`, `ScanMeasuresUnfolded`, `SelectedIsComputed`,
for documents of any size. A selection set stands in one place of the text (`IsTree`); for
`ScanIsLinear` the invariant says of each set entered that this place has been passed: the
operation is behind `next`, the fragment is known, or the frame above has moved on. `WalkedOnce`
needs both the memo and the marks, and that neither is ever undone before the other holds.
`DepthInv` adds, for a document without cycles, `Measured`: the memo of a fragment is its `Depth`,
a frame holds the depth of the deepest selection it has passed, and a marked fragment has its
frame on the stack, so that a spread which finds the mark would close a cycle. Hence memo and
marks change nothing about the depth (`DepthIsUnfolded`). `SelectedIsComputed` is about one step:
`FlattenIsPlaces` (for an accepted document `flattenFields` gives the fields at exactly the places
that a client finds) and `ResolveComputes` (of a function that is selected in several places, the
columns of the last one are computed, so all of them when there is one place, and never one that
was not selected).

**DataloaderProofs**: `FailuresAlwaysShown` and `AlwaysOneQueryPerWave` assume nothing,
`AlwaysRepeatable` assumes `ExactKeys` (join values that SQL takes for equal are equal as JSON).
`BatchingImplementsIdentical` assumes `NamesApart` (no two relationships share a constraint name in
one direction; without it `loader_names` has the counterexample) and holds however the database
compares join keys: each value is the part of its field's own answer whose join values are the
parent's key itself (`Exactly`). Under a collation rows may be missing, none belongs to another
parent. With `ExactKeys` that part is the whole answer: `BatchingImplementsContract`. The invariant
says of each loader that a key that was asked for is pending or loaded unless a batch failed, that
what is loaded for a key is `Exactly` what the query of the loader's site gives over some state
since the request began, and of each waiting thunk that its key is in its loader. `Waves` adds what
was sent at which depth.

**ReadsProofs**: `BatchIsNoCompromise`, `RelationsFiltered`, `ReadsFiltered`, `HiddenStaysHidden`, for
tables, roles, claims, expressions, orders and pages of any size. They assume the types of the
constants, that a primary key is one (`ListFieldAssumption`) and that expressions have a bottom
(`WhereAssumption`). `ReadInv` says that what was answered is an answer of the field for the
request as it came; the rest is about the operators:

* `MatchingFacts`: however expressions combine TRUE, FALSE and unknown, the rows that match are
  those that `where` is true of and that the filter grants; an empty or NULL claim grants none.
* `GroupSorted`, `WindowIsDirect`: what `groupByColumns` gives a parent is a sorted sequence of the
  rows the window kept for it. Followed by the rest of the window's own order it is a sorted
  sequence of all rows of the parent, with the same page: the batch breaks ties as the parent's
  own query might have.
* `NearestRows`: the page is a part of the granted rows, and no row left out is nearer.
* `ViewTwins`: if a role has the same view of two tables, their rows pair up as *twins* that agree
  in the columns it reads. `WhereAlike` (a condition that is not refused looks at readable columns
  only), `SortedAlike`, `PageAlike`, `GroupAlike`, `WindowAlike` carry the pairing through each
  stage of a query, `SumAlike` and `MinAlike` through the aggregates: each answer from one table has
  its twin from the other, and the two look the same to the role.

*Recursive definitions.* The library's induction theorems take an operator as a parameter, which
the provers cannot instantiate. Two lemmas take their place. `Recursion`, for functions that look only at what is below their
argument in a founded order: such a function exists, so the recursive definition is an equation.
And least elements (`LeastNatural`, `LeastSet`, `LeastSubset`, or the foundedness itself): of the
arguments for which a claim fails one has none below it, and the equation refutes that one.

**KeysetPagesProofs**: `PagesTypeCorrect` assumes nothing; `WalksAlwaysAscend`, `NoRowEverMissed`,
`PagesAlwaysAdvance` assume `ExactCursors` (a key survives its cursor, which a boolean or a date in the
key does not); `CursorsAlwaysStayHome` assumes `ShapesApart` (different filters hash apart:
`cursorShape` is FNV-1a with 64 bits, so this is likely, not certain). The invariant `WalkGood` says
of each walk that every row shown is at or below its cursor, and that each steady row above the
start was shown or is still above the cursor; `SteadyMatches` that steady rows match now.
`SliceFacts` is the lemma about `LIMIT size + 1` it rests on. `EveryPageAlwaysCounts` (with
`ExactCursors`) is the step behind `WalkEnds`: what is left of a walk are the keys ahead of its
cursor, those of rows not yet inserted too; no page adds to them, and one that asks for rows ends
the walk or takes some away. So after its first page a walk has no more such pages than there are
keys, and one.

**MutationProofs**: `MutationTypeCorrect`, `AuditTrailKept`, `AlwaysAllOrNothing`,
`WrittenRowReturned`, `OnlyDeletedReturned`, `MutationsImplementContract`, for any number of
clients, keys and requests and any filters. `Local` is about one client: what its transaction has
written so far fits its request, and what it answered fits what it wrote. It is untouched by
others (`StayStep`, `ReadingStep`). `TxSound` ties the transaction to the committed rows: it may do
to them what it is going to do (`Permits` of the contract), whoever committed since it read them,
because it holds their locks and `Permits` looks at no other row (`PermitsSame`). `WroteSound` ties
an answered mutation to them: a row is as it was written unless its count of changes went up. The
two exceptions of `ReturnsWrittenRow`, a key that a default gave and a row that was moved, are in
the statement of `WrittenRowReturned`, as they are in the code.
`AppliedStep` is the commit. The refinement follows: the commit is the contract's `Apply`
(`CommitApplies`, and `CommitFailsIsSeen` for the one whose outcome the client does not learn), the
read after it `Tell`, a refusal or failure before it `GiveUp`, and nothing else is seen (`WorkStep`).

**RoleCacheProofs**: `StalenessIsBounded` and `UncachedIsFresh`. The invariant says of
every cache entry that its role was in the table no longer than `cache_seconds` and one handler
before the moment it was stored (`EntrySound`), and of every query that its answer was there when
it was read (`RequestsSound`). For the second theorem `RowsSeen` relates the answer to the values
of the table *during* the request. Time between the query and the store is bounded by
`MaxDelay`: that is an assumption on the environment (the request timeout), made in `Tick`.

Only model-checked: liveness (`NoticedEditIsServed`, `ReloadReturns`, `ServesInTheEnd`, `WalkEnds`;
fairness and ENABLED are beyond the prover; of `WalkEnds` the safe half is proved, see above), and the three violations. Every safety invariant and
action property that a passing run checks is stated by a theorem.

## 6. Not modelled

GraphQL parsing and validation, JWT cryptography, SQL's own functions and the connection pool are
libraries. The conversion of scalars (`schema/scalars.go`) is formatting by type that no other part
depends on, apart from cursors and join keys, where it enters as `Text`, `Seek` and `Fold`. The
defaults and environment overrides of `config` are values; whether a file loads is what the
others depend on. The text of a row filter and the placeholders in it are not parsed. The types that
`schema/builder.go` hands to graphql-go are there with their names, not with their fields'
descriptions. CORS, GraphiQL, body limits, logging, flags and the demo hooks have no state that
other parts depend on.

## 7. Plan

Done, the most shared state first: `GateReload` with `GateContract`, `KeysetPages`, `Dataloader` with
`RelationContract`, `RoleCache`, `Mutation` with `MutationContract`, `ListField`, `Access`, `Names`, `Startup`, `QueryDepth`,
`Document`, `Reads`, and the proofs above, which cover every safety property of the runs. Left:

1. A composition of `RoleCache` with the generations of `GateReload`, where `epoch` is the
   generation a request holds.
2. Id claims above 2^53; a run of `Dataloader` under a collation (a `Fold` that is not exact).
3. The defaults and overrides of `config`.
