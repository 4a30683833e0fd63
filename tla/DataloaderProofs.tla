--------------------------- MODULE DataloaderProofs ---------------------------
(***************************************************************************)
(* Batches answer as the query of each field would, for any query document,*)
(* any tables and any number of writes in between.                         *)
(*                                                                         *)
(* Two things may fail of a catalog, and the README says what happens then. *)
(* ExactKeys: join values that SQL takes for equal are equal as JSON.       *)
(* NamesApart: no two relationships share a constraint name in one          *)
(* direction.  Under both, a batch is the answer of the field's own query.  *)
(* Without ExactKeys it is the part of that answer whose join values are    *)
(* the key itself: rows may be missing, but none is wrong.                  *)
(***************************************************************************)
EXTENDS Dataloader, TLAPS

ExactKeys == \A j, k \in Keys : SqlEq(j, k) => j = k

NamesApart ==
  \A s, t \in Sites :
    Dir[Rel[s]] = Dir[Rel[t]] /\ Name[Rel[s]] = Name[Rel[t]] => Rel[s] = Rel[t]

\* What a loader makes of the field's own query: the rows whose join value is
\* the key, not only equal to it for the database.
Exactly(s, k, d) == Group(Direct(s, k, d), k)

\* The contract that is left without ExactKeys.
Identical == INSTANCE RelationContract WITH States <- Databases, Direct <- Exactly

AnswersAreIdentical == Identical!Spec

LoaderType ==
  [site : Sites, seen : SUBSET Keys, pending : SUBSET Keys, loaded : SUBSET Keys,
   byKey : [Keys -> SUBSET Row], err : BOOLEAN]

Answers(s, k, rows, h) == \E i \in 1 .. Len(h) : rows = Exactly(s, k, h[i])

\* Loader l of a request that has seen the states h: a key that was asked for
\* is pending or loaded, unless a batch failed, and a loaded key has the rows
\* that the creator's own query gave over one of the states.  A key that is
\* not loaded may have some too: they came with a key that SQL took for equal.
LoaderSound(l, ld, h) ==
  /\ ld \in LoaderType /\ LoaderOf(ld.site) = l
  /\ ld.loaded \subseteq ld.seen /\ ld.pending \subseteq ld.seen /\ ld.pending \cap ld.loaded = {}
  /\ ~ld.err => ld.seen = ld.pending \cup ld.loaded
  /\ \A k \in ld.loaded : Answers(ld.site, k, ld.byKey[k], h)
  /\ \A k \in Keys \ ld.loaded : ld.byKey[k] = {} \/ Answers(ld.site, k, ld.byKey[k], h)

LoadersSound(ls, h) == \A l \in DOMAIN ls : LoaderSound(l, ls[l], h)

\* What was loaded stays loaded, and a failure stays one.
Grows(old, new) ==
  /\ old.seen \subseteq new.seen /\ old.loaded \subseteq new.loaded
  /\ old.err => new.err

Keeps(old, new) ==
  DOMAIN old \subseteq DOMAIN new /\ \A l \in DOMAIN old : Grows(old[l], new[l])

\* With the same rows.
SameRows(old, new) == \A k \in old.loaded : new.byKey[k] = old.byKey[k]
KeepsRows(old, new) == \A l \in DOMAIN old : SameRows(old[l], new[l])

LoadsAll(old, new) == old.seen \subseteq new.loaded

Waits(t, ls) == LoaderOf(t.site) \in DOMAIN ls /\ t.key \in ls[LoaderOf(t.site)].seen

\* The key of a value that was returned is in its loader.
Holds(a, ls) == LoaderOf(a.site) \in DOMAIN ls /\ a.key \in ls[LoaderOf(a.site)].loaded

\* A value that was returned is still the one that its loader holds.
Stable == \A a \in answers : a.ok => a.rows = loaders[LoaderOf(a.site)].byKey[a.key]

Inv ==
  /\ hist \in Seq(Databases) /\ hist # <<>>
  /\ LoadersSound(loaders, hist)
  /\ thunks \subseteq Thunk
  /\ \A t \in thunks : Waits(t, loaders)
  /\ \A a \in answers : a.ok => Holds(a, loaders)

-----------------------------------------------------------------------------
(* Lemmas about one loader.                                                *)

LEMMA SelectedRows ==
  ASSUME NEW s, NEW batch, NEW d, NEW r \in SelectByKeys(s, batch, d), s \in Sites
  PROVE  r \in d /\ r \in Row /\ r.at \in Keys
BY SiteAssumption, RowAssumption DEF SelectByKeys, Row

LEMMA SqlEqSame == ASSUME NEW k PROVE SqlEq(k, k)
BY DEF SqlEq

\* The part of a batch that belongs to a key is what the field's own query
\* gives for that key, or it is empty because nobody asked for it.
LEMMA BatchIsExact ==
  ASSUME NEW s, NEW batch, NEW d, NEW k
  PROVE  /\ k \in batch => Group(SelectByKeys(s, batch, d), k) = Exactly(s, k, d)
         /\ Group(SelectByKeys(s, batch, d), k) # {} => Group(SelectByKeys(s, batch, d), k) = Exactly(s, k, d)
<1>. DEFINE mine == {r \in d \cap Admits[Args[s]] : r.rel = Rel[s] /\ r.at = k}
<1>1. Exactly(s, k, d) = mine
  BY SqlEqSame DEF Exactly, Group, Direct, SelectByKeys
<1>2. ASSUME NEW j \in batch, SqlEq(k, j) PROVE Group(SelectByKeys(s, batch, d), k) = mine
  BY <1>2 DEF Group, SelectByKeys
<1>3. ASSUME k \in batch PROVE \E j \in batch : SqlEq(k, j)
  BY <1>3, SqlEqSame
<1>4. ASSUME Group(SelectByKeys(s, batch, d), k) # {} PROVE \E j \in batch : SqlEq(k, j)
  BY <1>4 DEF Group, SelectByKeys
<1> QED BY <1>1, <1>2, <1>3, <1>4

\* With exact keys, it is all of what the field's own query gives, and a key
\* that nobody asked for gets nothing.
LEMMA ExactIsDirect ==
  ASSUME ExactKeys, NEW s \in Sites, NEW k \in Keys, NEW d
  PROVE  Exactly(s, k, d) = Direct(s, k, d)
<1>1. ASSUME NEW r \in Direct(s, k, d) PROVE r.at = k
  <2>1. SqlEq(r.at, k) /\ r.at \in Keys
    BY SelectedRows DEF Direct, SelectByKeys
  <2> QED BY <2>1 DEF ExactKeys
<1> QED BY <1>1 DEF Exactly, Group

LEMMA OthersGetNothing ==
  ASSUME ExactKeys, NEW s, NEW batch \in SUBSET Keys, NEW d, NEW k \in Keys, k \notin batch
  PROVE  Group(SelectByKeys(s, batch, d), k) = {}
<1>1. ASSUME NEW r \in SelectByKeys(s, batch, d), r.at = k PROVE FALSE
  <2>1. PICK j \in batch : SqlEq(r.at, j)
    BY DEF SelectByKeys
  <2> QED BY <1>1, <2>1 DEF ExactKeys
<1> QED BY <1>1 DEF Group

LEMMA NewLoaderSound ==
  ASSUME NEW s \in Sites, NEW h
  PROVE  LoaderSound(LoaderOf(s), NewLoader(s), h)
BY DEF LoaderSound, NewLoader, LoaderType

LEMMA EnqueueSound ==
  ASSUME NEW l, NEW ld, NEW h, NEW ks \in SUBSET Keys, LoaderSound(l, ld, h)
  PROVE  LET new == Enqueue(ld, ks)
         IN  /\ LoaderSound(l, new, h)
             /\ new.seen = ld.seen \cup ks /\ new.loaded = ld.loaded
             /\ new.byKey = ld.byKey /\ new.err = ld.err
<1>. DEFINE new == Enqueue(ld, ks)
<1>1. ld \in LoaderType
  BY DEF LoaderSound
<1>2. /\ new \in LoaderType
      /\ new.seen = ld.seen \cup ks /\ new.pending = ld.pending \cup (ks \ ld.seen)
      /\ new.loaded = ld.loaded /\ new.byKey = ld.byKey /\ new.err = ld.err /\ new.site = ld.site
  BY <1>1 DEF Enqueue, LoaderType
<1>. HIDE DEF new
<1>3. LoaderSound(l, new, h)
  BY <1>2 DEF LoaderSound
<1> QED BY <1>2, <1>3 DEF new

LEMMA FailedSound ==
  ASSUME NEW l, NEW ld, NEW h, LoaderSound(l, ld, h)
  PROVE  LET new == FlushFailed(ld)
         IN  /\ LoaderSound(l, new, h)
             /\ new.err /\ Grows(ld, new)
<1>. DEFINE new == FlushFailed(ld)
<1>1. ld \in LoaderType
  BY DEF LoaderSound
<1>2. /\ new \in LoaderType
      /\ new.seen = ld.seen /\ new.pending = {}
      /\ new.loaded = ld.loaded /\ new.byKey = ld.byKey /\ new.err = TRUE /\ new.site = ld.site
  BY <1>1 DEF FlushFailed, LoaderType
<1>. HIDE DEF new
<1>3. LoaderSound(l, new, h)
  BY <1>2 DEF LoaderSound
<1> QED BY <1>2, <1>3 DEF new, Grows

\* The batch loads every key that was asked for.
LEMMA FlushSound ==
  ASSUME NEW l, NEW ld, NEW k, NEW h \in Seq(Databases), h # <<>>,
         LoaderSound(l, ld, h), ~ld.err, NEW new, new = Flush(ld, k, h[Len(h)])
  PROVE  /\ LoaderSound(l, new, h) /\ Grows(ld, new) /\ LoadsAll(ld, new)
         /\ ExactKeys => SameRows(ld, new)
<1>. DEFINE d == h[Len(h)]
            rows == SelectByKeys(ld.site, ld.pending, d)
<1>1. /\ ld \in LoaderType /\ ld.site \in Sites /\ ld.pending \in SUBSET Keys
      /\ ld.loaded \in SUBSET Keys /\ ld.byKey \in [Keys -> SUBSET Row]
  BY DEF LoaderSound, LoaderType
<1>2. \A x \in Keys : Group(rows, x) \in SUBSET Row
  BY <1>1, SelectedRows DEF Group
<1>3. /\ new.site = ld.site /\ new.err = ld.err /\ new.seen = ld.seen /\ new.pending = {}
      /\ new.loaded = ld.loaded \cup ld.pending
      /\ new.byKey = [x \in Keys |-> IF Group(rows, x) # {} THEN Group(rows, x) ELSE ld.byKey[x]]
      /\ new \in LoaderType
  BY <1>1, <1>2 DEF Flush, LoaderType
<1>4. Len(h) \in 1 .. Len(h)
  OBVIOUS
<1>5. ASSUME NEW x \in Keys, Group(rows, x) # {} \/ (x \in ld.pending /\ ld.byKey[x] = {})
      PROVE  Answers(ld.site, x, new.byKey[x], h)
  <2>1. new.byKey[x] = Group(rows, x)
    BY <1>3, <1>5
  <2>2. Group(rows, x) = Exactly(ld.site, x, d)
    BY <1>5, BatchIsExact
  <2> QED BY <1>4, <2>1, <2>2 DEF Answers
<1>6. ASSUME NEW x \in Keys, Group(rows, x) = {} PROVE new.byKey[x] = ld.byKey[x]
  BY <1>3, <1>6
<1>. HIDE DEF rows, d
<1>7. \A x \in new.loaded : Answers(new.site, x, new.byKey[x], h)
  <2>. TAKE x \in new.loaded
  <2>1. x \in Keys
    BY <1>1, <1>3
  <2>2. CASE Group(rows, x) # {} \/ (x \in ld.pending /\ ld.byKey[x] = {})
    BY <1>3, <1>5, <2>1, <2>2
  <2>3. CASE Group(rows, x) = {} /\ ~(x \in ld.pending /\ ld.byKey[x] = {})
    <3>1. Answers(ld.site, x, ld.byKey[x], h)
      BY <1>3, <2>1, <2>3 DEF LoaderSound
    <3> QED BY <1>3, <1>6, <2>1, <2>3, <3>1
  <2> QED BY <2>2, <2>3
<1>8. \A x \in Keys \ new.loaded : new.byKey[x] = {} \/ Answers(new.site, x, new.byKey[x], h)
  <2>. TAKE x \in Keys \ new.loaded
  <2>1. ld.byKey[x] = {} \/ Answers(ld.site, x, ld.byKey[x], h)
    BY <1>3 DEF LoaderSound
  <2> QED BY <1>3, <1>5, <1>6, <2>1
<1>9. LoaderSound(l, new, h)
  BY <1>3, <1>7, <1>8 DEF LoaderSound
<1>10. Grows(ld, new) /\ LoadsAll(ld, new)
  <2>1. new.loaded = ld.seen
    BY <1>3 DEF LoaderSound
  <2> QED BY <1>3, <2>1 DEF Grows, LoadsAll
<1>11. ASSUME ExactKeys, NEW x \in ld.loaded PROVE new.byKey[x] = ld.byKey[x]
  <2>1. x \in Keys /\ x \notin ld.pending
    BY <1>1 DEF LoaderSound
  <2>2. Group(rows, x) = {}
    BY <1>1, <1>11, <2>1, OthersGetNothing DEF rows
  <2> QED BY <1>6, <2>1, <2>2
<1> QED BY <1>9, <1>10, <1>11 DEF SameRows

-----------------------------------------------------------------------------
(* Lemmas about all loaders of the request.                                *)

\* getOrCreate and enqueue: every field that is resolved has a loader that
\* knows its key, and nothing that was loaded is touched.
LEMMA ResolvedSound ==
  ASSUME NEW ls, NEW h, NEW ts \in SUBSET Thunk, NEW creator \in Creators(ls, ts),
         LoadersSound(ls, h)
  PROVE  LET new == Resolved(ls, ts, creator)
         IN  /\ LoadersSound(new, h) /\ Keeps(ls, new) /\ KeepsRows(ls, new)
             /\ \A t \in ts : Waits(t, new)
<1>. DEFINE new == Resolved(ls, ts, creator)
            missing == {LoaderOf(t.site) : t \in ts} \ DOMAIN ls
            before(l) == IF l \in DOMAIN ls THEN ls[l] ELSE NewLoader(creator[l])
<1>1. /\ creator \in [missing -> {t.site : t \in ts}]
      /\ \A l \in missing : LoaderOf(creator[l]) = l
  BY DEF Creators
<1>2. DOMAIN new = DOMAIN ls \cup missing
  BY <1>1 DEF Resolved
<1>3. \A l \in DOMAIN new : new[l] = Enqueue(before(l), Keyed(ts, l))
  BY <1>2 DEF Resolved
<1>4. \A l \in DOMAIN new : LoaderSound(l, before(l), h)
  <2>. TAKE l \in DOMAIN new
  <2>1. CASE l \in DOMAIN ls
    BY <2>1 DEF LoadersSound
  <2>2. CASE l \notin DOMAIN ls
    <3>1. l \in missing
      BY <2>2, <1>2
    <3>2. creator[l] \in Sites /\ LoaderOf(creator[l]) = l
      BY <3>1, <1>1 DEF Thunk
    <3> QED BY <2>2, <3>2, NewLoaderSound
  <2> QED BY <2>1, <2>2
<1>5. \A l : Keyed(ts, l) \in SUBSET Keys
  BY DEF Keyed, Thunk
<1>. HIDE DEF new, before, missing
<1>6. \A l \in DOMAIN new :
        /\ LoaderSound(l, new[l], h)
        /\ new[l].seen = before(l).seen \cup Keyed(ts, l) /\ new[l].loaded = before(l).loaded
        /\ new[l].byKey = before(l).byKey /\ new[l].err = before(l).err
  <2>. TAKE l \in DOMAIN new
  <2> QED BY <1>3, <1>4, <1>5, EnqueueSound
<1>7. LoadersSound(new, h)
  BY <1>6 DEF LoadersSound
<1>8. Keeps(ls, new) /\ KeepsRows(ls, new)
  BY <1>2, <1>6 DEF Keeps, Grows, KeepsRows, SameRows, before
<1>9. \A t \in ts : Waits(t, new)
  <2>. TAKE t \in ts
  <2>1. LoaderOf(t.site) \in DOMAIN new
    BY <1>2 DEF missing
  <2>2. t.key \in Keyed(ts, LoaderOf(t.site))
    BY DEF Keyed
  <2> QED BY <2>1, <2>2, <1>6 DEF Waits
<1> QED BY <1>7, <1>8, <1>9 DEF new

LEMMA KeepsWaiting ==
  ASSUME NEW old, NEW new, Keeps(old, new)
  PROVE  /\ \A t : Waits(t, old) => Waits(t, new)
         /\ \A a : Holds(a, old) => Holds(a, new)
BY DEF Keeps, Grows, Waits, Holds

LEMMA KeepsOnwards ==
  ASSUME NEW a, NEW b, NEW c, Keeps(a, b), Keeps(b, c)
  PROVE  Keeps(a, c)
<1>1. ASSUME NEW l \in DOMAIN a PROVE l \in DOMAIN c /\ Grows(a[l], c[l])
  <2>1. l \in DOMAIN b /\ l \in DOMAIN c /\ Grows(a[l], b[l]) /\ Grows(b[l], c[l])
    BY DEF Keeps
  <2> QED BY <2>1 DEF Grows
<1> QED BY <1>1 DEF Keeps

\* One loader is replaced by one that keeps what it had.
LEMMA ReplacedSound ==
  ASSUME NEW ls, NEW h, NEW l \in DOMAIN ls, NEW ld, LoadersSound(ls, h), LoaderSound(l, ld, h), Grows(ls[l], ld)
  PROVE  LET new == [ls EXCEPT ![l] = ld]
         IN  LoadersSound(new, h) /\ Keeps(ls, new) /\ new[l] = ld
<1>. DEFINE new == [ls EXCEPT ![l] = ld]
<1>1. /\ DOMAIN new = DOMAIN ls /\ new[l] = ld
      /\ \A m \in DOMAIN ls : m # l => new[m] = ls[m]
  OBVIOUS
<1>. HIDE DEF new
<1>2. LoadersSound(new, h)
  BY <1>1 DEF LoadersSound
<1>3. Keeps(ls, new)
  <2>1. \A m : Grows(ls[m], ls[m])
    BY DEF Grows
  <2> QED BY <1>1, <2>1 DEF Keeps
<1> QED BY <1>1, <1>2, <1>3 DEF new

\* Another state of the database changes nothing of what was answered.
LEMMA LongerHistory ==
  ASSUME NEW ls, NEW h \in Seq(Databases), NEW d \in Databases, LoadersSound(ls, h)
  PROVE  LoadersSound(ls, Append(h, d))
<1>. DEFINE g == Append(h, d)
<1>1. Len(h) <= Len(g) /\ \A i \in 1 .. Len(h) : i \in 1 .. Len(g) /\ g[i] = h[i]
  OBVIOUS
<1>. HIDE DEF g
<1>2. ASSUME NEW l \in DOMAIN ls PROVE LoaderSound(l, ls[l], g)
  <2>1. LoaderSound(l, ls[l], h)
    BY DEF LoadersSound
  <2>2. ASSUME NEW k, Answers(ls[l].site, k, ls[l].byKey[k], h) PROVE Answers(ls[l].site, k, ls[l].byKey[k], g)
    <3>1. PICK i \in 1 .. Len(h) : ls[l].byKey[k] = Exactly(ls[l].site, k, h[i])
      BY <2>2 DEF Answers
    <3>2. i \in 1 .. Len(g) /\ ls[l].byKey[k] = Exactly(ls[l].site, k, g[i])
      BY <1>1, <3>1
    <3> QED BY <3>2 DEF Answers
  <2> QED BY <2>1, <2>2 DEF LoaderSound
<1> QED BY <1>2 DEF LoadersSound, g

-----------------------------------------------------------------------------
(* The steps of a request.                                                 *)

LEMMA LoaderKeyed ==
  ASSUME NEW t \in Thunk
  PROVE  t.site \in Sites /\ t.key \in Keys /\ LoaderOf(t.site) \in LoaderKeys
BY DEF Thunk, LoaderKeys

LEMMA BelowThunks ==
  ASSUME NEW s \in Sites, NEW rows \in SUBSET Row
  PROVE  /\ Children(s, rows) \in SUBSET Thunk
         /\ \A c \in Children(s, rows) : Depth[c.site] = Depth[s] + 1
BY SiteAssumption DEF Children, Thunk, Row

LEMMA InitInv == Init => Inv
<1>. SUFFICES ASSUME Init PROVE Inv
  OBVIOUS
<1>1. PICK creator \in Creators(<<>>, RootThunks) : loaders = Resolved(<<>>, RootThunks, creator)
  BY DEF Init
<1>2. RootThunks \in SUBSET Thunk
  BY KeyAssumption DEF RootThunks, Thunk
<1>3. LoadersSound(<<>>, hist)
  BY DEF LoadersSound
<1>4. LoadersSound(loaders, hist) /\ \A t \in RootThunks : Waits(t, loaders)
  BY <1>1, <1>2, <1>3, ResolvedSound
<1> QED BY <1>2, <1>4 DEF Init, Inv

\* The rows of the key, as a query of the loader of t gave them.
GivenBy(t, rows) == \E s \in Sites : LoaderOf(s) = LoaderOf(t.site) /\ Answers(s, t.key, rows, hist)

\* A thunk whose rows are there: ls are the loaders after the flush, if there
\* was one.
LEMMA CompleteStep ==
  ASSUME Inv, hist' = hist, NEW t \in thunks, NEW ls,
         LoadersSound(ls, hist), Keeps(loaders, ls), Complete(t, ls),
         t.key \in ls[LoaderOf(t.site)].loaded
  PROVE  /\ Inv' /\ Keeps(loaders, loaders')
         /\ Keeps(ls, loaders') /\ KeepsRows(ls, loaders')
         /\ LET rows == ls[LoaderOf(t.site)].byKey[t.key]
            IN  /\ rows \in SUBSET Row /\ GivenBy(t, rows)
                /\ answers' = answers \cup {[site |-> t.site, key |-> t.key, ok |-> TRUE, rows |-> rows]}
                /\ thunks' = (thunks \ {t}) \cup Children(t.site, rows)
<1>. DEFINE l == LoaderOf(t.site)
            rows == ls[l].byKey[t.key]
            below == Children(t.site, rows)
            given == [site |-> t.site, key |-> t.key, ok |-> TRUE, rows |-> rows]
<1>1. t \in Thunk /\ t.site \in Sites /\ t.key \in Keys
  BY LoaderKeyed DEF Inv
<1>2. l \in DOMAIN ls
  BY DEF Inv, Waits, Keeps
<1>3. rows \in SUBSET Row /\ GivenBy(t, rows)
  <2>1. LoaderSound(l, ls[l], hist)
    BY <1>2 DEF LoadersSound
  <2>2. ls[l] \in LoaderType /\ LoaderOf(ls[l].site) = l /\ Answers(ls[l].site, t.key, rows, hist)
    BY <2>1 DEF LoaderSound
  <2> QED BY <1>1, <2>2 DEF LoaderType, GivenBy
<1>4. /\ answers' = answers \cup {given}
      /\ thunks' = (thunks \ {t}) \cup below
      /\ \E creator \in Creators(ls, below) : loaders' = Resolved(ls, below, creator)
  BY DEF Complete, Return
<1>5. below \in SUBSET Thunk
  BY <1>1, <1>3, BelowThunks
<1>6. /\ LoadersSound(loaders', hist) /\ Keeps(ls, loaders') /\ KeepsRows(ls, loaders')
      /\ \A u \in below : Waits(u, loaders')
  BY <1>4, <1>5, ResolvedSound
<1>7. Keeps(loaders, loaders')
  BY <1>6, KeepsOnwards
<1>8. Holds(given, loaders')
  <2>1. Holds(given, ls)
    BY <1>2 DEF Holds
  <2> QED BY <2>1, <1>6, KeepsWaiting
<1>. HIDE DEF below, given
<1>9. \A u \in thunks' : u \in Thunk /\ Waits(u, loaders')
  BY <1>4, <1>5, <1>6, <1>7, KeepsWaiting DEF Inv
<1>10. \A a \in answers' : a.ok => Holds(a, loaders')
  BY <1>4, <1>7, <1>8, KeepsWaiting DEF Inv
<1>11. Inv'
  BY <1>6, <1>9, <1>10 DEF Inv
<1> QED BY <1>3, <1>4, <1>6, <1>7, <1>11 DEF below, given

\* An error is returned, and no loader forgets anything.
LEMMA ErrorStep ==
  ASSUME Inv, hist' = hist, NEW t \in thunks, ReturnError(t),
         LoadersSound(loaders', hist), Keeps(loaders, loaders')
  PROVE  /\ Inv'
         /\ thunks' = thunks \ {t}
         /\ answers' = answers \cup {[site |-> t.site, key |-> t.key, ok |-> FALSE, rows |-> {}]}
<1>1. \A u \in thunks' : u \in Thunk /\ Waits(u, loaders')
  BY KeepsWaiting DEF Inv, ReturnError
<1>2. \A a \in answers' : a.ok => Holds(a, loaders')
  BY KeepsWaiting DEF Inv, ReturnError
<1> QED BY <1>1, <1>2 DEF Inv, ReturnError

\* The batch that FireBatch sends.
LEMMA BatchSound ==
  ASSUME Inv, NEW t \in thunks, ~loaders[LoaderOf(t.site)].err
  PROVE  LET l == LoaderOf(t.site)
             ls == [loaders EXCEPT ![l] = Flush(loaders[l], t.key, current)]
         IN  /\ LoadersSound(ls, hist) /\ Keeps(loaders, ls) /\ (ExactKeys => KeepsRows(loaders, ls))
             /\ loaders[l].seen \subseteq ls[l].loaded /\ t.key \in ls[l].loaded
<1>. DEFINE l == LoaderOf(t.site)
            ld == Flush(loaders[l], t.key, current)
            ls == [loaders EXCEPT ![l] = ld]
<1>1. l \in DOMAIN loaders /\ t.key \in loaders[l].seen /\ LoaderSound(l, loaders[l], hist)
  BY DEF Inv, Waits, LoadersSound
<1>2. /\ LoaderSound(l, ld, hist) /\ Grows(loaders[l], ld) /\ LoadsAll(loaders[l], ld)
      /\ ExactKeys => SameRows(loaders[l], ld)
  <2>1. hist \in Seq(Databases) /\ hist # <<>> /\ ld = Flush(loaders[l], t.key, hist[Len(hist)])
    BY DEF Inv, current
  <2>. HIDE DEF ld
  <2> QED BY <1>1, <2>1, FlushSound
<1>. HIDE DEF ld
<1>3. LoadersSound(ls, hist) /\ Keeps(loaders, ls) /\ ls[l] = ld
  BY <1>1, <1>2, ReplacedSound DEF Inv
<1>4. ExactKeys => KeepsRows(loaders, ls)
  BY <1>2 DEF KeepsRows, SameRows
<1> QED BY <1>1, <1>2, <1>3, <1>4 DEF ld, LoadsAll

LEMMA FailingSound ==
  ASSUME Inv, NEW t \in thunks
  PROVE  LET l == LoaderOf(t.site)
             ls == [loaders EXCEPT ![l] = FlushFailed(loaders[l])]
         IN  LoadersSound(ls, hist) /\ Keeps(loaders, ls) /\ ls[l].err
<1>. DEFINE l == LoaderOf(t.site)
            ld == FlushFailed(loaders[l])
            ls == [loaders EXCEPT ![l] = ld]
<1>1. l \in DOMAIN loaders /\ LoaderSound(l, loaders[l], hist)
  BY DEF Inv, Waits, LoadersSound
<1>2. /\ LoaderSound(l, ld, hist)
      /\ ld.err /\ Grows(loaders[l], ld)
  BY <1>1, FailedSound
<1>. HIDE DEF ld
<1>3. LoadersSound(ls, hist) /\ Keeps(loaders, ls) /\ ls[l] = ld
  BY <1>1, <1>2, ReplacedSound DEF Inv
<1> QED BY <1>2, <1>3 DEF ld

\* A loader that has not failed and has nothing pending has the key.
LEMMA CachedIsLoaded ==
  ASSUME Inv, NEW t \in thunks,
         ~loaders[LoaderOf(t.site)].err, ~NeedsFlush(loaders[LoaderOf(t.site)], t.key)
  PROVE  t.key \in loaders[LoaderOf(t.site)].loaded
BY DEF Inv, Waits, LoadersSound, LoaderSound, NeedsFlush

LEMMA KeepsAll == ASSUME NEW ls PROVE Keeps(ls, ls)
BY DEF Keeps, Grows

\* What a fired thunk does: it returns rows that its loader has for the key, or
\* an error; whatever it does, nothing that was loaded is lost.
Returned(t) ==
  \/ \E rows \in SUBSET Row :
       /\ answers' = answers \cup {[site |-> t.site, key |-> t.key, ok |-> TRUE, rows |-> rows]}
       /\ thunks' = (thunks \ {t}) \cup Children(t.site, rows)
       /\ GivenBy(t, rows)
  \/ /\ answers' = answers \cup {[site |-> t.site, key |-> t.key, ok |-> FALSE, rows |-> {}]}
     /\ thunks' = thunks \ {t}

LEMMA FireStep ==
  ASSUME Inv, NEW t \in thunks, Fire(t)
  PROVE  Inv' /\ Returned(t) /\ Keeps(loaders, loaders')
<1>. DEFINE l == LoaderOf(t.site)
<1>1. ASSUME FireCached(t), loaders[l].err, ReturnError(t), UNCHANGED loaders
      PROVE  Inv' /\ Returned(t) /\ Keeps(loaders, loaders')
  <2>1. hist' = hist /\ LoadersSound(loaders', hist) /\ Keeps(loaders, loaders')
    BY <1>1, KeepsAll DEF FireCached, Inv
  <2> QED BY <1>1, <2>1, ErrorStep DEF Returned
<1>2. ASSUME FireCached(t), ~loaders[l].err, ~NeedsFlush(loaders[l], t.key), Complete(t, loaders)
      PROVE  Inv' /\ Returned(t) /\ Keeps(loaders, loaders')
  <2>1. hist' = hist /\ LoadersSound(loaders, hist) /\ Keeps(loaders, loaders)
    BY <1>2, KeepsAll DEF FireCached, Inv
  <2>2. t.key \in loaders[l].loaded
    BY <1>2, CachedIsLoaded
  <2> QED BY <1>2, <2>1, <2>2, CompleteStep DEF Returned
<1>3. ASSUME FireBatch(t) PROVE Inv' /\ Returned(t) /\ Keeps(loaders, loaders')
  <2>. DEFINE ls == [loaders EXCEPT ![l] = Flush(loaders[l], t.key, current)]
  <2>1. hist' = hist /\ ~loaders[l].err /\ Complete(t, ls)
    BY <1>3 DEF FireBatch
  <2>2. LoadersSound(ls, hist) /\ Keeps(loaders, ls) /\ t.key \in ls[l].loaded
    BY <2>1, BatchSound
  <2>. HIDE DEF ls
  <2> QED BY <2>1, <2>2, CompleteStep DEF Returned
<1>4. ASSUME FireFailing(t) PROVE Inv' /\ Returned(t) /\ Keeps(loaders, loaders')
  <2>1. hist' = hist /\ ReturnError(t) /\ loaders' = [loaders EXCEPT ![l] = FlushFailed(loaders[l])]
    BY <1>4 DEF FireFailing
  <2>2. LoadersSound(loaders', hist) /\ Keeps(loaders, loaders')
    BY <2>1, FailingSound
  <2> QED BY <2>1, <2>2, ErrorStep DEF Returned
<1> QED BY <1>1, <1>2, <1>3, <1>4 DEF Fire, FireCached

LEMMA WriteStep == ASSUME Inv, Write PROVE Inv'
<1>1. PICK d \in Databases : hist' = Append(hist, d) /\ UNCHANGED <<loaders, thunks, answers, queries>>
  BY DEF Write
<1>2. LoadersSound(loaders, hist') /\ hist' \in Seq(Databases) /\ hist' # <<>>
  BY <1>1, LongerHistory DEF Inv
<1> QED BY <1>1, <1>2 DEF Inv

LEMMA NextInv == Inv /\ [Next]_vars => Inv'
<1>. SUFFICES ASSUME Inv, [Next]_vars PROVE Inv'
  OBVIOUS
<1>1. CASE Write
  BY <1>1, WriteStep
<1>2. CASE \E t \in thunks : Fire(t)
  BY <1>2, FireStep
<1>3. CASE UNCHANGED vars
  BY <1>3 DEF vars, Inv
<1> QED BY <1>1, <1>2, <1>3 DEF Next

-----------------------------------------------------------------------------
\* A parent that is answered without children has none: the key of every value
\* that was returned is loaded, so a batch that fails is an error of all fields
\* that wait for it.
THEOREM FailuresAlwaysShown == Spec => []NothingLostSilently
<1>1. Inv => NothingLostSilently
  BY DEF Inv, Holds, NothingLostSilently
<1> QED BY InitInv, NextInv, <1>1, PTL DEF Spec

\* With exact keys, a batch gives no rows to a key that it was not sent for, so
\* what a loader has for a key is never replaced.
LEMMA FireStable ==
  ASSUME ExactKeys, Inv, Stable, NEW t \in thunks, Fire(t)
  PROVE  Stable'
<1>. DEFINE l == LoaderOf(t.site)
<1>1. l \in DOMAIN loaders
  BY DEF Inv, Waits
<1>2. ASSUME NEW ls, hist' = hist, LoadersSound(ls, hist), Keeps(loaders, ls), KeepsRows(loaders, ls),
             Complete(t, ls), t.key \in ls[l].loaded
      PROVE  Stable'
  <2>1. /\ KeepsRows(ls, loaders') /\ l \in DOMAIN ls
        /\ answers' = answers \cup {[site |-> t.site, key |-> t.key, ok |-> TRUE, rows |-> ls[l].byKey[t.key]]}
    BY <1>1, <1>2, CompleteStep DEF Keeps
  <2>2. ASSUME NEW a \in answers, a.ok PROVE a.rows = loaders'[LoaderOf(a.site)].byKey[a.key]
    <3>1. Holds(a, loaders) /\ a.rows = loaders[LoaderOf(a.site)].byKey[a.key]
      BY <2>2 DEF Inv, Stable
    <3>2. Holds(a, ls)
      BY <1>2, <3>1, KeepsWaiting
    <3> QED BY <1>2, <2>1, <3>1, <3>2 DEF Holds, KeepsRows, SameRows
  <2>3. ls[l].byKey[t.key] = loaders'[l].byKey[t.key]
    BY <1>2, <2>1 DEF KeepsRows, SameRows
  <2> QED BY <2>1, <2>2, <2>3 DEF Stable
<1>3. ASSUME ReturnError(t), \A m \in DOMAIN loaders : loaders'[m].byKey = loaders[m].byKey PROVE Stable'
  BY <1>3 DEF ReturnError, Stable, Inv, Holds
<1>4. CASE FireCached(t)
  <2>1. CASE loaders[l].err /\ ReturnError(t) /\ UNCHANGED loaders
    BY <1>3, <2>1
  <2>2. CASE ~loaders[l].err /\ ~NeedsFlush(loaders[l], t.key) /\ Complete(t, loaders)
    <3>1. LoadersSound(loaders, hist) /\ Keeps(loaders, loaders) /\ KeepsRows(loaders, loaders)
      BY KeepsAll DEF Inv, KeepsRows, SameRows
    <3> QED BY <1>2, <1>4, <2>2, <3>1, CachedIsLoaded DEF FireCached
  <2> QED BY <1>4, <2>1, <2>2 DEF FireCached
<1>5. CASE FireBatch(t)
  <2>. DEFINE ls == [loaders EXCEPT ![l] = Flush(loaders[l], t.key, current)]
  <2>1. hist' = hist /\ ~loaders[l].err /\ Complete(t, ls)
    BY <1>5 DEF FireBatch
  <2>2. LoadersSound(ls, hist) /\ Keeps(loaders, ls) /\ KeepsRows(loaders, ls) /\ t.key \in ls[l].loaded
    BY <2>1, BatchSound
  <2>. HIDE DEF ls
  <2> QED BY <1>2, <2>1, <2>2
<1>6. CASE FireFailing(t)
  <2>1. ReturnError(t) /\ loaders' = [loaders EXCEPT ![l] = FlushFailed(loaders[l])]
    BY <1>6 DEF FireFailing
  <2>2. FlushFailed(loaders[l]).byKey = loaders[l].byKey
    <3>1. loaders[l] \in LoaderType
      BY <1>1 DEF Inv, LoadersSound, LoaderSound
    <3> QED BY <3>1 DEF FlushFailed, LoaderType
  <2> QED BY <1>1, <1>3, <2>1, <2>2
<1> QED BY <1>4, <1>5, <1>6 DEF Fire

\* No answer contradicts another one: a loader has one answer to a key, for any
\* query document and any writes of other clients.  Keys that SQL takes for
\* equal would break this: the batch for one replaces the rows of the other.
THEOREM AlwaysRepeatable ==
  ASSUME ExactKeys PROVE Spec => []Repeatable
<1>1. Init => Inv /\ Stable
  BY InitInv DEF Init, Stable
<1>2. Inv /\ Stable /\ [Next]_vars => Inv' /\ Stable'
  <2>. SUFFICES ASSUME Inv, Stable, [Next]_vars PROVE Inv' /\ Stable'
    OBVIOUS
  <2>1. CASE \E t \in thunks : Fire(t)
    BY <2>1, FireStep, FireStable
  <2>2. CASE Write \/ UNCHANGED vars
    BY <2>2, NextInv DEF Write, vars, Stable, Next
  <2> QED BY <2>1, <2>2 DEF Next
<1>3. Stable => Repeatable
  BY DEF Stable, Repeatable
<1> QED BY <1>1, <1>2, <1>3, PTL DEF Spec

\* A loader that relationships of one identity share holds the answers of each.
LEMMA GivenIsOwn ==
  ASSUME NamesApart, NEW t \in Thunk, NEW rows, GivenBy(t, rows)
  PROVE  \E i \in 1 .. Len(hist) : rows = Exactly(t.site, t.key, hist[i])
<1>1. PICK s \in Sites : LoaderOf(s) = LoaderOf(t.site) /\ Answers(s, t.key, rows, hist)
  BY DEF GivenBy
<1>2. Rel[s] = Rel[t.site] /\ Args[s] = Args[t.site]
  BY <1>1, LoaderKeyed DEF LoaderOf, NamesApart
<1>3. \A d : Exactly(s, t.key, d) = Exactly(t.site, t.key, d)
  BY <1>2 DEF Exactly, Direct, SelectByKeys
<1> QED BY <1>1, <1>3 DEF Answers

\* What a step of a request shows: a state is added to the history, a field is
\* answered with rows that its own query gives over one of the states, or fails.
LEMMA StepSeen ==
  ASSUME NamesApart, Inv, [Next]_vars
  PROVE  \/ Write \/ UNCHANGED vars
         \/ /\ hist' = hist
            /\ \E t \in thunks :
                 /\ t \in Thunk
                 /\ \/ \E i \in 1 .. Len(hist) :
                         LET rows == Exactly(t.site, t.key, hist[i])
                         IN  /\ answers' = answers \cup {[site |-> t.site, key |-> t.key, ok |-> TRUE, rows |-> rows]}
                             /\ thunks' = (thunks \ {t}) \cup Children(t.site, rows)
                    \/ /\ answers' = answers \cup {[site |-> t.site, key |-> t.key, ok |-> FALSE, rows |-> {}]}
                       /\ thunks' = thunks \ {t}
<1>1. ASSUME NEW t \in thunks, Fire(t) PROVE hist' = hist /\ Returned(t) /\ t \in Thunk
  <2>1. hist' = hist
    BY <1>1 DEF Fire, FireCached, FireBatch, FireFailing
  <2> QED BY <1>1, <2>1, FireStep DEF Inv
<1>2. CASE \E t \in thunks : Fire(t)
  <2>1. PICK t \in thunks : hist' = hist /\ Returned(t) /\ t \in Thunk
    BY <1>1, <1>2
  <2> QED BY <2>1, GivenIsOwn DEF Returned
<1> QED BY <1>2 DEF Next

\* Whatever the database takes for equal, a batched relationship shows no row
\* that is not the parent's, and none of a state before the request: a request
\* implements the contract in which every value is that part of the answer of
\* the field's own query whose join values are the key itself.
THEOREM BatchingImplementsIdentical ==
  ASSUME NamesApart PROVE Spec => AnswersAreIdentical
<1>1. Init => answers = {}
  BY DEF Init
<1>2. Inv /\ [Next]_vars => [Identical!Next]_Identical!vars
  BY StepSeen DEF Write, vars, Identical!Next, Identical!Write, Identical!Resolve, Identical!Answer, Identical!vars
<1> QED BY InitInv, NextInv, <1>1, <1>2, PTL DEF Spec, AnswersAreIdentical, Identical!Spec

\* A batched relationship is never a correctness compromise: if relationships
\* have names of their own and keys are exact, a request implements the contract
\* in which every value is the answer of the field's own query.
THEOREM BatchingImplementsContract ==
  ASSUME ExactKeys, NamesApart PROVE Spec => AnswersAreDirect
<1>1. Init => answers = {}
  BY DEF Init
<1>2. \A t \in Thunk : \A d : Exactly(t.site, t.key, d) = Direct(t.site, t.key, d)
  BY LoaderKeyed, ExactIsDirect
<1>3. Inv /\ [Next]_vars => [Contract!Next]_Contract!vars
  BY <1>2, StepSeen DEF Write, vars, Contract!Next, Contract!Write, Contract!Resolve, Contract!Answer, Contract!vars
<1> QED BY InitInv, NextInv, <1>1, <1>3, PTL DEF Spec, AnswersAreDirect, Contract!Spec

-----------------------------------------------------------------------------
(* One batch for each loader and depth.  A loader that has sent one while  *)
(* fields of depth d were fired has every key that the others of that depth*)
(* wait for; and what is resolved below them is deeper.                    *)

Depths == {Depth[s] : s \in Sites}

Covered(t, ls) == ls[LoaderOf(t.site)].err \/ t.key \in ls[LoaderOf(t.site)].loaded

WaveSound(l, d, sent) ==
  sent[l][d] = 1 =>
    \A t \in thunks : d <= Depth[t.site] /\ (LoaderOf(t.site) = l /\ Depth[t.site] = d => Covered(t, loaders))

Waves ==
  /\ queries \in [LoaderKeys -> [Depths -> {0, 1}]]
  /\ \A l \in LoaderKeys, d \in Depths : WaveSound(l, d, queries)

\* After its batch a loader has failed or has every key it was asked for.
Settled(l) == loaders'[l].err \/ loaders[l].seen \subseteq loaders'[l].loaded

LEMMA SentStep ==
  ASSUME Inv, NEW t \in thunks, FireBatch(t) \/ FireFailing(t)
  PROVE  Settled(LoaderOf(t.site))
<1>. DEFINE l == LoaderOf(t.site)
<1>1. l \in DOMAIN loaders
  BY DEF Inv, Waits
<1>2. CASE FireBatch(t)
  <2>. DEFINE ls == [loaders EXCEPT ![l] = Flush(loaders[l], t.key, current)]
  <2>1. hist' = hist /\ ~loaders[l].err /\ Complete(t, ls)
    BY <1>2 DEF FireBatch
  <2>2. LoadersSound(ls, hist) /\ Keeps(loaders, ls) /\ t.key \in ls[l].loaded /\ loaders[l].seen \subseteq ls[l].loaded
    BY <2>1, BatchSound
  <2>3. l \in DOMAIN ls
    BY <1>1
  <2>. HIDE DEF ls
  <2>4. Keeps(ls, loaders')
    BY <2>1, <2>2, CompleteStep
  <2> QED BY <2>2, <2>3, <2>4 DEF Keeps, Grows, Settled
<1>3. CASE FireFailing(t)
  <2>1. loaders' = [loaders EXCEPT ![l] = FlushFailed(loaders[l])]
    BY <1>3 DEF FireFailing
  <2> QED BY <2>1, FailingSound DEF Settled
<1> QED BY <1>2, <1>3

\* Which thunks there are after t was fired.
LEMMA FiredThunks ==
  ASSUME Inv, NEW t \in thunks, Returned(t), NEW u \in thunks'
  PROVE  u \in thunks \/ Depth[u.site] = Depth[t.site] + 1
<1>1. t.site \in Sites
  BY LoaderKeyed DEF Inv
<1> QED BY <1>1, BelowThunks DEF Returned

LEMMA StaysCovered ==
  ASSUME Inv, Keeps(loaders, loaders'), NEW u \in thunks, Covered(u, loaders)
  PROVE  Covered(u, loaders')
BY DEF Inv, Waits, Keeps, Grows, Covered

LEMMA InitWaves == Init => Waves
<1>. SUFFICES ASSUME Init PROVE Waves
  OBVIOUS
<1>1. queries = [l \in LoaderKeys |-> [d \in Depths |-> 0]]
  BY DEF Init, NoQueries, Depths
<1> QED BY <1>1 DEF Waves, WaveSound

LEMMA FireWaves ==
  ASSUME Inv, Waves, NEW t \in thunks, Fire(t)
  PROVE  Waves'
<1>. DEFINE m == LoaderOf(t.site)
            dt == Depth[t.site]
<1>1. Returned(t) /\ Keeps(loaders, loaders')
  BY FireStep
<1>2. t.site \in Sites /\ m \in LoaderKeys /\ dt \in Depths /\ dt \in Nat
  BY LoaderKeyed, SiteAssumption DEF Inv, Depths
<1>3. \A u \in thunks : u.site \in Sites /\ Depth[u.site] \in Nat /\ dt <= Depth[u.site]
  BY LoaderKeyed, SiteAssumption DEF Inv, Fire, FireCached, FireBatch, FireFailing, Shallowest
<1>4. Depths \subseteq Nat
  BY SiteAssumption DEF Depths
\* What was true of a loader and a depth before stays true.
<1>5. ASSUME NEW l \in LoaderKeys, NEW d \in Depths, queries[l][d] = 1, NEW u \in thunks'
      PROVE  d <= Depth[u.site] /\ (LoaderOf(u.site) = l /\ Depth[u.site] = d => Covered(u, loaders'))
  <2>1. d <= dt
    BY <1>5 DEF Waves, WaveSound
  <2>2. CASE u \in thunks
    BY <1>1, <1>5, <2>2, StaysCovered DEF Waves, WaveSound
  <2>3. CASE u \notin thunks
    <3>1. Depth[u.site] = dt + 1
      BY <1>1, <2>3, FiredThunks
    <3> QED BY <1>2, <1>4, <2>1, <3>1
  <2> QED BY <2>2, <2>3
<1>6. CASE UNCHANGED queries
  BY <1>5, <1>6 DEF Waves, WaveSound
<1>7. CASE FireBatch(t) \/ FireFailing(t)
  <2>1. queries' = [queries EXCEPT ![m][dt] = @ + 1]
    BY <1>7 DEF FireBatch, FireFailing, Counted
  <2>2. queries[m][dt] = 0
    <3>1. ~Covered(t, loaders)
      <4>1. ~loaders[m].err /\ NeedsFlush(loaders[m], t.key)
        BY <1>7 DEF FireBatch, FireFailing
      <4> QED BY <4>1 DEF NeedsFlush, Covered
    <3>2. queries[m][dt] # 1
      BY <1>2, <3>1 DEF Waves, WaveSound
    <3> QED BY <1>2, <3>2 DEF Waves
  <2>3. /\ queries' \in [LoaderKeys -> [Depths -> {0, 1}]]
        /\ \A l \in LoaderKeys, d \in Depths : l # m \/ d # dt => queries'[l][d] = queries[l][d]
    BY <1>2, <2>1, <2>2 DEF Waves
  <2>4. ASSUME NEW u \in thunks'
        PROVE  dt <= Depth[u.site] /\ (LoaderOf(u.site) = m /\ Depth[u.site] = dt => Covered(u, loaders'))
    <3>1. CASE u \in thunks
      <4>1. LoaderOf(u.site) = m => u.key \in loaders[m].seen
        BY <3>1 DEF Inv, Waits
      <4>2. Settled(m)
        BY <1>7, SentStep
      <4> QED BY <1>3, <3>1, <4>1, <4>2 DEF Settled, Covered
    <3>2. CASE u \notin thunks
      <4>1. Depth[u.site] = dt + 1
        BY <1>1, <3>2, FiredThunks
      <4> QED BY <1>2, <4>1
    <3> QED BY <3>1, <3>2
  <2>5. ASSUME NEW l \in LoaderKeys, NEW d \in Depths PROVE WaveSound(l, d, queries)'
    BY <1>5, <2>3, <2>4 DEF WaveSound
  <2> QED BY <2>3, <2>5 DEF Waves
<1> QED BY <1>6, <1>7 DEF Fire, FireCached

\* "2 queries, not N+1", at any depth of any query document and with any number
\* of parents: a loader sends at most one batch per nesting depth.
THEOREM AlwaysOneQueryPerWave == Spec => []OneQueryPerWave
<1>1. Init => Inv /\ Waves
  BY InitInv, InitWaves
<1>2. Inv /\ Waves /\ [Next]_vars => Inv' /\ Waves'
  <2>. SUFFICES ASSUME Inv, Waves, [Next]_vars PROVE Inv' /\ Waves'
    OBVIOUS
  <2>1. CASE \E t \in thunks : Fire(t)
    BY <2>1, FireStep, FireWaves
  <2>2. CASE Write
    BY <2>2, WriteStep DEF Write, Waves, WaveSound
  <2>3. CASE UNCHANGED vars
    BY <2>3, NextInv DEF vars, Waves, WaveSound
  <2> QED BY <2>1, <2>2, <2>3 DEF Next
<1>3. Waves => OneQueryPerWave
  <2>. SUFFICES ASSUME Waves, NEW l \in LoaderKeys, NEW d \in DOMAIN queries[l] PROVE queries[l][d] <= 1
    BY DEF OneQueryPerWave
  <2>1. queries[l] \in [Depths -> {0, 1}]
    BY DEF Waves
  <2> QED BY <2>1
<1> QED BY <1>1, <1>2, <1>3, PTL DEF Spec
=============================================================================
