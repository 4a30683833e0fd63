-------------------------- MODULE KeysetPagesProofs --------------------------
(***************************************************************************)
(* The guarantees of keyset pagination, for any number of walks, rows,     *)
(* filters and page sizes.                                                 *)
(*                                                                         *)
(* WalkGood is the invariant of one walk: what it has shown lies at or     *)
(* before its cursor, and the rows that matched all along are either shown *)
(* or still after the cursor.  It says more than WalkAscends and           *)
(* NoRowMissed, neither of which is inductive: both need to know where the *)
(* cursor stands between two pages.                                        *)
(***************************************************************************)
EXTENDS KeysetPages, FiniteSetTheorems, TLAPS

\* Rows at or before the cursor c.
Passed(S, c) == \A p \in S : c # NoCursor /\ p <= Seek[c.text]

WalkGood(x, wk) ==
  /\ Passed(wk.seen \cup wk.page, wk.after)
  /\ \A p \in wk.seen, q \in wk.page : p < q
  /\ \A k \in wk.steady : After(k, wk.base) => k \in wk.seen \cup wk.page \/ After(k, wk.after)
  /\ wk.done => \A k \in wk.steady : After(k, wk.base) => k \in wk.seen \cup wk.page
  /\ wk.hasNext => wk.page # {}
  /\ Cardinality(wk.page) <= wk.asked

SteadyMatches == \A w \in Walks : walk[w].steady \subseteq Matching(WhereOf[w], table, config)

WalksGood == \A w \in Walks : WalkGood(WhereOf[w], walk[w])

Inv == TypeOK /\ SteadyMatches /\ WalksGood

ShapesApart == \A x, y \in Wheres : Shape[x] = Shape[y] => x = y

HomeInv == TypeOK /\ CursorsStayHome

-----------------------------------------------------------------------------
LEMMA SubsetOfKeys ==
  ASSUME NEW P \in SUBSET Keys
  PROVE  IsFiniteSet(P) /\ Cardinality(P) \in Nat
BY KeyAssumption, FS_Subset, FS_CardinalityType

\* The slice of a page is the first rows of what is left, all of it unless
\* another page follows.
LEMMA SliceFacts ==
  ASSUME NEW S \in SUBSET Keys, NEW size \in Int, size >= 0,
         NEW rows \in Fetch(S, size), NEW nodes \in Shown(rows, size)
  PROVE  /\ nodes \subseteq S
         /\ Cardinality(nodes) <= size
         /\ \A p \in nodes, q \in S \ nodes : p < q
         /\ ~HasNext(rows, size) => nodes = S
         /\ nodes = {} /\ size > 0 => ~HasNext(rows, size)
<1>1. rows \in SUBSET S /\ Cardinality(rows) <= size + 1
  BY DEF Fetch, Limit
<1>2. Cardinality(rows) = size + 1 \/ rows = S
  BY DEF Fetch, Limit
<1>3. \A p \in rows, q \in S \ rows : p < q
  BY DEF Fetch, Limit
<1>4. Cardinality(rows) \in Nat
  BY <1>1, SubsetOfKeys
<1>5. CASE HasNext(rows, size)
  <2>1. nodes \in Limit(rows, size)
    BY <1>5 DEF Shown
  <2>2. nodes \in SUBSET rows /\ Cardinality(nodes) <= size
    BY <2>1 DEF Limit
  <2>3. Cardinality(nodes) = size \/ nodes = rows
    BY <2>1 DEF Limit
  <2>4. \A p \in nodes, q \in rows \ nodes : p < q
    BY <2>1 DEF Limit
  <2>5. \A p \in nodes, q \in S \ nodes : p < q
    BY <1>3, <2>2, <2>4
  <2>6. Cardinality({}) = 0
    BY FS_EmptySet
  <2>7. ~(nodes = {} /\ size > 0)
    BY <1>4, <1>5, <2>3, <2>6 DEF HasNext
  <2> QED BY <1>1, <1>5, <2>2, <2>5, <2>7
<1>6. CASE ~HasNext(rows, size)
  <2>1. nodes = rows
    BY <1>6 DEF Shown
  <2>2. rows = S
    BY <1>2, <1>4, <1>6 DEF HasNext
  <2>3. Cardinality(rows) <= size
    BY <1>4, <1>6 DEF HasNext
  <2> QED BY <1>6, <2>1, <2>2, <2>3
<1> QED BY <1>5, <1>6

LEMMA PageSizeType ==
  ASSUME NEW c \in Configs, NEW first \in Firsts \cup {NoFirst}
  PROVE  PageSize(first, c) \in Int
BY ConfigAssumption, RequestAssumption DEF PageSize, Config

\* What one page does to the state of the client that asked for it.
LEMMA PageGood ==
  ASSUME ExactCursors,
         NEW x \in Wheres, NEW S \in SUBSET Keys, NEW size \in Int, size >= 0,
         NEW old \in WalkType,
         Passed(old.seen \cup old.page, old.after),
         \A k \in S : After(k, old.after),
         \A k \in old.steady : After(k, old.base) => k \in old.seen \cup old.page \/ k \in S,
         NEW rows \in Fetch(S, size), NEW nodes \in Shown(rows, size),
         NEW end \in EndCursor(rows, nodes, x),
         NEW new, new = Turned(old, size, nodes, NextPage(rows, nodes, size), end)
  PROVE  WalkGood(x, new)
<1>1. /\ nodes \subseteq S
      /\ Cardinality(nodes) <= size
      /\ \A p \in nodes, q \in S \ nodes : p < q
      /\ ~HasNext(rows, size) => nodes = S
      /\ nodes = {} /\ size > 0 => ~HasNext(rows, size)
  BY SliceFacts
<1>2. /\ new.seen = old.seen \cup old.page /\ new.page = nodes
      /\ new.steady = old.steady /\ new.base = old.base
      /\ new.after = IF end = NoCursor THEN old.after ELSE end
      /\ new.hasNext = NextPage(rows, nodes, size)
      /\ new.asked = size
      /\ new.done = (~NextPage(rows, nodes, size) /\ size > 0)
  BY DEF Turned, WalkType
<1>3. /\ old.seen \subseteq Keys /\ old.page \subseteq Keys /\ old.steady \subseteq Keys
      /\ old.after \in Cursor \cup {NoCursor}
  BY DEF WalkType
<1>4. \A k \in Keys : k \in Int
  BY KeyAssumption
<1>5. \A c \in Cursor : Seek[c.text] \in Int
  BY KeyAssumption DEF Cursor
<1>6. \A p \in new.seen, q \in new.page : p < q
  BY <1>1, <1>2, <1>3, <1>4, <1>5 DEF Passed, After
<1>7. CASE nodes = {}
  <2>1. end = NoCursor
    BY <1>7 DEF EndCursor
  <2>2. Passed(new.seen \cup new.page, new.after)
    BY <1>2, <1>7, <2>1 DEF Passed
  <2>3. \A k \in new.steady : After(k, new.base) => k \in new.seen \cup new.page \/ After(k, new.after)
    BY <1>2, <2>1
  <2>4. new.done => \A k \in new.steady : After(k, new.base) => k \in new.seen \cup new.page
    BY <1>1, <1>2, <1>7 DEF NextPage
  <2> QED BY <1>1, <1>2, <1>6, <2>2, <2>3, <2>4 DEF WalkGood, NextPage
<1>8. CASE nodes # {}
  <2>1. PICK last \in nodes : (\A q \in nodes : q <= last) /\ end = Encode(last, x)
    BY <1>8 DEF EndCursor
  <2>2. end.text = Text[last] /\ Seek[end.text] = last
    BY <1>1, <2>1 DEF Encode, ExactCursors
  <2>3. CASE end = NoCursor
    <3>1. \A c : c = NoCursor => c \notin Cursor
      BY RequestAssumption
    <3>2. Encode(last, x) \in Cursor
      BY KeyAssumption, WhereAssumption, <1>1, <2>1 DEF Encode, Cursor
    <3> QED BY <2>1, <2>3, <3>1, <3>2
  <2>4. CASE end # NoCursor
    <3>1. new.after = end
      BY <1>2, <2>4
    <3>2. \A p \in old.seen \cup old.page : p < last
      BY <1>2, <1>6, <2>1
    <3>3. Passed(new.seen \cup new.page, new.after)
      BY <1>1, <1>2, <1>3, <1>4, <2>1, <2>2, <2>4, <3>1, <3>2 DEF Passed
    <3>4. \A k \in S \ nodes : After(k, new.after)
      BY <1>1, <2>1, <2>2, <3>1 DEF After
    <3>5. \A k \in new.steady : After(k, new.base) => k \in new.seen \cup new.page \/ After(k, new.after)
      BY <1>2, <3>4
    <3>6. new.done => \A k \in new.steady : After(k, new.base) => k \in new.seen \cup new.page
      BY <1>1, <1>2, <1>8 DEF NextPage
    <3> QED BY <1>1, <1>2, <1>6, <1>8, <3>3, <3>5, <3>6 DEF WalkGood, NextPage
  <2> QED BY <2>3, <2>4
<1> QED BY <1>7, <1>8

-----------------------------------------------------------------------------
LEMMA EndCursorType ==
  ASSUME NEW x \in Wheres, NEW rows, NEW nodes \in SUBSET Keys, NEW end \in EndCursor(rows, nodes, x)
  PROVE  end \in Cursor \cup {NoCursor} /\ (end # NoCursor => end.shape = Shape[x])
BY KeyAssumption, WhereAssumption DEF EndCursor, Encode, Cursor

LEMMA ShownType ==
  ASSUME NEW S \in SUBSET Keys, NEW size, NEW rows \in Fetch(S, size), NEW nodes \in Shown(rows, size)
  PROVE  nodes \in SUBSET Keys
BY DEF Fetch, Limit, Shown

LEMMA TurnedType ==
  ASSUME NEW old \in WalkType, NEW size \in Int, NEW nodes \in SUBSET Keys, NEW more \in BOOLEAN,
         NEW end \in Cursor \cup {NoCursor}
  PROVE  /\ Turned(old, size, nodes, more, end) \in WalkType
         /\ Turned(old, size, nodes, more, end).steady = old.steady
         /\ Turned(old, size, nodes, more, end).home = old.home
BY DEF Turned, WalkType

\* A page changes the state of one client, to a good one.
LEMMA PageStep ==
  ASSUME TypeOK, NEW w \in Walks, NEW first \in Firsts \cup {NoFirst},
         NEW after \in Cursor \cup {NoCursor}, NEW old \in WalkType,
         Page(w, first, after, old)
  PROVE  /\ TypeOK'
         /\ \A u \in Walks \ {w} : walk'[u] = walk[u]
         /\ walk'[w].steady = old.steady /\ walk'[w].home = old.home
         /\ ExactCursors
            /\ old.after = after
            /\ Passed(old.seen \cup old.page, after)
            /\ old.steady \subseteq Matching(WhereOf[w], table, config)
            /\ (\A k \in old.steady :
                  After(k, old.base) => k \in old.seen \cup old.page \/ After(k, after))
            => WalkGood(WhereOf[w], walk'[w])
<1>. DEFINE x == WhereOf[w]
            size == PageSize(first, config)
            S == {k \in Matching(x, table, config) : After(k, after)}
<1>1. x \in Wheres /\ size \in Int /\ size >= 0
  BY WhereAssumption, PageSizeType DEF TypeOK, Page, Asks
<1>2. S \in SUBSET Keys
  BY DEF Matching, TypeOK
<1>3. PICK rows \in Fetch(S, size) : \E nodes \in Shown(rows, size) : \E end \in EndCursor(rows, nodes, x) :
         /\ walk' = [walk EXCEPT ![w] = Turned(old, size, nodes, NextPage(rows, nodes, size), end)]
         /\ issued' = issued \cup {[cursor |-> c, from |-> x] : c \in {end} \ {NoCursor}}
  BY DEF Page
<1>4. PICK nodes \in Shown(rows, size) : \E end \in EndCursor(rows, nodes, x) :
         /\ walk' = [walk EXCEPT ![w] = Turned(old, size, nodes, NextPage(rows, nodes, size), end)]
         /\ issued' = issued \cup {[cursor |-> c, from |-> x] : c \in {end} \ {NoCursor}}
  BY <1>3
<1>5. PICK end \in EndCursor(rows, nodes, x) :
         /\ walk' = [walk EXCEPT ![w] = Turned(old, size, nodes, NextPage(rows, nodes, size), end)]
         /\ issued' = issued \cup {[cursor |-> c, from |-> x] : c \in {end} \ {NoCursor}}
  BY <1>4
<1>. DEFINE new == Turned(old, size, nodes, NextPage(rows, nodes, size), end)
<1>6. nodes \in SUBSET Keys
  BY <1>2, ShownType
<1>7. end \in Cursor \cup {NoCursor} /\ (end # NoCursor => end.shape = Shape[x])
  BY <1>1, <1>6, EndCursorType
<1>8. NextPage(rows, nodes, size) \in BOOLEAN
  BY DEF NextPage, HasNext
<1>9. new \in WalkType /\ new.steady = old.steady /\ new.home = old.home
  BY <1>1, <1>6, <1>7, <1>8, TurnedType
<1>10. walk \in [Walks -> WalkType]
  BY DEF TypeOK
<1>11. walk' \in [Walks -> WalkType] /\ walk'[w] = new /\ \A u \in Walks \ {w} : walk'[u] = walk[u]
  BY <1>5, <1>9, <1>10
<1>12. issued' \subseteq [cursor : Cursor, from : Wheres]
  BY <1>1, <1>5, <1>7 DEF TypeOK
<1>13. \A i \in issued' : i.cursor.shape = Shape[i.from]
  BY <1>5, <1>7 DEF TypeOK
<1>14. TypeOK'
  BY <1>11, <1>12, <1>13 DEF TypeOK, Page
<1>15. ASSUME ExactCursors, old.after = after,
              Passed(old.seen \cup old.page, after),
              old.steady \subseteq Matching(x, table, config),
              \A k \in old.steady : After(k, old.base) => k \in old.seen \cup old.page \/ After(k, after)
       PROVE  WalkGood(x, new)
  <2>1. \A k \in S : After(k, old.after)
    BY <1>15
  <2>2. \A k \in old.steady : After(k, old.base) => k \in old.seen \cup old.page \/ k \in S
    BY <1>15
  <2>. HIDE DEF S, size, x
  <2> QED BY <1>1, <1>2, <1>15, <2>1, <2>2, PageGood
<1> QED BY <1>9, <1>11, <1>13, <1>14, <1>15

LEMMA IdleType == Idle \in WalkType
BY FS_EmptySet DEF Idle, WalkType

LEMMA InitInv == Init => Inv /\ HomeInv
<1>. SUFFICES ASSUME Init PROVE Inv /\ HomeInv
  OBVIOUS
<1>1. walk = [w \in Walks |-> Idle]
  BY DEF Init
<1>2. TypeOK
  <2>1. DOMAIN table \subseteq Keys /\ \A k \in DOMAIN table : table[k] \in Vals
    BY DEF Init
  <2> QED BY <1>1, <2>1, IdleType, RequestAssumption DEF Init, TypeOK
<1>3. \A w \in Walks : WalkGood(WhereOf[w], walk[w]) /\ walk[w].steady = {} /\ walk[w].home = NoCursor
  <2>1. Idle.steady = {} /\ Idle.home = NoCursor
    BY DEF Idle
  <2>2. \A x : WalkGood(x, Idle)
    BY FS_EmptySet DEF WalkGood, Passed, Idle
  <2>3. \A w \in Walks : walk[w] = Idle
    BY <1>1
  <2>. HIDE DEF Idle
  <2>. QED  BY <2>1, <2>2, <2>3
<1> QED BY <1>2, <1>3 DEF Init, Inv, HomeInv, WalksGood, SteadyMatches, CursorsStayHome

\* A write or a reload only takes rows away from what has matched all along.
LEMMA WatchedGood ==
  ASSUME TypeOK, Watched(table', config')
  PROVE  /\ walk' \in [Walks -> WalkType]
         /\ SteadyMatches'
         /\ WalksGood => WalksGood'
         /\ CursorsStayHome => CursorsStayHome'
<1>. DEFINE still(w) == walk[w].steady \cap Matching(WhereOf[w], table', config')
<1>1. walk \in [Walks -> WalkType]
  BY DEF TypeOK
<1>2. walk' = [w \in Walks |-> [walk[w] EXCEPT !.steady = still(w)]]
  BY DEF Watched
<1>3. \A w \in Walks : still(w) \subseteq walk[w].steady
  OBVIOUS
<1>4. \A w \in Walks :
        /\ walk'[w] \in WalkType
        /\ walk'[w].steady = still(w)
        /\ walk'[w].seen = walk[w].seen /\ walk'[w].page = walk[w].page
        /\ walk'[w].after = walk[w].after /\ walk'[w].base = walk[w].base
        /\ walk'[w].home = walk[w].home
        /\ walk'[w].done = walk[w].done
        /\ walk'[w].hasNext = walk[w].hasNext /\ walk'[w].asked = walk[w].asked
  <2>. SUFFICES ASSUME NEW w \in Walks, NEW T, T = still(w)
       PROVE  /\ [walk[w] EXCEPT !.steady = T] \in WalkType
              /\ [walk[w] EXCEPT !.steady = T].steady = T
              /\ [walk[w] EXCEPT !.steady = T].seen = walk[w].seen
              /\ [walk[w] EXCEPT !.steady = T].page = walk[w].page
              /\ [walk[w] EXCEPT !.steady = T].after = walk[w].after
              /\ [walk[w] EXCEPT !.steady = T].base = walk[w].base
              /\ [walk[w] EXCEPT !.steady = T].home = walk[w].home
              /\ [walk[w] EXCEPT !.steady = T].done = walk[w].done
              /\ [walk[w] EXCEPT !.steady = T].hasNext = walk[w].hasNext
              /\ [walk[w] EXCEPT !.steady = T].asked = walk[w].asked
    BY <1>2
  <2>1. walk[w] \in WalkType
    BY <1>1
  <2>2. T \in SUBSET Keys
    BY <1>3, <2>1 DEF WalkType
  <2> QED BY <2>1, <2>2 DEF WalkType
<1>5. walk' \in [Walks -> WalkType]
  BY <1>2, <1>4
<1>6. SteadyMatches'
  BY <1>4 DEF SteadyMatches
<1>7. WalksGood => WalksGood'
  <2>. HIDE DEF still
  <2> QED BY <1>3, <1>4 DEF WalksGood, WalkGood
<1>8. CursorsStayHome => CursorsStayHome'
  BY <1>4 DEF CursorsStayHome
<1> QED BY <1>5, <1>6, <1>7, <1>8

Environment ==
  \/ \E k \in Keys : (\E v \in Vals : Put(k, v)) \/ Remove(k)
  \/ \E c \in Configs : Reload(c)

LEMMA EnvironmentStep ==
  ASSUME TypeOK, Environment
  PROVE  TypeOK' /\ issued' = issued /\ Watched(table', config')
<1>1. Watched(table', config')
  BY DEF Environment, Put, Remove, Reload, Watched
<1>2. walk' \in [Walks -> WalkType]
  BY <1>1, WatchedGood
<1>3. ASSUME NEW k \in Keys, NEW v \in Vals, Put(k, v)
      PROVE  TypeOK' /\ issued' = issued
  <2>1. DOMAIN table' \subseteq Keys /\ \A j \in DOMAIN table' : table'[j] \in Vals
    BY <1>3 DEF Put, TypeOK
  <2> QED BY <1>2, <1>3, <2>1 DEF Put, TypeOK
<1>4. ASSUME NEW k \in Keys, Remove(k)
      PROVE  TypeOK' /\ issued' = issued
  <2>1. DOMAIN table' \subseteq Keys /\ \A j \in DOMAIN table' : table'[j] \in Vals
    BY <1>4 DEF Remove, TypeOK
  <2> QED BY <1>2, <1>4, <2>1 DEF Remove, TypeOK
<1>5. ASSUME NEW c \in Configs, Reload(c)
      PROVE  TypeOK' /\ issued' = issued
  BY <1>2, <1>5 DEF Reload, TypeOK
<1> QED BY <1>1, <1>3, <1>4, <1>5 DEF Environment

\* Where a client starts from.
Start(start, w) ==
  [Idle EXCEPT !.base = start.cursor, !.home = start.from, !.after = start.cursor,
               !.steady = Matching(WhereOf[w], table, config)]

LEMMA StartType ==
  ASSUME TypeOK, NEW w \in Walks,
         NEW start \in {[cursor |-> NoCursor, from |-> NoCursor]} \cup issued
  PROVE  /\ start.cursor \in Cursor \cup {NoCursor} /\ start.from \in Wheres \cup {NoCursor}
         /\ Start(start, w) \in WalkType
         /\ Start(start, w).seen = {} /\ Start(start, w).page = {}
         /\ Start(start, w).base = start.cursor /\ Start(start, w).after = start.cursor
         /\ Start(start, w).home = start.from
         /\ Start(start, w).steady = Matching(WhereOf[w], table, config)
<1>1. start.cursor \in Cursor \cup {NoCursor} /\ start.from \in Wheres \cup {NoCursor}
  BY DEF TypeOK
<1>2. Matching(WhereOf[w], table, config) \in SUBSET Keys
  BY DEF TypeOK, Matching
<1>3. Idle \in WalkType
  BY IdleType
<1>. DEFINE T == Matching(WhereOf[w], table, config)
<1>4. [Idle EXCEPT !.base = start.cursor, !.home = start.from, !.after = start.cursor, !.steady = T]
        \in WalkType
  <2>. HIDE DEF T
  <2> QED BY <1>1, <1>2, <1>3 DEF WalkType, T
<1>5. Start(start, w) \in WalkType
  BY <1>4 DEF Start
<1>6. /\ Start(start, w).seen = {} /\ Start(start, w).page = {}
      /\ Start(start, w).base = start.cursor /\ Start(start, w).after = start.cursor
      /\ Start(start, w).home = start.from
      /\ Start(start, w).steady = T
  BY DEF Start, Idle
<1> QED BY <1>1, <1>5, <1>6

LEMMA BeginStep ==
  ASSUME TypeOK, NEW w \in Walks, NEW first \in Firsts \cup {NoFirst}, Begin(w, first)
  PROVE  \E start \in {[cursor |-> NoCursor, from |-> NoCursor]} \cup issued :
           Page(w, first, start.cursor, Start(start, w))
BY DEF Begin, Start

\* The other clients keep the state they have.
LEMMA OthersGood ==
  ASSUME SteadyMatches, WalksGood, NEW w \in Walks,
         table' = table, config' = config,
         \A u \in Walks \ {w} : walk'[u] = walk[u],
         walk'[w].steady \subseteq Matching(WhereOf[w], table, config),
         WalkGood(WhereOf[w], walk'[w])
  PROVE  SteadyMatches' /\ WalksGood'
BY DEF SteadyMatches, WalksGood, WalkGood

LEMMA NextInv == ExactCursors /\ Inv /\ [Next]_vars => Inv'
<1>. SUFFICES ASSUME ExactCursors, Inv, [Next]_vars PROVE Inv'
  OBVIOUS
<1>. USE DEF Inv
<1>1. CASE Environment
  BY <1>1, EnvironmentStep, WatchedGood
<1>2. ASSUME NEW w \in Walks, NEW first \in Firsts \cup {NoFirst}, Begin(w, first)
      PROVE  Inv'
  <2>1. PICK start \in {[cursor |-> NoCursor, from |-> NoCursor]} \cup issued :
          Page(w, first, start.cursor, Start(start, w))
    BY <1>2, BeginStep
  <2>. DEFINE old == Start(start, w)
  <2>2. /\ start.cursor \in Cursor \cup {NoCursor}
        /\ old \in WalkType /\ old.seen = {} /\ old.page = {}
        /\ old.base = start.cursor /\ old.after = start.cursor
        /\ old.steady = Matching(WhereOf[w], table, config)
    BY StartType
  <2>. HIDE DEF old
  <2>3. Passed(old.seen \cup old.page, start.cursor)
    BY <2>2 DEF Passed
  <2>4. Page(w, first, start.cursor, old)
    BY <2>1 DEF old
  <2>5. /\ TypeOK'
        /\ \A u \in Walks \ {w} : walk'[u] = walk[u]
        /\ walk'[w].steady = old.steady
        /\ WalkGood(WhereOf[w], walk'[w])
    BY <2>2, <2>3, <2>4, PageStep
  <2>6. table' = table /\ config' = config
    BY <2>4 DEF Page
  <2> QED BY <2>2, <2>5, <2>6, OthersGood
<1>3. ASSUME NEW w \in Walks, NEW first \in Firsts \cup {NoFirst}, Continue(w, first)
      PROVE  Inv'
  <2>1. Page(w, first, walk[w].after, walk[w])
    BY <1>3 DEF Continue
  <2>2. walk[w] \in WalkType /\ walk[w].after \in Cursor \cup {NoCursor}
    BY DEF TypeOK, WalkType
  <2>3. WalkGood(WhereOf[w], walk[w]) /\ walk[w].steady \subseteq Matching(WhereOf[w], table, config)
    BY DEF WalksGood, SteadyMatches
  <2>4. /\ TypeOK'
        /\ \A u \in Walks \ {w} : walk'[u] = walk[u]
        /\ walk'[w].steady = walk[w].steady
        /\ WalkGood(WhereOf[w], walk'[w])
    BY <2>1, <2>2, <2>3, PageStep DEF WalkGood
  <2>5. table' = table /\ config' = config
    BY <2>1 DEF Page
  <2> QED BY <2>3, <2>4, <2>5, OthersGood
<1>4. CASE UNCHANGED vars
  BY <1>4 DEF vars, TypeOK, SteadyMatches, WalksGood, WalkGood
<1> QED BY <1>1, <1>2, <1>3, <1>4 DEF Next, Environment

LEMMA NextHome == ShapesApart /\ HomeInv /\ [Next]_vars => HomeInv'
<1>. SUFFICES ASSUME ShapesApart, HomeInv, [Next]_vars PROVE HomeInv'
  OBVIOUS
<1>. USE DEF HomeInv
<1>1. CASE Environment
  BY <1>1, EnvironmentStep, WatchedGood
<1>2. ASSUME NEW w \in Walks, NEW first \in Firsts \cup {NoFirst}, Begin(w, first)
      PROVE  HomeInv'
  <2>1. PICK start \in {[cursor |-> NoCursor, from |-> NoCursor]} \cup issued :
          Page(w, first, start.cursor, Start(start, w))
    BY <1>2, BeginStep
  <2>2. /\ TypeOK'
        /\ \A u \in Walks \ {w} : walk'[u] = walk[u]
        /\ walk'[w].home = start.from
    <3>1. /\ start.cursor \in Cursor \cup {NoCursor}
          /\ Start(start, w) \in WalkType
          /\ Start(start, w).home = start.from
      BY StartType
    <3>. DEFINE old == Start(start, w)
    <3>. HIDE DEF old
    <3> QED BY <2>1, <3>1, PageStep DEF old
  <2>3. start.from \in {NoCursor, WhereOf[w]}
    <3>1. CASE start \in issued
      <4>1. start.cursor \in Cursor /\ start.from \in Wheres
        BY <3>1 DEF TypeOK
      <4>2. start.cursor # NoCursor
        BY <4>1, RequestAssumption
      <4>3. start.cursor.shape = Shape[WhereOf[w]] /\ start.cursor.shape = Shape[start.from]
        BY <2>1, <3>1, <4>2 DEF Page, Accepts, TypeOK
      <4> QED BY <4>1, <4>3, WhereAssumption DEF ShapesApart
    <3>2. CASE start = [cursor |-> NoCursor, from |-> NoCursor]
      BY <3>2
    <3> QED BY <3>1, <3>2
  <2> QED BY <2>2, <2>3 DEF CursorsStayHome
<1>3. ASSUME NEW w \in Walks, NEW first \in Firsts \cup {NoFirst}, Continue(w, first)
      PROVE  HomeInv'
  <2>1. Page(w, first, walk[w].after, walk[w])
    BY <1>3 DEF Continue
  <2>2. walk[w] \in WalkType /\ walk[w].after \in Cursor \cup {NoCursor}
    BY DEF TypeOK, WalkType
  <2>3. /\ TypeOK'
        /\ \A u \in Walks \ {w} : walk'[u] = walk[u]
        /\ walk'[w].home = walk[w].home
    BY <2>1, <2>2, PageStep
  <2> QED BY <2>3 DEF CursorsStayHome
<1>4. CASE UNCHANGED vars
  BY <1>4 DEF vars, TypeOK, CursorsStayHome
<1> QED BY <1>1, <1>2, <1>3, <1>4 DEF Next, Environment

LEMMA NextType == TypeOK /\ [Next]_vars => TypeOK'
<1>. SUFFICES ASSUME TypeOK, [Next]_vars PROVE TypeOK'
  OBVIOUS
<1>1. CASE Environment
  BY <1>1, EnvironmentStep
<1>2. ASSUME NEW w \in Walks, NEW first \in Firsts \cup {NoFirst}, Begin(w, first)
      PROVE  TypeOK'
  <2>1. PICK start \in {[cursor |-> NoCursor, from |-> NoCursor]} \cup issued :
          Page(w, first, start.cursor, Start(start, w))
    BY <1>2, BeginStep
  <2>2. start.cursor \in Cursor \cup {NoCursor} /\ Start(start, w) \in WalkType
    BY StartType
  <2>. DEFINE old == Start(start, w)
  <2>. HIDE DEF old
  <2> QED BY <2>1, <2>2, PageStep DEF old
<1>3. ASSUME NEW w \in Walks, NEW first \in Firsts \cup {NoFirst}, Continue(w, first)
      PROVE  TypeOK'
  <2>1. Page(w, first, walk[w].after, walk[w])
    BY <1>3 DEF Continue
  <2>2. walk[w] \in WalkType /\ walk[w].after \in Cursor \cup {NoCursor}
    BY DEF TypeOK, WalkType
  <2> QED BY <2>1, <2>2, PageStep
<1>4. CASE UNCHANGED vars
  BY <1>4 DEF vars, TypeOK
<1> QED BY <1>1, <1>2, <1>3, <1>4 DEF Next, Environment

LEMMA AlwaysInv ==
  ASSUME ExactCursors PROVE Spec => []Inv
<1>1. Init => Inv
  BY InitInv
<1>2. Inv /\ [Next]_vars => Inv'
  BY NextInv
<1> QED BY <1>1, <1>2, PTL DEF Spec

-----------------------------------------------------------------------------
\* Every variable keeps its type, and a cursor the hash of the filter that it was
\* issued under, however well filters and rows are told apart.
THEOREM PagesTypeCorrect == Spec => []TypeOK
<1>1. Init => TypeOK
  BY InitInv DEF Inv, HomeInv
<1> QED BY <1>1, NextType, PTL DEF Spec

\* With cursors that find their row again, no walk of any client shows a row
\* twice or goes back, whatever the other clients write.
THEOREM WalksAlwaysAscend ==
  ASSUME ExactCursors PROVE Spec => []WalkAscends
<1>1. Inv => WalkAscends
  BY DEF Inv, WalksGood, WalkGood, WalkAscends
<1> QED BY <1>1, AlwaysInv, PTL

\* With such cursors, a client that stops where has_next_page says so has been
\* shown every row that matched its filter all along.
THEOREM NoRowEverMissed ==
  ASSUME ExactCursors PROVE Spec => []NoRowMissed
<1>1. Inv => NoRowMissed
  BY DEF Inv, WalksGood, WalkGood, NoRowMissed
<1> QED BY <1>1, AlwaysInv, PTL

\* With such cursors, has_next_page is never said without a row to go on from,
\* and no page is longer than its size.
THEOREM PagesAlwaysAdvance ==
  ASSUME ExactCursors PROVE Spec => []PagesAdvance
<1>1. Inv => PagesAdvance
  BY DEF Inv, WalksGood, WalkGood, PagesAdvance
<1> QED BY <1>1, AlwaysInv, PTL

\* When no two filters share a hash, a cursor is of use under its own filter
\* only, and every variable keeps its type.
THEOREM CursorsAlwaysStayHome ==
  ASSUME ShapesApart PROVE Spec => [](TypeOK /\ CursorsStayHome)
<1>1. Init => HomeInv
  BY InitInv
<1>2. HomeInv /\ [Next]_vars => HomeInv'
  BY NextHome
<1>3. HomeInv => TypeOK /\ CursorsStayHome
  BY DEF HomeInv
<1> QED BY <1>1, <1>2, <1>3, PTL DEF Spec

-----------------------------------------------------------------------------
(* No page is asked for in vain.  What is left of a walk are the keys after *)
(* its cursor, of rows that are there and of rows that may yet be inserted: *)
(* each page with room for a row ends the walk or leaves fewer of them, so  *)
(* after its first page a walk takes no more of them than there are keys,   *)
(* and one.                                                                 *)

Ahead(c) == {k \in Keys : After(k, c)}

\* The cursor moves to a row that was ahead of it.
MovesOn(c, d) == d # NoCursor /\ \E k \in Ahead(c) : Seek[d.text] = k

\* Only a walk that has begun is done.
DoneHasBegun == \A w \in Walks : walk[w].done => walk[w].begun

\* A walk that is done stays done and where it is; a walk that has begun never
\* has more keys ahead of it than before; and a page that is asked for with room
\* for a row ends the walk or leaves fewer (Relay pagination of the list field:
\* end_cursor and has_next_page).
EveryPageCounts ==
  [][\A w \in Walks :
       /\ walk[w].done => walk'[w].done /\ walk'[w].after = walk[w].after
       /\ walk[w].begun => Ahead(walk'[w].after) \subseteq Ahead(walk[w].after)
       /\ \A first \in Firsts \cup {NoFirst} :
            PageSize(first, config) > 0 /\ Continue(w, first) =>
              walk'[w].done \/ Cardinality(Ahead(walk'[w].after)) < Cardinality(Ahead(walk[w].after))]_vars

LEMMA FewerAhead ==
  ASSUME NEW c \in Cursor \cup {NoCursor}, NEW d, MovesOn(c, d)
  PROVE  Ahead(d) \subseteq Ahead(c) /\ Cardinality(Ahead(d)) < Cardinality(Ahead(c))
<1>1. PICK k \in Ahead(c) : d # NoCursor /\ Seek[d.text] = k
  BY DEF MovesOn
<1>2. c # NoCursor => Seek[c.text] \in Int
  BY KeyAssumption DEF Cursor
<1>3. k \in Keys /\ k \in Int /\ (c # NoCursor => k > Seek[c.text])
  BY <1>1, KeyAssumption DEF Ahead, After
<1>4. \A q \in Ahead(d) : q \in Keys /\ q \in Int /\ q > k
  BY <1>1, KeyAssumption DEF Ahead, After
<1>5. Ahead(d) \subseteq Ahead(c) /\ k \notin Ahead(d)
  <2>1. ASSUME NEW q \in Ahead(d) PROVE q # k /\ q \in Ahead(c)
    <3>1. q \in Keys /\ q \in Int /\ q > k
      BY <1>4
    <3>2. c # NoCursor => q > Seek[c.text]
      BY <1>2, <1>3, <3>1
    <3> QED BY <1>3, <3>1, <3>2 DEF Ahead, After
  <2> QED BY <2>1
<1>6. /\ IsFiniteSet(Ahead(c)) /\ Cardinality(Ahead(c)) \in Nat
      /\ IsFiniteSet(Ahead(d)) /\ Cardinality(Ahead(d)) \in Nat
  BY SubsetOfKeys DEF Ahead
<1>7. Cardinality(Ahead(d)) <= Cardinality(Ahead(c)) /\ Cardinality(Ahead(d)) # Cardinality(Ahead(c))
  BY <1>1, <1>5, <1>6, FS_Subset
<1> QED BY <1>5, <1>6, <1>7

\* A page moves the cursor, or it shows nothing and leaves it.
LEMMA PageMoves ==
  ASSUME ExactCursors, TypeOK, NEW w \in Walks, NEW first \in Firsts \cup {NoFirst},
         NEW old \in WalkType, Page(w, first, old.after, old)
  PROVE  /\ walk'[w].begun /\ \A u \in Walks \ {w} : walk'[u] = walk[u]
         /\ \/ MovesOn(old.after, walk'[w].after)
            \/ walk'[w].after = old.after /\ (PageSize(first, config) > 0 => walk'[w].done)
<1>. DEFINE x == WhereOf[w]
            size == PageSize(first, config)
            S == {k \in Matching(x, table, config) : After(k, old.after)}
<1>1. x \in Wheres /\ size \in Int /\ size >= 0
  BY WhereAssumption, PageSizeType DEF TypeOK, Page, Asks
<1>2. S \in SUBSET Keys
  BY DEF Matching, TypeOK
<1>3. PICK rows \in Fetch(S, size) : \E nodes \in Shown(rows, size) : \E end \in EndCursor(rows, nodes, x) :
        walk' = [walk EXCEPT ![w] = Turned(old, size, nodes, NextPage(rows, nodes, size), end)]
  BY DEF Page
<1>4. PICK nodes \in Shown(rows, size) : \E end \in EndCursor(rows, nodes, x) :
        walk' = [walk EXCEPT ![w] = Turned(old, size, nodes, NextPage(rows, nodes, size), end)]
  BY <1>3
<1>5. PICK end \in EndCursor(rows, nodes, x) :
        walk' = [walk EXCEPT ![w] = Turned(old, size, nodes, NextPage(rows, nodes, size), end)]
  BY <1>4
<1>. HIDE DEF S
<1>6. /\ nodes \subseteq S
      /\ nodes = {} /\ size > 0 => ~HasNext(rows, size)
  BY <1>1, <1>2, SliceFacts
<1>. USE DEF S
<1>7. PICK more : more = NextPage(rows, nodes, size)
  OBVIOUS
<1>8. PICK new : new = Turned(old, size, nodes, more, end)
  OBVIOUS
<1>9. /\ new.begun /\ new.after = IF end = NoCursor THEN old.after ELSE end
      /\ new.done = (~more /\ size > 0)
  BY <1>8 DEF Turned, WalkType
<1>10. walk'[w] = new /\ \A u \in Walks \ {w} : walk'[u] = walk[u]
  BY <1>5, <1>7, <1>8 DEF TypeOK
<1>11. CASE nodes = {}
  <2>1. end = NoCursor
    BY <1>11 DEF EndCursor
  <2>2. size > 0 => new.done
    BY <1>6, <1>7, <1>9, <1>11 DEF NextPage
  <2> QED BY <1>9, <1>10, <2>1, <2>2
<1>12. CASE nodes # {}
  <2>1. PICK last \in nodes : end = Encode(last, x)
    BY <1>12 DEF EndCursor
  <2>2. last \in Ahead(old.after) /\ end.text = Text[last] /\ Seek[end.text] = last
    BY <1>2, <1>6, <2>1 DEF Encode, ExactCursors, Ahead
  <2>3. end # NoCursor
    BY <1>1, <2>1, <2>2, KeyAssumption, WhereAssumption, RequestAssumption DEF Encode, Cursor, Ahead
  <2> QED BY <1>9, <1>10, <2>2, <2>3 DEF MovesOn
<1> QED BY <1>11, <1>12

\* Other clients and reloads leave cursors where they are.
LEMMA EnvironmentStays ==
  ASSUME TypeOK, Environment, NEW w \in Walks
  PROVE  walk'[w].done = walk[w].done /\ walk'[w].begun = walk[w].begun /\ walk'[w].after = walk[w].after
<1>. DEFINE T == walk[w].steady \cap Matching(WhereOf[w], table', config')
<1>1. walk[w] \in WalkType
  BY DEF TypeOK
<1>2. walk'[w] = [walk[w] EXCEPT !.steady = T]
  BY EnvironmentStep DEF Watched
<1>. HIDE DEF T
<1> QED BY <1>1, <1>2 DEF WalkType

\* With cursors that find their row again: a walk that is done stays done, no
\* walk goes back, and every page with room for a row ends the walk or comes
\* nearer to its end, whatever others write and reload in between.  This is
\* what WalkEnds needs besides a client that goes on asking.
THEOREM EveryPageAlwaysCounts ==
  ASSUME ExactCursors PROVE Spec => EveryPageCounts
<1>. DEFINE Counts(w) ==
       /\ walk[w].done => walk'[w].done /\ walk'[w].after = walk[w].after
       /\ walk[w].begun => Ahead(walk'[w].after) \subseteq Ahead(walk[w].after)
       /\ \A first \in Firsts \cup {NoFirst} :
            PageSize(first, config) > 0 /\ Continue(w, first) =>
              walk'[w].done \/ Cardinality(Ahead(walk'[w].after)) < Cardinality(Ahead(walk[w].after))
<1>1. Init => TypeOK /\ DoneHasBegun
  <2>1. Init => \A w \in Walks : walk[w] = Idle
    BY DEF Init
  <2>2. ~Idle.done
    BY DEF Idle
  <2> QED BY <2>1, <2>2, InitInv DEF Inv, DoneHasBegun
<1>2. ASSUME TypeOK, DoneHasBegun, [Next]_vars
      PROVE  DoneHasBegun' /\ \A w \in Walks : UNCHANGED vars \/ Counts(w)
  <2>1. ASSUME NEW w \in Walks, NEW first \in Firsts \cup {NoFirst}, Continue(w, first)
        PROVE  /\ walk'[w].begun /\ \A u \in Walks \ {w} : walk'[u] = walk[u]
               /\ walk[w].begun /\ ~walk[w].done
               /\ Ahead(walk'[w].after) \subseteq Ahead(walk[w].after)
               /\ PageSize(first, config) > 0 =>
                    walk'[w].done \/ Cardinality(Ahead(walk'[w].after)) < Cardinality(Ahead(walk[w].after))
    <3>1. walk[w] \in WalkType /\ walk[w].after \in Cursor \cup {NoCursor}
      BY <1>2 DEF TypeOK, WalkType
    <3>2. Page(w, first, walk[w].after, walk[w]) /\ walk[w].begun /\ ~walk[w].done
      BY <2>1 DEF Continue
    <3>3. /\ walk'[w].begun /\ \A u \in Walks \ {w} : walk'[u] = walk[u]
          /\ \/ MovesOn(walk[w].after, walk'[w].after)
             \/ walk'[w].after = walk[w].after /\ (PageSize(first, config) > 0 => walk'[w].done)
      BY <1>2, <3>1, <3>2, PageMoves
    <3>4. MovesOn(walk[w].after, walk'[w].after) =>
            /\ Ahead(walk'[w].after) \subseteq Ahead(walk[w].after)
            /\ Cardinality(Ahead(walk'[w].after)) < Cardinality(Ahead(walk[w].after))
      BY <3>1, FewerAhead
    <3> QED BY <3>2, <3>3, <3>4
  <2>2. ASSUME NEW w \in Walks, NEW first \in Firsts \cup {NoFirst}, Begin(w, first)
        PROVE  ~walk[w].begun /\ walk'[w].begun /\ \A u \in Walks \ {w} : walk'[u] = walk[u]
    <3>1. PICK start \in {[cursor |-> NoCursor, from |-> NoCursor]} \cup issued :
            Page(w, first, start.cursor, Start(start, w))
      BY <1>2, <2>2, BeginStep
    <3>2. PICK old : old = Start(start, w)
      OBVIOUS
    <3>3. old \in WalkType /\ old.after = start.cursor
      BY <1>2, <3>2, StartType
    <3>4. Page(w, first, old.after, old)
      BY <3>1, <3>2, <3>3
    <3> QED BY <1>2, <2>2, <3>3, <3>4, PageMoves DEF Begin
  <2>3. ASSUME NEW w \in Walks, walk'[w] = walk[w], \A f \in Firsts \cup {NoFirst} : ~Continue(w, f) PROVE Counts(w)
    BY <2>3
  <2>4. CASE Environment
    <3>1. \A w \in Walks : walk'[w].done = walk[w].done /\ walk'[w].begun = walk[w].begun /\ walk'[w].after = walk[w].after
      BY <1>2, <2>4, EnvironmentStays
    <3>2. ASSUME NEW w \in Walks, NEW f \in Firsts \cup {NoFirst}, Continue(w, f), PageSize(f, config) > 0
          PROVE  walk'[w].done \/ Cardinality(Ahead(walk'[w].after)) < Cardinality(Ahead(walk[w].after))
      BY <2>1, <3>2
    <3> QED BY <1>2, <3>1, <3>2 DEF DoneHasBegun
  <2>5. CASE UNCHANGED vars
    BY <1>2, <2>5 DEF vars, DoneHasBegun
  <2>6. ASSUME NEW w \in Walks, NEW first \in Firsts \cup {NoFirst}, Begin(w, first) \/ Continue(w, first)
        PROVE  DoneHasBegun' /\ \A u \in Walks : Counts(u)
    <3>1. DoneHasBegun' /\ \A u \in Walks \ {w} : walk'[u] = walk[u]
      BY <1>2, <2>1, <2>2, <2>6 DEF DoneHasBegun
    <3>2. ASSUME NEW u \in Walks, NEW f \in Firsts \cup {NoFirst}, Continue(u, f), PageSize(f, config) > 0
          PROVE  walk'[u].done \/ Cardinality(Ahead(walk'[u].after)) < Cardinality(Ahead(walk[u].after))
      BY <2>1, <3>2
    <3>3. /\ walk[w].done => walk'[w].done /\ walk'[w].after = walk[w].after
          /\ walk[w].begun => Ahead(walk'[w].after) \subseteq Ahead(walk[w].after)
      BY <1>2, <2>1, <2>2, <2>6 DEF DoneHasBegun
    <3> QED BY <3>1, <3>2, <3>3
  <2> QED BY <1>2, <2>4, <2>5, <2>6 DEF Next, Environment
<1>3. TypeOK /\ DoneHasBegun /\ [Next]_vars => DoneHasBegun' /\ [\A w \in Walks : Counts(w)]_vars
  BY <1>2
<1> QED BY <1>1, <1>3, NextType, PTL DEF Spec, EveryPageCounts
=============================================================================
