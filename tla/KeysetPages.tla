----------------------------- MODULE KeysetPages -----------------------------
(***************************************************************************)
(* <table>_connection: keyset pagination (addConnectionField of            *)
(* schema/builder.go, schema/cursor.go, runKeysetPage of                   *)
(* schema/sqlgen.go).                                                      *)
(*                                                                         *)
(* Clients walk through a table page by page, every request one SQL query  *)
(* of its own, while other clients insert, change and delete rows and a    *)
(* hot reload changes the page sizes and the role's row filter.  A client  *)
(* may also start from a cursor that some other walk was given.            *)
(***************************************************************************)
EXTENDS Integers, FiniteSets

CONSTANTS
  Keys,        \* primary keys, by their place in the clustered index
  Vals,        \* the rest of a row, as far as filters look at it
  Walks,       \* clients paging through the table
  Wheres,      \* `where` arguments
  WhereOf,     \* WhereOf[w] is the where argument of walk w
  Admits,      \* Admits[x] is the set of values the where argument x lets through
  Configs,     \* [default, max, filter]: page sizes and the role's row filter
  Firsts,      \* values of `first` that clients send
  NoFirst,     \* `first` left out
  NoCursor,    \* `after` left out, or a null end_cursor
  Texts,       \* key values as the cursor carries them
  Text,        \* Text[k] is the text the cursor of key k carries
  Seek,        \* Seek[x] is the key the database takes the bound text x for
  Shapes,      \* hashes of table and filter
  Shape,       \* Shape[x] is the hash of the where argument x
  MaxWrites    \* bound on writes by other clients

Config == [default : Int, max : Int, filter : SUBSET Vals]
Cursor == [text : Texts, shape : Shapes]

ASSUME KeyAssumption ==
  IsFiniteSet(Keys) /\ Keys \subseteq Int /\ Text \in [Keys -> Texts] /\ Seek \in [Texts -> Int]
ASSUME WhereAssumption ==
  /\ WhereOf \in [Walks -> Wheres]
  /\ Admits \in [Wheres -> SUBSET Vals]
  /\ Shape \in [Wheres -> Shapes]
ASSUME ConfigAssumption ==
  /\ Configs \subseteq Config
  /\ \A c \in Configs : c.default <= c.max
ASSUME RequestAssumption ==
  Firsts \subseteq Int /\ NoFirst \notin Firsts /\ NoCursor \notin Cursor /\ MaxWrites \in Nat

VARIABLES
  table,     \* the rows: a function from the keys in the table to values
  config,    \* configuration in force
  issued,    \* cursors handed out, each with the where argument it came from
  walk,      \* state of every client
  writes     \* number of writes so far

vars == <<table, config, issued, walk, writes>>

-----------------------------------------------------------------------------
\* combineConds: the where argument and the role's filter.
Matching(x, t, c) == {k \in DOMAIN t : t[k] \in Admits[x] \cap c.filter}

\* Page size: the default, what the client asks for, at most the maximum.
PageSize(first, c) ==
  LET asked == IF first = NoFirst THEN c.default ELSE first
  IN  IF asked > c.max THEN c.max ELSE asked

\* A negative `first` is refused; a negative page size has no rows to slice.
Asks(first, c) == (first # NoFirst => first >= 0) /\ PageSize(first, c) >= 0

\* encodeCursor and stringifyKey.  (EncodeUnbound is a mutant that hashes no
\* filter.)
EncodeUnbound(k, x) == [text |-> Text[k], shape |-> Shape[CHOOSE y \in Wheres : TRUE]]
Encode(k, x) == [text |-> Text[k], shape |-> Shape[x]]

\* decodeCursor: only a cursor of the same filter is taken.
\* (AnyCursor is a mutant without the test.)
AnyCursor(c, x) == c # NoCursor => c \in Cursor
Accepts(c, x) == c # NoCursor => c.shape = Shape[x]

\* keysetCondition: rows after the cursor's, pk > ?.
\* (AfterOrAt is a mutant with pk >= ?.)
AfterOrAt(k, c) == c # NoCursor => k >= Seek[c.text]
After(k, c) == c # NoCursor => k > Seek[c.text]

\* ORDER BY pk LIMIT n over the rows S: a set with one element.
Limit(S, n) ==
  {P \in SUBSET S : /\ Cardinality(P) <= n
                    /\ Cardinality(P) = n \/ P = S
                    /\ \A p \in P, q \in S \ P : p < q}

\* runKeysetPage: one row more than the page shows.
\* (FetchExact is a mutant that does not look past the page.)
FetchExact(S, size) == Limit(S, size)
Fetch(S, size) == Limit(S, size + 1)

HasNext(rows, size) == Cardinality(rows) > size

\* The slice that the client is shown.
Shown(rows, size) == IF HasNext(rows, size) THEN Limit(rows, size) ELSE {rows}

\* page_info.has_next_page: a page without rows never claims another.
\* (ClaimsNext is a mutant without that rule.)
ClaimsNext(rows, nodes, size) == HasNext(rows, size)
NextPage(rows, nodes, size) == HasNext(rows, size) /\ nodes # {}

\* page_info.end_cursor: the cursor of the last row shown.
EndCursor(rows, nodes, x) ==
  IF nodes = {} THEN {NoCursor}
  ELSE {Encode(k, x) : k \in {p \in nodes : \A q \in nodes : q <= p}}

-----------------------------------------------------------------------------
\* A client that has not asked for anything.
Idle == [begun |-> FALSE, base |-> NoCursor, home |-> NoCursor, after |-> NoCursor,
         seen |-> {}, page |-> {}, steady |-> {}, hasNext |-> FALSE, asked |-> 0, done |-> FALSE]

Init ==
  /\ table \in UNION {[S -> Vals] : S \in SUBSET Keys}
  /\ config \in Configs
  /\ issued = {}
  /\ walk = [w \in Walks |-> Idle]
  /\ writes = 0

\* steady: the rows that have matched ever since the walk began.
Watched(t, c) ==
  walk' = [w \in Walks |-> [walk[w] EXCEPT !.steady = @ \cap Matching(WhereOf[w], t, c)]]

\* Another client inserts or changes a row.
Put(k, v) ==
  /\ writes < MaxWrites
  /\ table' = [j \in DOMAIN table \cup {k} |-> IF j = k THEN v ELSE table[j]]
  /\ writes' = writes + 1
  /\ Watched(table', config)
  /\ UNCHANGED <<config, issued>>

\* Another client deletes a row.
Remove(k) ==
  /\ writes < MaxWrites
  /\ table' = [j \in DOMAIN table \ {k} |-> table[j]]
  /\ writes' = writes + 1
  /\ Watched(table', config)
  /\ UNCHANGED <<config, issued>>

\* A hot reload changes page sizes or the row filter of the role.
Reload(c) ==
  /\ config' = c
  /\ Watched(table, c)
  /\ UNCHANGED <<table, issued, writes>>

\* What the client does with a page: it goes on from end_cursor, and stops
\* when a page it had room for says that there is no next one.
Turned(old, size, nodes, more, end) ==
  [old EXCEPT !.begun = TRUE,
              !.seen = @ \cup old.page,
              !.page = nodes,
              !.after = IF end = NoCursor THEN @ ELSE end,
              !.hasNext = more,
              !.asked = size,
              !.done = ~more /\ size > 0]

\* The resolver for `first` and `after`: reads one page and answers.
Page(w, first, after, old) ==
  LET x == WhereOf[w]
      size == PageSize(first, config)
      rest == {k \in Matching(x, table, config) : After(k, after)}
  IN  /\ Asks(first, config) /\ Accepts(after, x)
      /\ \E rows \in Fetch(rest, size) : \E nodes \in Shown(rows, size) :
           \E end \in EndCursor(rows, nodes, x) :
             /\ walk' = [walk EXCEPT ![w] = Turned(old, size, nodes, NextPage(rows, nodes, size), end)]
             /\ issued' = issued \cup {[cursor |-> c, from |-> x] : c \in {end} \ {NoCursor}}
      /\ UNCHANGED <<table, config, writes>>

\* A client asks for its first page, with no cursor or with any cursor that
\* somebody was given.
Begin(w, first) ==
  /\ ~walk[w].begun
  /\ \E start \in {[cursor |-> NoCursor, from |-> NoCursor]} \cup issued :
       Page(w, first, start.cursor,
            [Idle EXCEPT !.base = start.cursor, !.home = start.from, !.after = start.cursor,
                         !.steady = Matching(WhereOf[w], table, config)])

\* A client asks for the next page, or again for a page that showed nothing.
Continue(w, first) ==
  /\ walk[w].begun /\ ~walk[w].done
  /\ Page(w, first, walk[w].after, walk[w])

Next ==
  \/ \E k \in Keys : (\E v \in Vals : Put(k, v)) \/ Remove(k)
  \/ \E c \in Configs : Reload(c)
  \/ \E w \in Walks, first \in Firsts \cup {NoFirst} : Begin(w, first) \/ Continue(w, first)

Spec == Init /\ [][Next]_vars

\* A client that has begun goes on, sooner or later with room for a row.
Fairness ==
  \A w \in Walks :
    WF_vars(\E first \in Firsts \cup {NoFirst} : PageSize(first, config) > 0 /\ Continue(w, first))

FairSpec == Spec /\ Fairness

-----------------------------------------------------------------------------
WalkType ==
  [begun : BOOLEAN, base : Cursor \cup {NoCursor}, home : Wheres \cup {NoCursor},
   after : Cursor \cup {NoCursor}, seen : SUBSET Keys, page : SUBSET Keys, steady : SUBSET Keys,
   hasNext : BOOLEAN, asked : Int, done : BOOLEAN]

\* Every variable has its type, and a cursor handed out carries the hash of
\* the filter it was issued under, whoever passes it on.
TypeOK ==
  /\ DOMAIN table \subseteq Keys /\ \A k \in DOMAIN table : table[k] \in Vals
  /\ config \in Configs
  /\ issued \subseteq [cursor : Cursor, from : Wheres]
  /\ \A i \in issued : i.cursor.shape = Shape[i.from]
  /\ walk \in [Walks -> WalkType]
  /\ writes \in Nat

\* The seek "skips everything up to and including the cursor row": a walk
\* never shows a row twice and never goes back, whatever is inserted, deleted
\* or reloaded between two pages.
WalkAscends ==
  \A w \in Walks : \A p \in walk[w].seen, q \in walk[w].page : p < q

\* "has_next_page tells you when to stop": a client that stops there has seen
\* every row that matched its filter all along.
NoRowMissed ==
  \A w \in Walks : walk[w].done =>
    \A k \in walk[w].steady : After(k, walk[w].base) => k \in walk[w].seen \cup walk[w].page

\* A page that announces another one shows a row, so that its end_cursor can
\* be passed on, and no page is longer than what was asked for.
PagesAdvance ==
  \A w \in Walks :
    /\ walk[w].hasNext => walk[w].page # {}
    /\ Cardinality(walk[w].page) <= walk[w].asked

\* A cursor is "bound to the query's where": no walk starts from a cursor
\* that was issued under another filter.
CursorsStayHome == \A w \in Walks : walk[w].home \in {NoCursor, WhereOf[w]}

\* A walk comes to an end: its client is not sent round in circles.
WalkEnds == \A w \in Walks : walk[w].begun ~> walk[w].done

\* Every cursor finds its row again: key -> text -> key loses nothing.
ExactCursors == \A k \in Keys : Seek[Text[k]] = k

=============================================================================
