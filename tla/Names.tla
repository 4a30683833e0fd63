-------------------------------- MODULE Names --------------------------------
(***************************************************************************)
(* The names of a generated schema: those that checkNameCollisions claims  *)
(* for the tables of a catalog, and those that the schema of a role is     *)
(* built from (buildRole, addQueryFields, addMutationFields and            *)
(* addCustomFields of schema/builder.go, schema/aggregate.go and           *)
(* schema/vector.go).                                                      *)
(*                                                                         *)
(* A GraphQL name is the sequence of its words, the text between           *)
(* underscores: _role is <<"", "role">>.                                   *)
(***************************************************************************)
EXTENDS Access, Sequences

CONSTANTS
  Words,    \* the words of each identifier of the database, which are parted
            \* by underscores and by characters that GraphQL does not allow
  Digits    \* words that begin with a digit

\* A name does not begin with a digit, nor with two underscores.
Start(w) == CHOOSE i \in 1 .. Len(w) : w[i] # "" /\ \A j \in 1 .. (i - 1) : w[j] = ""
graphqlName(id) ==
  LET w == Words[id]
  IN  IF w[1] \in Digits THEN <<"">> \o w
      ELSE IF Start(w) > 2 THEN SubSeq(w, Start(w) - 1, Len(w)) ELSE w

\* A name in a namespace, and what it stands for.
Named(ns, name, of) == [ns |-> ns, name |-> name, of |-> of]
Clash(S) == \E x, y \in S : x.ns = y.ns /\ x.name = y.name /\ x.of # y.of

OfTable(ns, t, suffixes) == {Named(ns, graphqlName(t) \o s, <<t, s>>) : s \in suffixes}
Nearest(t, cols) ==
  LET suffix(c) == <<"nearest", "by">> \o graphqlName(c.name)
  IN  OfTable(<<"query">>, t, {suffix(c) : c \in {d \in cols : d.kind = "vector"}})
Mutating(op, t, suffixes) ==
  {Named(<<"mutation">>, <<op>> \o graphqlName(t) \o s, <<t, <<op>> \o s>>) : s \in suffixes}

ByPk == <<"by", "pk">>
Connection == <<"connection">>
Aggregate == <<"aggregate">>
SelectTypes ==
  {<<>>, <<"bool", "exp">>, <<"order", "by">>, <<"aggregate", "result">>,
   <<"sum", "fields">>, <<"avg", "fields">>, <<"min", "fields">>, <<"max", "fields">>}
InsertInput == <<"insert", "input">>
SetInput == <<"set", "input">>
Neighbor == <<"neighbor">>

\* Names every schema has, those of the scalars among them.
Fixed ==
  LET scalars == {<<"BigInt">>, <<"Vector">>, <<"String">>}
      types == {<<"Query">>, <<"Mutation">>, <<"order", "by">>, <<"mutation", "response">>,
                <<"page", "info">>, <<"vector", "metric">>}
               \cup scalars \cup {s \o <<"comparison", "exp">> : s \in scalars}
  IN  {Named(<<"query">>, <<"", "role">>, <<"built-in", <<>>>>)}
      \cup {Named(<<"type">>, w, <<"built-in", w>>) : w \in types}

-----------------------------------------------------------------------------
(* checkNameCollisions.                                                    *)

SameName(ids) == \E x, y \in ids : x # y /\ graphqlName(x) = graphqlName(y)

\* (TablesOnly is a mutant that claims no derived names.)
TablesOnly(t, cols) == OfTable(<<"type">>, t, {<<>>})
Claimed(t, cols) ==
  OfTable(<<"query">>, t, {ByPk, Connection, Aggregate}) \cup Nearest(t, cols)
  \cup Mutating("insert", t, {<<>>, <<"one">>})
  \cup Mutating("update", t, {<<>>, ByPk}) \cup Mutating("delete", t, {<<>>, ByPk})
  \cup OfTable(<<"type">>, t, SelectTypes \cup {InsertInput, SetInput, Connection, Neighbor})

checkNameCollisions(cat) ==
  \/ SameName(DOMAIN cat)
  \/ \E t \in DOMAIN cat : SameName({c.name : c \in cat[t]})
  \/ Clash(Fixed \cup UNION {Claimed(t, cat[t]) : t \in DOMAIN cat})

-----------------------------------------------------------------------------
(* The schema of a role, given its access.                                 *)

pkExposable(cols, acc) ==
  LET pk == {c \in cols : c.pk}
  IN  pk # {} /\ acc["select"] # Denied /\ pk \subseteq acc["select"].columns

\* There is a column that the client may set: neither a preset nor generated.
Settable(op) == op # Denied /\ \E c \in op.columns \ op.presets : c.kind # "generated"

Where(cond, S) == IF cond THEN S ELSE {}

OfAccess(t, cols, acc) ==
  LET sel == acc["select"]
      reads == sel # Denied
      byPk == pkExposable(cols, acc)
      vectors == Where(reads, {c \in sel.columns : c.kind = "vector"})
      sets == reads /\ Settable(acc["update"])
      deletes == reads /\ acc["delete"] # Denied
      one(cond, suffix) == {<<>>} \cup Where(cond, {suffix})
  IN  Where(reads, OfTable(<<"query">>, t, {Aggregate}) \cup OfTable(<<"type">>, t, SelectTypes))
      \cup Where(byPk, OfTable(<<"query">>, t, {ByPk, Connection}) \cup OfTable(<<"type">>, t, {Connection}))
      \cup Nearest(t, vectors) \cup Where(vectors # {}, OfTable(<<"type">>, t, {Neighbor}))
      \cup Where(Settable(acc["insert"]),
                 Mutating("insert", t, one(byPk, <<"one">>)) \cup OfTable(<<"type">>, t, {InsertInput}))
      \cup Where(sets, Mutating("update", t, one(byPk, ByPk)) \cup OfTable(<<"type">>, t, {SetInput}))
      \cup Where(deletes, Mutating("delete", t, one(byPk, ByPk)))

\* Where one table has a name of its own for each column, so has its type.
Columns(t, acc) ==
  Where(acc["select"] # Denied,
        {Named(<<"columns", t>>, graphqlName(c.name), <<c.name, <<>>>>) : c \in acc["select"].columns})

Generated(cat, access) ==
  Fixed \cup UNION {OfAccess(t, cat[t], access[t]) \cup Columns(t, access[t]) : t \in DOMAIN cat}

\* addCustomFields: a custom query or mutation field does not take the name of a
\* generated one.
CustomTaken(cat, access, custom) ==
  \E x \in Generated(cat, access), f \in custom : x.ns = f.ns /\ x.name = f.name

\* graphql.NewSchema wants fields in every type; sums and averages have those
\* of the numeric columns.
NoFields(access) ==
  \E t \in DOMAIN access :
    access[t]["select"] # Denied /\ \A c \in access[t]["select"].columns : c.kind # "numeric"
=============================================================================
