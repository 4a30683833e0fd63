----------------------------- MODULE MCDocument -----------------------------
(***************************************************************************)
(* Documents of an operation, set 1, and two fragments: sets 2 and 3 are   *)
(* the bodies of F and G, the others belong to fields and inline fragments *)
(* of sets before them, or to a second operation.                          *)
(***************************************************************************)
EXTENDS Document

field(name, sub) == [kind |-> "field", name |-> name, sub |-> sub]
leaf(name) == field(name, None)
inline(sub) == [kind |-> "inline", name |-> None, sub |-> sub]
spread(name) == [kind |-> "spread", name |-> name, sub |-> None]

Pairs(S) == {<<x, y>> : x \in S, y \in S}
With(sel, S) == {<<sel, x>> : x \in S} \cup {<<x, sel>> : x \in S}
Tree(sets) == [sets |-> sets, frags |-> [f \in {"F", "G"} |-> IF f = "F" THEN 2 ELSE 3], ops |-> <<1>>]
Trees(A, B, C, D, E) == {Tree(<<a, b, c, d, e>>) : a \in A, b \in B, c \in C, d \in D, e \in E}

x == leaf("x")
F == spread("F")
G == spread("G")

\* Any nesting of fields and fragments, with cycles and an unknown fragment.
\* Set 4 is in the operation, set 5 in a fragment or in set 4.
Nestings ==
  LET ops == With(field("y", 4), {x, F, G})
      ends == {<<x>>, <<F>>, <<G>>}
  IN  Trees(ops, With(field("y", 5), {x, G}), Pairs({x, F}) \cup {<<spread("H"), G>>}, ends, ends)
      \cup Trees(ops, Pairs({x, G}), With(inline(5), {x, F}), ends, ends)
      \cup Trees(ops, Pairs({x, G}), Pairs({x, F}), With(inline(5), {x, G}), ends)
      \cup {[d EXCEPT !.ops = <<1, 4>>] :
              d \in Trees(Pairs({x, F}), Pairs({x, G}), Pairs({x, F}), With(field("y", 5), {F, G}), ends)}

\* Aggregates of one table: F is on its result type, G on the columns of a
\* function.  Functions meet in one set, in a fragment, in an inline fragment
\* and in two fields that the executor merges.
Aggregates ==
  LET columns == {<<leaf("a")>>, <<G>>, <<leaf("b"), G>>}
      one == {<<field("aggregate", 4)>>}
      result == {<<leaf("count")>>}
      names == {"avg", "min"}
      G3 == {<<leaf("a")>>, <<leaf("a"), leaf("b")>>}
      inF == {<<field(n, 5)>> : n \in names}
  IN  Trees(one, inF, G3, UNION {With(F, {leaf("count")}), {<<F>>}}, columns)
      \cup {Tree(<<a, f, g, d, e, c>>) :
              a \in one, f \in inF, g \in G3, d \in UNION {With(F, {field(n, 6)}) : n \in names},
              e \in columns, c \in columns}
      \cup {Tree(<<a, r, g, d, i, c, e>>) :
              a \in one, r \in result, g \in G3, d \in {<<inline(5), field(n, 6)>> : n \in names},
              i \in {<<field(n, 7), F>> : n \in names}, c \in columns, e \in columns}
      \cup {Tree(<<a, r, g, <<F, field("avg", 6)>>, <<field(n, 7)>>, c, e>>) :
              a \in {<<field("aggregate", 4), field("aggregate", 5)>>}, r \in result, g \in G3,
              n \in names, c \in columns, e \in columns}

MCDepths == {-1, 1, 2, 3}
MCDocuments == Nestings \cup Aggregates
=============================================================================
