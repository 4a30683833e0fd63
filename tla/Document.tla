------------------------------ MODULE Document ------------------------------
(***************************************************************************)
(* The document of a request: the depth check, and after validation the    *)
(* fields <table>_aggregate, whose resolver reads the selections below it  *)
(* to learn what to compute (flattenFields, collectAggSelections and       *)
(* runAggregate of schema/aggregate.go).                                   *)
(***************************************************************************)
EXTENDS QueryDepth

CONSTANT Columns   \* readable columns of the aggregated table

Functions == {"sum", "avg", "min", "max"}

VARIABLE req       \* what the aggregate field computes, once it is resolved

NoRequest == [count |-> FALSE, columns |-> [f \in Functions |-> {}]]

-----------------------------------------------------------------------------
(* The document with its fragments written out.                            *)

\* The sets that the selections of these kinds lead to from those of S.
Beneath(S, kinds) ==
  {Target(sel) : sel \in {e \in UNION {ToSet(doc.sets[s]) : s \in S} : e.kind \in kinds}} \ {None}

\* All that is reached by them: the least set with S that nothing leads out of.
Closed(S, kinds) == {C \in SUBSET Sets : S \subseteq C /\ Beneath(C, kinds) \subseteq C}
Reach(S, kinds) == LET closed == Closed(S, kinds) IN {t \in Sets : \A C \in closed : t \in C}

Kinds == {"field", "inline", "spread"}

\* The places of the fields that a client finds in the sets S, fragments followed.
Places(S) ==
  LET open == Reach(S, {"inline", "spread"})
  IN  UNION {{<<s, i>> : i \in {j \in DOMAIN doc.sets[s] : doc.sets[s][j].kind = "field"}} : s \in open}
At(p) == doc.sets[p[1]][p[2]]
Subs(P) == {At(p).sub : p \in P} \ {None}
Named(P, names) == P # {} /\ \A p \in P : At(p).name \in names

-----------------------------------------------------------------------------
(* The aggregate field.                                                    *)

\* flattenFields: the fields of a set in their order, fragments followed.
flattenFields[s \in Sets \cup {None}] ==
  IF s = None THEN <<>>
  ELSE FlattenSeq([i \in DOMAIN doc.sets[s] |->
         LET sel == doc.sets[s][i]
         IN  IF sel.kind = "field" THEN <<sel>> ELSE flattenFields[Target(sel)]])

\* fieldNames, and the columns they are.  (OwnFields is a mutant that sees only
\* those that stand in the set itself.)
OwnFields(s) == {sel.name : sel \in {e \in ToSet(doc.sets[s]) : e.kind = "field"}} \cap Columns
cols(s) == {f.name : f \in ToSet(flattenFields[s])} \cap Columns

\* Every selection of a function replaces the columns of the one before.
Assigned(fields, f) ==
  LET at == {i \in DOMAIN fields : fields[i].name = f}
  IN  IF at = {} THEN {} ELSE cols(fields[Max(at)].sub)

collectAggSelections(asts) ==
  LET fields == FlattenSeq([i \in DOMAIN asts |-> flattenFields[asts[i].sub]])
  IN  [count |-> \E f \in ToSet(fields) : f.name = "count",
       columns |-> [f \in Functions |-> Assigned(fields, f)]]

\* runAggregate: a query without any aggregate counts the rows.
Computed(r) == [r EXCEPT !.count = @ \/ \A f \in Functions : r.columns[f] = {}]

\* Validation by graphql-go, for documents of one operation that selects
\* aggregates of one table under one name, and the fields the executor merges.
FieldPlaces == Places(Subs(Places({doc.ops[1]})))
Valid ==
  /\ Len(doc.ops) = 1 /\ Acyclic
  /\ \A f \in DOMAIN doc.frags : doc.frags[f] \in Reach({doc.ops[1]}, Kinds)
  /\ Named(Places({doc.ops[1]}), {"aggregate"})
  /\ Named(FieldPlaces, Functions \cup {"count"})
  /\ \A p \in FieldPlaces : At(p).name # "count" => Named(Places(Subs({p})), Columns)

Resolve ==
  /\ verdict = "accepted" /\ req = NoRequest
  /\ Valid
  /\ req' = Computed(collectAggSelections(flattenFields[doc.ops[1]]))
  /\ UNCHANGED vars

RequestInit == Init /\ req = NoRequest
RequestNext == (Next /\ UNCHANGED req) \/ Resolve
RequestSpec == RequestInit /\ [][RequestNext]_<<vars, req>>

-----------------------------------------------------------------------------
(* Properties.                                                             *)

\* Where the client selects f, and the columns it selects there.
Uses(f) == {p \in FieldPlaces : At(p).name = f}
Selected(f) == {At(p).name : p \in Places(Subs(Uses(f)))}

\* "Only the aggregates you actually select are computed", and those "even when
\* the client wraps them in fragments": no column is computed that was not
\* selected, and each that was, of a function that is selected in one place.
AggregatesComputed ==
  req # NoRequest => \A f \in Functions :
    /\ req.columns[f] \subseteq Selected(f)
    /\ Cardinality(Uses(f)) = 1 => req.columns[f] = Selected(f)

\* README, limitations: "aggregate and relationship selections are computed
\* correctly even when the client wraps them in fragments".  A function that is
\* selected in two places, once in a fragment say, keeps only the columns of
\* the last one; the others are answered with null.
AggregatesAnswered ==
  req # NoRequest => \A f \in Functions : Selected(f) \subseteq req.columns[f]
=============================================================================
