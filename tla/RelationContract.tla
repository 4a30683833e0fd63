-------------------------- MODULE RelationContract --------------------------
(***************************************************************************)
(* What a relationship field promises, however its queries are batched:    *)
(* every value it returns is the answer of the field's own per-row query   *)
(* over a state the database was in while the request ran, or an error,    *)
(* and it is resolved once for each parent.                                *)
(***************************************************************************)
EXTENDS Integers, Sequences

CONSTANTS
  States,            \* states of the database
  Direct(_, _, _),   \* rows of field s for parent key k over database state d
  Children(_, _)     \* fields to resolve below field s for the rows it returned

VARIABLES
  hist,              \* states of the database since the request began
  thunks,            \* fields not resolved yet, records [site, key]
  answers            \* what was returned, records [site, key, ok, rows]

vars == <<hist, thunks, answers>>

Write == \E d \in States : hist' = Append(hist, d) /\ UNCHANGED <<thunks, answers>>

Answer(t, ok, rows) ==
  /\ answers' = answers \cup {[site |-> t.site, key |-> t.key, ok |-> ok, rows |-> rows]}
  /\ UNCHANGED hist

Resolve == \E t \in thunks :
  \/ \E i \in 1..Len(hist) :
       LET rows == Direct(t.site, t.key, hist[i])
       IN  /\ Answer(t, TRUE, rows)
           /\ thunks' = (thunks \ {t}) \cup Children(t.site, rows)
  \/ Answer(t, FALSE, {}) /\ thunks' = thunks \ {t}

Next == Write \/ Resolve

Spec == answers = {} /\ [][Next]_vars
=============================================================================
