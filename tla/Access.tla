-------------------------------- MODULE Access --------------------------------
(***************************************************************************)
(* What the rules of a role grant over a catalog (Resolve and resolveOp of *)
(* rbac/rbac.go).                                                          *)
(*                                                                         *)
(* A catalog maps the names of its tables to their columns, records with a *)
(* name, a kind and whether they are in the primary key.  The rules of a   *)
(* role map names of tables, or Wildcard, to an entry: for each operation  *)
(* [allow, columns, presets], where no columns means all of them, or       *)
(* NoEntry when the file has nothing under the name.                       *)
(***************************************************************************)
EXTENDS Integers, FiniteSets

CONSTANTS Wildcard, NoEntry, Denied

Ops == {"select", "insert", "update", "delete"}

Entry(rules, t) == IF t \in DOMAIN rules THEN rules[t] ELSE NoEntry
Explicit(rules, t) == Entry(rules, t) # NoEntry
Perm(rules, t) == IF Explicit(rules, t) THEN rules[t] ELSE Entry(rules, Wildcard)

Listed(cols, names) == {c \in cols : c.name \in names}
Lacks(cols, names) == \E n \in names : \A c \in cols : c.name # n

\* An operation that lists columns of which the table has none is denied.
\* (EmptyIsAll is a mutant that takes an empty list for all columns once more.)
EmptyIsAll(cols, perm) ==
  IF ~perm.allow THEN Denied
  ELSE LET own == Listed(cols, perm.columns)
       IN  [columns |-> IF own = {} THEN cols ELSE own, presets |-> Listed(cols, perm.presets)]
resolveOp(cols, perm) ==
  IF ~perm.allow \/ (perm.columns # {} /\ Listed(cols, perm.columns) = {}) THEN Denied
  ELSE [columns |-> IF perm.columns = {} THEN cols ELSE Listed(cols, perm.columns),
        presets |-> Listed(cols, perm.presets)]

Resolve(rules, cat) ==
  [t \in DOMAIN cat |-> [op \in Ops |->
     IF Perm(rules, t) = NoEntry THEN Denied ELSE resolveOp(cat[t], Perm(rules, t)[op])]]

\* The errors of Resolve: a table that is not exposed, and a column that does
\* not exist, which only a rule for "*" may list.
UnknownTable(rules, cat) == ~ DOMAIN rules \subseteq DOMAIN cat \cup {Wildcard}
UnknownColumn(rules, cat) ==
  \E t \in DOMAIN cat : Explicit(rules, t) /\
    \E op \in Ops : LET perm == rules[t][op]
                    IN  perm.allow /\ Lacks(cat[t], perm.columns \cup perm.presets)
=============================================================================
