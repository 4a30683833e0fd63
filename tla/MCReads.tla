------------------------------- MODULE MCReads -------------------------------
(***************************************************************************)
(* Comments of two posts with a score that may be NULL or tied and an      *)
(* owner that filters look at.                                             *)
(***************************************************************************)
EXTENDS Reads

row(id, post, score, owner) ==
  [c \in Columns |-> CASE c = "id" -> id [] c = "post" -> post [] c = "score" -> score [] OTHER -> owner]

\* A row, and two more in one of their forms each; the second may be absent.
First == row(1, 1, 1, 1)
Seconds == {{}, {row(2, 1, 1, 1)}, {row(2, 1, Null, 1)}, {row(2, 1, 1, 2)}}
Thirds == {{row(3, 1, 2, 1)}, {row(3, 2, 1, 2)}}
MCTables == {{First} \cup b \cup c : b \in Seconds, c \in Thirds}

Filter(op) == [col |-> "owner", op |-> op]
MCRoles == {[columns |-> {"id", "post", "score"}, filter |-> NoFilter],
            [columns |-> {"id", "post"}, filter |-> Filter("_in")],
            [columns |-> {"post", "score"}, filter |-> Filter("_in")],
            [columns |-> {"id", "score"}, filter |-> Filter("_nin")]}

entry(op, col, list, sub) == [op |-> op, col |-> col, list |-> list, sub |-> sub]
leaf(op, col, list) == entry(op, col, list, {})
scored == {leaf("_gt", "score", {1})}
unscored == {leaf("_is_null", "score", {})}
first == {leaf("_eq", "id", {1})}
others == {leaf("_neq", "owner", {1})}
MCWheres == {{}, scored, unscored, first, others,
             {entry("_not", "", {}, {scored})},
             {entry("_or", "", {}, {first, unscored}), leaf("_nin", "id", {})},
             {entry("_and", "", {}, {others})},
             {leaf("_in", "id", {2, 3}), leaf("_not_null", "post", {})},
             {leaf("_eq", "id", {})}}

byScore(desc) == <<[col |-> "score", desc |-> desc]>>
MCOrders == {<<>>, byScore(FALSE), <<[col |-> "post", desc |-> TRUE], [col |-> "id", desc |-> TRUE]>>}
MCClaims == {{}, {1}, {2, Null}}
MCLimits == {Left, -1, 0, 3}
=============================================================================
