---------------------------- MODULE MCKeysetPages ----------------------------
(***************************************************************************)
(* Four keys, two walks with different filters, and a reload that makes    *)
(* pages smaller and hides rows.                                           *)
(***************************************************************************)
EXTENDS KeysetPages

CONSTANTS u, v, all, onlyu

MCAdmits == [x \in {all, onlyu} |-> IF x = all THEN {"a", "b"} ELSE {"a"}]
MCWhereOf == [w \in {u, v} |-> IF w = u THEN all ELSE onlyu]

Cfg(default, max, filter) == [default |-> default, max |-> max, filter |-> filter]
MCConfigs == {Cfg(2, 2, {"a", "b"}), Cfg(1, 1, {"a"})}

\* Integer keys come back as they went out.
Identity == [k \in 1 .. 3 |-> k]
MCFirsts == {-1, 0, 3}
SameShape == [x \in {all, onlyu} |-> x]
=============================================================================
