---------------------------- MODULE MCGateReload ----------------------------
(***************************************************************************)
(* Small gateways: one or two tables, two roles, two keys, two routes.    *)
(* Each list of configurations holds one content per way a reload can end. *)
(***************************************************************************)
EXTENDS GateReload

CONSTANTS viewer, editor, k1, k2, here, elsewhere, posts, users, audit

Base == [parses |-> TRUE, route |-> here, hot |-> TRUE, roles |-> {viewer},
         blank |-> {}, anon |-> viewer, key |-> k1, lookup |-> FALSE,
         tables |-> {posts}, hooks |-> {}]

TwoRoles == [Base EXCEPT !.roles = {viewer, editor}, !.tables = Tables, !.lookup = TRUE, !.key = k2]
NewRoute == [Base EXCEPT !.route = elsewhere]
BadAnon  == [Base EXCEPT !.anon = editor, !.hot = FALSE]
HalfSave == [Base EXCEPT !.parses = FALSE]
NilRole  == [Base EXCEPT !.roles = {viewer, editor}, !.blank = {editor}]
BadHook  == [Base EXCEPT !.hooks = {audit}]

AllConfigs   == {Base, TwoRoles, NewRoute, BadAnon, HalfSave, NilRole, BadHook}
PlainConfigs == {Base, TwoRoles}
=============================================================================
