----------------------------- MODULE MCMutation -----------------------------
(***************************************************************************)
(* Two owners, two keys.  The select filter shows a client its own rows,   *)
(* the update filter keeps it from rows that are closed; one client's      *)
(* updates make the row its own.                                           *)
(***************************************************************************)
EXTENDS Mutation

CONSTANTS p, q, open, closed

MCClaim == [c \in {p, q} |-> c]
Own(c) == {r \in Row : r.owner = c}
Shared == [c \in Clients |-> {r \in Row : r.owner = c \/ r.val = open}]
Owned == [c \in Clients |-> Own(c)]
OpenRows == [c \in Clients |-> {r \in Row : r.val = open}]

Takes == [c \in Clients |-> c = p]

Blank == [op |-> "insert", keys |-> {}, vals |-> Vals, set |-> open, to |-> Absent, objects |-> <<>>]
Obj(k, v) == [key |-> k, val |-> v]
Insert(objects) == [Blank EXCEPT !.objects = objects]
InsertOne(k, v) == [Blank EXCEPT !.op = "insert_one", !.objects = <<Obj(k, v)>>]
UpdateAll(v) == [Blank EXCEPT !.op = "update", !.keys = Keys, !.set = v]
UpdateOne(k, v) == [Blank EXCEPT !.op = "update_by_pk", !.keys = {k}, !.set = v]
MoveAll(to, v) == [UpdateAll(v) EXCEPT !.to = to]
MoveOne(k, to, v) == [UpdateOne(k, v) EXCEPT !.to = to]
DeleteVal(v) == [Blank EXCEPT !.op = "delete", !.keys = Keys, !.vals = {v}]
DeleteOne(k) == [Blank EXCEPT !.op = "delete_by_pk", !.keys = {k}]

MCRequests == {Insert(<<Obj(1, open), Obj(2, closed)>>), Insert(<<Obj(2, open), Obj(1, open)>>),
               Insert(<<>>), InsertOne(AutoKey, open), InsertOne(DefaultKey, open), InsertOne(1, closed),
               UpdateAll(closed), MoveAll(1, closed), UpdateOne(1, closed),
               MoveOne(1, 2, open), UpdateOne(2, open), DeleteVal(closed), DeleteOne(1)}
=============================================================================
