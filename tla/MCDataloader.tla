---------------------------- MODULE MCDataloader ----------------------------
(***************************************************************************)
(* posts { comments { comments  some: comments(where: ..)  author } }: a   *)
(* self-referential to-many relationship taken at two depths, the same one *)
(* with an argument, and a to-one relationship.                            *)
(***************************************************************************)
EXTENDS Dataloader

CONSTANTS top, deep, some, author, comments, users, fk1, fk2, noargs, where, a, b, c

MCSites  == {top, deep, some, author}
MCParent == [s \in MCSites |-> IF s = top THEN Root ELSE top]
MCDepth  == [s \in MCSites |-> IF s = top THEN 0 ELSE 1]
MCRel    == [s \in MCSites |-> IF s = author THEN users ELSE comments]
MCArgs   == [s \in MCSites |-> IF s = some THEN where ELSE noargs]
MCDir    == [r \in {comments, users} |-> IF r = comments THEN "in" ELSE "out"]
OwnName  == [r \in {comments, users} |-> IF r = comments THEN fk1 ELSE fk2]

Exact    == [k \in {a, b, c} |-> k]

row(r, at, own) == [rel |-> r, at |-> at, own |-> own]
MCAdmits == [x \in {noargs, where} |->
               IF x = noargs THEN Row ELSE {r \in Row : r.own # b}]

\* Threads a > b > c with a NULL leaf, before and after other clients' edits.
Tree  == {row(comments, a, b), row(comments, a, Null), row(comments, b, c),
          row(comments, c, a), row(users, a, Null), row(users, b, Null), row(users, c, Null)}
Moved == (Tree \ {row(comments, b, c)}) \cup {row(comments, b, b), row(comments, c, b)}
Bare  == {row(users, c, Null), row(comments, b, c)}

ThreadStates == {Tree, Moved, Bare}
TreeState    == {Tree}

\* Two to-many relationships of one parent row, on different tables, that the
\* database named alike.
MCSameSites  == {top, author}
SiblingParent == [s \in {top, author} |-> Root]
SiblingDepth  == [s \in {top, author} |-> 0]
SiblingRel    == [s \in {top, author} |-> IF s = author THEN users ELSE comments]
SiblingArgs   == [s \in {top, author} |-> noargs]
BothIn        == [r \in {comments, users} |-> "in"]
OneName       == [r \in {comments, users} |-> fk1]
=============================================================================
