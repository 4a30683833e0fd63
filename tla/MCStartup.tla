------------------------------ MODULE MCStartup ------------------------------
(***************************************************************************)
(* Seeders of two tables, and the rules of two roles.  Some pairs of       *)
(* tables have names that collide, in ways that only some roles would see. *)
(***************************************************************************)
EXTENDS Startup

MCWords ==
  [users |-> <<"users">>, posts |-> <<"posts">>, users_one |-> <<"users", "one">>,
   users_nearest |-> <<"users", "nearest">>,
   dashed |-> <<"users", "one">>, page_info |-> <<"page", "info">>,
   id |-> <<"id">>, name |-> <<"name">>, under |-> <<"", "", "", "id">>, single |-> <<"", "id">>,
   pk |-> <<"pk">>, second |-> <<"2nd">>]

num(name, pk) == [name |-> name, kind |-> "numeric", pk |-> pk]
text(name) == [name |-> name, kind |-> "text", pk |-> FALSE]
generated(name) == [name |-> name, kind |-> "generated", pk |-> FALSE]
vector(name) == [name |-> name, kind |-> "vector", pk |-> FALSE]

Plain == {num("id", TRUE), text("name")}
Made(t, u, first, second) ==
  [order |-> <<t, u>>, columns |-> [x \in {t, u} |-> IF x = t THEN first ELSE second]]

\* users_one is also what insert_users_one is called after; users_nearest has a
\* by_pk field, which is also that of a vector column pk.
MCSchemas ==
  {Made("users", "posts", Plain, Plain),
   Made("posts", "users", Plain, {num("id", FALSE), text("name")}),
   Made("users", "posts", {num("id", TRUE)}, {text("name")}),
   Made("users", "posts", Plain, {num("pk", TRUE), generated("name")}),
   Made("users", "posts", {num("under", TRUE), num("single", FALSE)}, Plain),
   Made("users", "users_one", Plain, Plain),
   Made("users_one", "dashed", Plain, Plain),
   Made("users", "users_nearest", Plain \cup {vector("pk")}, Plain),
   Made("users", "page_info", Plain, {num("id", TRUE), text("second")})}

No == [allow |-> FALSE, columns |-> {}, presets |-> {}]
Op(columns, presets) == [allow |-> TRUE, columns |-> columns, presets |-> presets]
Rule(select, insert) == [op \in Ops |-> CASE op = "select" -> select [] op = "insert" -> insert [] OTHER -> No]
All == [op \in Ops |-> Op({}, {})]

Rules(named, entry, wildcard) ==
  [t \in named \cup {Wildcard} |-> IF t = Wildcard THEN wildcard ELSE entry]

admin == Rules({}, NoEntry, All)
\* Reads the names of all tables that have one, and all of users.
reader == Rules({"users"}, Rule(Op({}, {}), No), Rule(Op({"id", "name"}, {}), No))
\* An entry with nothing under it; rules that list names which not all have.
author == Rules({"posts"}, Rule(Op({"id", "name"}, {}), Op({"name"}, {"name"})), Rule(Op({"name"}, {}), No))
empty == Rules({"users"}, NoEntry, Rule(Op({"id"}, {"name"}), Op({}, {"id"})))

\* The identity table must have an id and a name; not every schema's users do.
Config(roles, custom, identity) ==
  [roles |-> roles, custom |-> custom, identity |-> identity, required |-> {"id", "name"}, login |-> TRUE]
Field(op, name) == [ns |-> <<op>>, name |-> name]
MCConfigs ==
  {Config({admin}, {}, "users"),
   [Config({admin}, {}, "users") EXCEPT !.login = FALSE],
   Config({empty}, {}, NoTable),
   Config({reader, empty}, {}, "posts"),
   Config({author, admin}, {}, NoTable),
   Config({admin}, {Field("query", <<"users", "by", "pk">>), Field("mutation", <<"insert", "posts">>)}, NoTable)}
=============================================================================
