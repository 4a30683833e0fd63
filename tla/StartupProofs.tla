----------------------------- MODULE StartupProofs -----------------------------
(***************************************************************************)
(* The start of the gateway, for any schema, configuration, window and     *)
(* pause, and any order of the database, the seeder, the clock and the     *)
(* queries of an attempt.                                                  *)
(*                                                                         *)
(* Names and grants are a matter of one catalog and one role and are proved*)
(* without time (NoClash, GrantedWhole).  What the queries of an attempt   *)
(* may find of a schema that is being made is the invariant CatalogSound.  *)
(***************************************************************************)
EXTENDS Startup, TLAPS

(* A catalog without collisions, and the roles over it.                    *)

\* A set of names without a clash has no part with one.
LEMMA SmallerClash ==
  ASSUME NEW S, NEW T, S \subseteq T, Clash(S)
  PROVE  Clash(T)
BY DEF Clash

\* A role is granted columns that the table has.
LEMMA GrantedColumns ==
  ASSUME NEW rules, NEW c, NEW t \in DOMAIN c, NEW op \in Ops, Resolve(rules, c)[t][op] # Denied
  PROVE  Resolve(rules, c)[t][op].columns \subseteq c[t]
<1>1. Resolve(rules, c)[t][op] = resolveOp(c[t], Perm(rules, t)[op])
  BY DEF Resolve
<1> QED BY <1>1 DEF resolveOp, Listed

\* The fields and types of a role are among those that were claimed.
LEMMA OfAccessClaimed ==
  ASSUME NEW rules, NEW c, NEW t \in DOMAIN c
  PROVE  OfAccess(t, c[t], Resolve(rules, c)[t]) \subseteq Claimed(t, c[t])
<1>. DEFINE acc == Resolve(rules, c)[t]
            vectors == Where(acc["select"] # Denied, {x \in acc["select"].columns : x.kind = "vector"})
<1>1. \A ns, S, T : S \subseteq T => OfTable(ns, t, S) \subseteq OfTable(ns, t, T)
  BY DEF OfTable
<1>2. \A op, S, T : S \subseteq T => Mutating(op, t, S) \subseteq Mutating(op, t, T)
  BY DEF Mutating
<1>3. \A cond, S : Where(cond, S) \subseteq S
  BY DEF Where
<1>4. Nearest(t, vectors) \subseteq Nearest(t, c[t])
  <2>1. vectors \subseteq {x \in c[t] : x.kind = "vector"}
    BY GrantedColumns DEF Where, Ops
  <2>. HIDE DEF vectors
  <2> QED BY <2>1, <1>1 DEF Nearest
<1>. DEFINE byPk == pkExposable(c[t], acc)
            one(cond, suffix) == {<<>>} \cup Where(cond, {suffix})
<1>. HIDE DEF acc, vectors, byPk
<1>5. OfTable(<<"query">>, t, {Aggregate}) \cup OfTable(<<"type">>, t, SelectTypes) \subseteq Claimed(t, c[t])
  <2>1. /\ OfTable(<<"query">>, t, {Aggregate}) \subseteq OfTable(<<"query">>, t, {ByPk, Connection, Aggregate})
        /\ OfTable(<<"type">>, t, SelectTypes)
             \subseteq OfTable(<<"type">>, t, SelectTypes \cup {InsertInput, SetInput, Connection, Neighbor})
    BY <1>1
  <2> QED BY <2>1 DEF Claimed
<1>6. OfTable(<<"query">>, t, {ByPk, Connection}) \cup OfTable(<<"type">>, t, {Connection}) \subseteq Claimed(t, c[t])
  <2>1. /\ OfTable(<<"query">>, t, {ByPk, Connection}) \subseteq OfTable(<<"query">>, t, {ByPk, Connection, Aggregate})
        /\ OfTable(<<"type">>, t, {Connection})
             \subseteq OfTable(<<"type">>, t, SelectTypes \cup {InsertInput, SetInput, Connection, Neighbor})
    BY <1>1
  <2> QED BY <2>1 DEF Claimed
<1>7. \A x \in {Neighbor, InsertInput, SetInput} : OfTable(<<"type">>, t, {x}) \subseteq Claimed(t, c[t])
  <2>. TAKE x \in {Neighbor, InsertInput, SetInput}
  <2>1. OfTable(<<"type">>, t, {x})
          \subseteq OfTable(<<"type">>, t, SelectTypes \cup {InsertInput, SetInput, Connection, Neighbor})
    BY <1>1
  <2> QED BY <2>1 DEF Claimed
<1>8. Nearest(t, vectors) \subseteq Claimed(t, c[t])
  BY <1>4 DEF Claimed
<1>9. /\ Mutating("insert", t, one(byPk, <<"one">>)) \subseteq Claimed(t, c[t])
      /\ Mutating("update", t, one(byPk, ByPk)) \subseteq Claimed(t, c[t])
      /\ Mutating("delete", t, one(byPk, ByPk)) \subseteq Claimed(t, c[t])
  <2>1. \A suffix : one(byPk, suffix) \subseteq {<<>>, suffix}
    BY DEF Where
  <2>. HIDE DEF one
  <2>2. /\ Mutating("insert", t, one(byPk, <<"one">>)) \subseteq Mutating("insert", t, {<<>>, <<"one">>})
        /\ Mutating("update", t, one(byPk, ByPk)) \subseteq Mutating("update", t, {<<>>, ByPk})
        /\ Mutating("delete", t, one(byPk, ByPk)) \subseteq Mutating("delete", t, {<<>>, ByPk})
    BY <1>2, <2>1
  <2> QED BY <2>2 DEF Claimed
<1>. DEFINE reads == acc["select"] # Denied
            sets == reads /\ Settable(acc["update"])
            deletes == reads /\ acc["delete"] # Denied
<1>10. OfAccess(t, c[t], acc) =
         Where(reads, OfTable(<<"query">>, t, {Aggregate}) \cup OfTable(<<"type">>, t, SelectTypes))
         \cup Where(byPk, OfTable(<<"query">>, t, {ByPk, Connection}) \cup OfTable(<<"type">>, t, {Connection}))
         \cup Nearest(t, vectors) \cup Where(vectors # {}, OfTable(<<"type">>, t, {Neighbor}))
         \cup Where(Settable(acc["insert"]),
                    Mutating("insert", t, one(byPk, <<"one">>)) \cup OfTable(<<"type">>, t, {InsertInput}))
         \cup Where(sets, Mutating("update", t, one(byPk, ByPk)) \cup OfTable(<<"type">>, t, {SetInput}))
         \cup Where(deletes, Mutating("delete", t, one(byPk, ByPk)))
  BY DEF OfAccess, vectors, byPk
<1>. HIDE DEF reads, sets, deletes, one
<1>11. \A cond, S : S \subseteq Claimed(t, c[t]) => Where(cond, S) \subseteq Claimed(t, c[t])
  BY DEF Where
<1> QED BY <1>5, <1>6, <1>7, <1>8, <1>9, <1>10, <1>11 DEF acc

\* No two generated fields or types of a role share a name, if the catalog has
\* no collisions.
LEMMA NoClash ==
  ASSUME NEW rules, NEW c, ~checkNameCollisions(c)
  PROVE  ~Clash(Generated(c, Resolve(rules, c)))
<1>. DEFINE access == Resolve(rules, c)
            all == Fixed \cup UNION {Claimed(t, c[t]) : t \in DOMAIN c}
            columns == UNION {Columns(t, access[t]) : t \in DOMAIN c}
<1>1. ~Clash(all)
  BY DEF checkNameCollisions
<1>2. Generated(c, access) \subseteq all \cup columns
  BY OfAccessClaimed DEF Generated
<1>3. \A x \in all : x.ns \in {<<"query">>, <<"mutation">>, <<"type">>}
  <2>1. \A x \in Fixed : x.ns \in {<<"query">>, <<"type">>}
    <3>1. \A ns, name, of : Named(ns, name, of).ns = ns
      BY DEF Named
    <3>. DEFINE scalars == {<<"BigInt">>, <<"Vector">>, <<"String">>}
                types == {<<"Query">>, <<"Mutation">>, <<"order", "by">>, <<"mutation", "response">>,
                          <<"page", "info">>, <<"vector", "metric">>}
                         \cup scalars \cup {w \o <<"comparison", "exp">> : w \in scalars}
    <3>2. Fixed = {Named(<<"query">>, <<"", "role">>, <<"built-in", <<>>>>)}
                  \cup {Named(<<"type">>, w, <<"built-in", w>>) : w \in types}
      BY DEF Fixed
    <3>. HIDE DEF types
    <3>3. ASSUME NEW x \in Fixed PROVE x.ns \in {<<"query">>, <<"type">>}
      <4>1. x = Named(<<"query">>, <<"", "role">>, <<"built-in", <<>>>>)
            \/ \E w \in types : x = Named(<<"type">>, w, <<"built-in", w>>)
        BY <3>2
      <4> QED BY <3>1, <4>1
    <3> QED BY <3>3
  <2>2. \A ns, t, S : \A x \in OfTable(ns, t, S) : x.ns = ns
    BY DEF OfTable, Named
  <2>3. \A op, t, S : \A x \in Mutating(op, t, S) : x.ns = <<"mutation">>
    BY DEF Mutating, Named
  <2>4. \A t, cols : \A x \in Nearest(t, cols) : x.ns = <<"query">>
    BY <2>2 DEF Nearest
  <2>5. \A t, cols : \A x \in Claimed(t, cols) : x.ns \in {<<"query">>, <<"mutation">>, <<"type">>}
    BY <2>2, <2>3, <2>4 DEF Claimed
  <2> QED BY <2>1, <2>5
<1>4. \A x \in columns : \E t \in DOMAIN c : \E n \in {d.name : d \in c[t]} :
        x = Named(<<"columns", t>>, graphqlName(n), <<n, <<>>>>)
  <2>. TAKE x \in columns
  <2>1. PICK t \in DOMAIN c : x \in Columns(t, access[t])
    OBVIOUS
  <2>2. PICK d \in access[t]["select"].columns :
          /\ access[t]["select"] # Denied
          /\ x = Named(<<"columns", t>>, graphqlName(d.name), <<d.name, <<>>>>)
    BY <2>1 DEF Columns, Where
  <2>3. d \in c[t]
    BY <2>2, GrantedColumns DEF Ops
  <2> QED BY <2>2, <2>3
<1>. HIDE DEF access, all, columns
<1>5. ASSUME NEW x \in columns, NEW y \in columns, x.ns = y.ns, x.name = y.name PROVE x.of = y.of
  <2>1. PICK t \in DOMAIN c :
          \E n \in {d.name : d \in c[t]} : x = Named(<<"columns", t>>, graphqlName(n), <<n, <<>>>>)
    BY <1>4
  <2>2. PICK u \in DOMAIN c :
          \E m \in {d.name : d \in c[u]} : y = Named(<<"columns", u>>, graphqlName(m), <<m, <<>>>>)
    BY <1>4
  <2>3. PICK n \in {d.name : d \in c[t]} : x = Named(<<"columns", t>>, graphqlName(n), <<n, <<>>>>)
    BY <2>1
  <2>4. PICK m \in {d.name : d \in c[u]} : y = Named(<<"columns", u>>, graphqlName(m), <<m, <<>>>>)
    BY <2>2
  <2>5. <<"columns", t>> = <<"columns", u>> /\ graphqlName(n) = graphqlName(m)
    BY <1>5, <2>3, <2>4 DEF Named
  <2>6. t = u
    BY <2>5
  <2>7. ~SameName({d.name : d \in c[t]})
    BY DEF checkNameCollisions
  <2>8. n = m
    BY <2>5, <2>6, <2>7 DEF SameName
  <2> QED BY <2>3, <2>4, <2>8 DEF Named
<1>6. ASSUME NEW x \in all, NEW y \in columns PROVE x.ns # y.ns
  <2>1. PICK t \in DOMAIN c : y.ns = <<"columns", t>>
    BY <1>4 DEF Named
  <2>2. Len(y.ns) = 2 /\ Len(x.ns) = 1
    BY <1>3, <2>1
  <2> QED BY <2>2
<1>7. ~Clash(all \cup columns)
  BY <1>1, <1>5, <1>6 DEF Clash
<1> QED BY <1>2, <1>7, SmallerClash DEF access

\* What a role reads of a table, if its schema could be built.
LEMMA GrantedWhole ==
  ASSUME NEW rules, NEW c, NEW t \in DOMAIN c, NEW whole, c[t] \subseteq whole,
         ~UnknownColumn(rules, c), ~NoFields(Resolve(rules, c)),
         Perm(rules, t) # NoEntry, Resolve(rules, c)[t]["select"] # Denied
  PROVE  LET perm == Perm(rules, t)["select"]
             reads == {d.name : d \in Resolve(rules, c)[t]["select"].columns}
         IN  /\ reads # {} /\ reads \subseteq {d.name : d \in whole}
             /\ perm.columns # {} => reads \subseteq perm.columns
             /\ Explicit(rules, t) => perm.columns \subseteq reads
<1>. DEFINE perm == Perm(rules, t)["select"]
            columns == Resolve(rules, c)[t]["select"].columns
            reads == {d.name : d \in columns}
<1>1. "select" \in Ops
  BY DEF Ops
<1>2. Resolve(rules, c)[t]["select"] = resolveOp(c[t], perm)
  BY <1>1 DEF Resolve
<1>3. perm.allow /\ columns = IF perm.columns = {} THEN c[t] ELSE Listed(c[t], perm.columns)
  BY <1>2 DEF resolveOp
<1>4. columns # {}
  <2>1. DOMAIN Resolve(rules, c) = DOMAIN c
    BY DEF Resolve
  <2> QED BY <2>1 DEF NoFields
<1>5. columns \subseteq c[t]
  BY <1>1, GrantedColumns
<1>6. perm.columns # {} => reads \subseteq perm.columns
  BY <1>3 DEF Listed
<1>7. ASSUME Explicit(rules, t) PROVE perm.columns \subseteq reads
  <2>1. perm = rules[t]["select"]
    BY <1>7 DEF Perm
  <2>2. ~Lacks(c[t], perm.columns \cup perm.presets)
    BY <1>1, <1>3, <1>7, <2>1 DEF UnknownColumn
  <2>3. ASSUME NEW n \in perm.columns PROVE n \in reads
    <3>1. PICK d \in c[t] : d.name = n
      BY <2>2 DEF Lacks
    <3>2. d \in columns
      BY <1>3, <3>1 DEF Listed
    <3> QED BY <3>1, <3>2
  <2> QED BY <2>3
<1>. HIDE DEF columns, perm
<1> QED BY <1>4, <1>5, <1>6, <1>7 DEF columns, perm

-----------------------------------------------------------------------------
(* One attempt beside a seeder.                                            *)

Holding == gw.pc \in {"columns", "build", "lookup", "serving"}
Known == gw.pc \in {"build", "lookup", "serving"}

\* Nothing is dropped under this attempt: there was no schema before, or it
\* began when the seeder was done.
Undisturbed == ~old \/ ready

\* The catalog is of tables of the schema, with all their columns, or none if
\* the table was dropped; and of tables that exist if none is dropped.
CatalogSound ==
  /\ Holding => \A t \in DOMAIN cat : cat[t] \in {NotRead, schema.columns[t], {}}
  /\ Holding /\ Undisturbed =>
       DOMAIN cat \subseteq Present /\ \A t \in DOMAIN cat : cat[t] \in {NotRead, schema.columns[t]}
  /\ Holding => DOMAIN cat # {}
  /\ Known => \A t \in DOMAIN cat : cat[t] # NotRead
  /\ Undisturbed => made # -1
  /\ ready => Ready

\* The schemas that are served were built.
Built ==
  /\ gw.pc \in {"lookup", "serving"} => ~checkNameCollisions(cat) /\ Outcomes = {"built"}
  /\ gw.pc = "serving" => conf.identity \in Tables \cup {NoTable} /\ ~RequiredMissing
  /\ gw.pc = "serving" /\ ~old => conf.identity \in Present \cup {NoTable}

\* When an attempt and a pause began, and why Run ended.
Timely ==
  /\ Attempting => gw.since <= Window + Period /\ now - gw.since <= MaxAttempt
  /\ gw.pc = "sleep" => gw.since <= Window /\ now - gw.since <= Period
  /\ gw.why # "none" => gw.pc = "exited"
  /\ gw.why = "notready" => now >= Window /\ (ready => NeverReady)

Inv == TypeOK /\ CatalogSound /\ Built /\ Timely

LEMMA SchemaType ==
  ASSUME schema \in Schemas
  PROVE  /\ Len(schema.order) \in Nat /\ Done \in Nat /\ Done > 1
         /\ Tables # {} /\ Tables \subseteq DOMAIN schema.columns
<1>1. /\ schema.order \in Seq(DOMAIN schema.columns) /\ schema.order # <<>>
  BY StartupAssumption
<1>. DEFINE order == schema.order
<1>2. Len(order) \in Nat /\ Len(order) # 0 /\ \A i \in 1 .. Len(order) : order[i] \in DOMAIN schema.columns
  BY <1>1
<1>3. order[1] \in Tables
  BY <1>2 DEF Tables
<1>4. Tables \subseteq DOMAIN schema.columns
  BY <1>2 DEF Tables
<1> QED BY <1>2, <1>3, <1>4 DEF Done

LEMMA NumberType ==
  ASSUME TypeOK
  PROVE  /\ Window \in Nat /\ Period \in Nat \ {0} /\ MaxAttempt \in Nat /\ MaxTime \in Nat
         /\ now \in Nat /\ made \in Int /\ gw.since \in Nat /\ gw.since <= now
BY StartupAssumption, SchemaType DEF TypeOK, MaxTime

LEMMA InitInv == Init => Inv
<1>. SUFFICES ASSUME Init PROVE Inv
  OBVIOUS
<1>1. schema \in Schemas /\ Done \in Nat /\ MaxTime \in Nat
  BY StartupAssumption, SchemaType DEF Init, MaxTime
<1>2. gw \in [pc : {"ping", "tables", "columns", "build", "lookup", "sleep", "serving", "exited"},
              since : 0 .. now, why : {"none", "notready", "error", "failed", "cancelled"}]
  BY DEF Init
<1>3. DOMAIN cat \subseteq Tables /\ made \in -1 .. Done /\ now \in 0 .. MaxTime
  BY <1>1 DEF Init
<1>4. TypeOK
  BY <1>1, <1>2, <1>3 DEF Init, TypeOK
<1> QED BY <1>4, StartupAssumption
           DEF Init, Inv, CatalogSound, Holding, Known, Undisturbed, Built, Timely, Attempting

-----------------------------------------------------------------------------
(* The steps of an attempt.                                                *)

Pcs == {"ping", "tables", "columns", "build", "lookup", "sleep", "serving", "exited"}
Whys == {"none", "notready", "error", "failed", "cancelled"}

\* What the edits of gw make of it.
LEMMA Edits ==
  ASSUME Inv
  PROVE  /\ \A pc : Goto(pc) => gw'.pc = pc /\ gw'.since = gw.since /\ gw'.why = gw.why
         /\ \A pc \in Pcs : Goto(pc) => gw' \in [pc : Pcs, since : 0 .. now, why : Whys]
         /\ \A why : Exit(why) => gw'.pc = "exited" /\ gw'.since = gw.since /\ gw'.why = why
         /\ \A why \in Whys : Exit(why) => gw' \in [pc : Pcs, since : 0 .. now, why : Whys]
         /\ Retry => /\ gw' \in [pc : Pcs, since : 0 .. now, why : Whys]
                     /\ \/ now < Window /\ gw'.pc = "sleep" /\ gw'.since = now /\ gw'.why = gw.why
                        \/ now >= Window /\ gw'.pc = "exited" /\ gw'.since = gw.since /\ gw'.why = "notready"
<1>1. gw \in [pc : Pcs, since : 0 .. now, why : Whys]
  BY DEF Inv, TypeOK, Pcs, Whys
<1>2. now \in Nat /\ Window \in Nat
  BY NumberType DEF Inv
<1>3. /\ \A pc : Goto(pc) => gw'.pc = pc /\ gw'.since = gw.since /\ gw'.why = gw.why
      /\ \A pc \in Pcs : Goto(pc) => gw' \in [pc : Pcs, since : 0 .. now, why : Whys]
  BY <1>1 DEF Goto
<1>4. /\ \A why : Exit(why) => gw'.pc = "exited" /\ gw'.since = gw.since /\ gw'.why = why
      /\ \A why \in Whys : Exit(why) => gw' \in [pc : Pcs, since : 0 .. now, why : Whys]
  BY <1>1 DEF Exit, Pcs
<1>5. ASSUME Retry, now < Window
      PROVE  /\ gw' \in [pc : Pcs, since : 0 .. now, why : Whys]
             /\ gw'.pc = "sleep" /\ gw'.since = now /\ gw'.why = gw.why
  <2>1. gw' = [gw EXCEPT !.pc = "sleep", !.since = now]
    BY <1>5 DEF Retry
  <2>2. now \in 0 .. now /\ "sleep" \in Pcs
    BY <1>2 DEF Pcs
  <2> QED BY <1>1, <2>1, <2>2
<1>6. ASSUME Retry, ~(now < Window)
      PROVE  /\ gw' \in [pc : Pcs, since : 0 .. now, why : Whys]
             /\ now >= Window /\ gw'.pc = "exited" /\ gw'.since = gw.since /\ gw'.why = "notready"
  <2>1. Exit("notready") /\ "notready" \in Whys
    BY <1>6 DEF Retry, Whys
  <2> QED BY <1>2, <1>4, <1>6, <2>1
<1> QED BY <1>3, <1>4, <1>5, <1>6

Still == UNCHANGED <<conf, schema, old, now, up, made, cat>>

\* The outcome of a build depends on the configuration and the catalog.
LEMMA SameBuild ==
  ASSUME UNCHANGED <<conf, schema, cat, gw>>, Built,
         old' = old, Undisturbed => Present \subseteq Present'
  PROVE  Built'
<1>1. Outcomes' = Outcomes
  BY DEF Outcomes, RoleOutcome
<1>2. RequiredMissing' = RequiredMissing /\ Tables' = Tables
  BY DEF RequiredMissing, Tables
<1> QED BY <1>1, <1>2 DEF Built, Undisturbed

\* The attempt failed for a while, and did so in time.
LEMMA RetryStep ==
  ASSUME Inv, Attempting, Retry, Still, ready' \in BOOLEAN, ready' => Ready /\ NeverReady
  PROVE  Inv'
<1>1. /\ Window \in Nat /\ Period \in Nat \ {0} /\ MaxAttempt \in Nat
      /\ now \in Nat /\ gw.since \in Nat /\ gw.since <= now /\ gw.why = "none"
  BY NumberType DEF Inv, Timely, Attempting
<1>2. gw' \in [pc : Pcs, since : 0 .. now, why : Whys]
  BY Edits
<1>3. \/ now < Window /\ gw'.pc = "sleep" /\ gw'.since = now /\ gw'.why = "none"
      \/ now >= Window /\ gw'.pc = "exited" /\ gw'.why = "notready"
  BY Edits, <1>1
<1>5. TypeOK'
  BY <1>2 DEF Inv, TypeOK, Still, Tables, Done, Pcs, Whys
<1>6. CatalogSound'
  BY <1>3, NumberType, SchemaType DEF Inv, CatalogSound, Holding, Known, Undisturbed, Ready, Still, TypeOK, Done
<1>7. Built' /\ Timely'
  BY <1>1, <1>3 DEF Built, Timely, Attempting, Still, NeverReady, Tables
<1> QED BY <1>5, <1>6, <1>7 DEF Inv

\* Run ends for another reason.
LEMMA ExitStep ==
  ASSUME Inv, NEW why \in {"error", "failed", "cancelled"}, Exit(why), Still, UNCHANGED ready
  PROVE  Inv'
<1>1. gw' \in [pc : Pcs, since : 0 .. now, why : Whys] /\ gw'.pc = "exited" /\ gw'.why = why
  <2>1. why \in Whys
    BY DEF Whys
  <2> QED BY <2>1, Edits
<1>2. TypeOK'
  BY <1>1 DEF Inv, TypeOK, Still, Tables, Done, Pcs, Whys
<1>3. CatalogSound' /\ Built' /\ Timely'
  BY <1>1 DEF Inv, CatalogSound, Holding, Known, Undisturbed, Ready, Done, Built, Timely, Attempting, Still
<1> QED BY <1>2, <1>3 DEF Inv

\* Every table that is there is one of the schema.
LEMMA PresentTables ==
  ASSUME TypeOK
  PROVE  Present \subseteq Tables
<1>1. Len(schema.order) \in Nat /\ made \in -1 .. (Len(schema.order) + 1)
  BY SchemaType DEF TypeOK, Done
<1>2. CASE made = -1
  BY <1>2 DEF Present
<1>3. CASE made # -1
  <2>1. \A i \in 1 .. (made - 1) : i \in 1 .. Len(schema.order)
    BY <1>1, <1>3
  <2> QED BY <1>3, <2>1 DEF Present, Tables
<1> QED BY <1>2, <1>3

\* The attempt goes on, over the same catalog.
LEMMA GotoStep ==
  ASSUME Inv, Attempting, Still, UNCHANGED ready,
         NEW pc \in {"build", "lookup", "serving"}, Goto(pc),
         gw.pc \in {"columns", "build", "lookup"}, \A t \in DOMAIN cat : cat[t] # NotRead,
         pc \in {"lookup", "serving"} => ~checkNameCollisions(cat) /\ Outcomes = {"built"},
         pc = "serving" => conf.identity \in Present \cup {NoTable} /\ ~RequiredMissing
  PROVE  Inv'
<1>1. /\ gw' \in [pc : Pcs, since : 0 .. now, why : Whys]
      /\ gw'.pc = pc /\ gw'.since = gw.since /\ gw'.why = gw.why /\ gw.why = "none"
  <2>1. pc \in Pcs
    BY DEF Pcs
  <2> QED BY <2>1, Edits DEF Inv, Timely, Attempting
<1>2. TypeOK'
  BY <1>1 DEF Inv, TypeOK, Still, Tables, Done, Pcs, Whys
<1>3. CatalogSound'
  BY <1>1 DEF Inv, CatalogSound, Holding, Known, Undisturbed, Ready, Still, Present, Tables, Done
<1>4. Outcomes' = Outcomes /\ Present' = Present /\ Tables' = Tables /\ RequiredMissing' = RequiredMissing
  BY DEF Still, Outcomes, RoleOutcome, Present, Tables, RequiredMissing
<1>7. Present \subseteq Tables
  BY PresentTables DEF Inv
<1>5. Built'
  BY <1>1, <1>4, <1>7 DEF Built, Still
<1>6. Timely'
  BY <1>1 DEF Inv, Timely, Attempting, Still
<1> QED BY <1>2, <1>3, <1>5, <1>6 DEF Inv

LEMMA PingStep == ASSUME Inv, Ping PROVE Inv'
<1>1. Attempting /\ Still /\ ready' = Ready /\ ready' \in BOOLEAN
  BY DEF Ping, Attempting, Still, setting, Ready, Inv, TypeOK
<1>2. CASE ~(up /\ conf.login /\ made # 0)
  <2>1. Retry /\ (Ready => NeverReady)
    BY <1>2, SchemaType DEF Ping, Ready, Inv, TypeOK, NeverReady
  <2> QED BY <1>1, <2>1, RetryStep
<1>3. CASE up /\ conf.login /\ made # 0
  <2>1. /\ gw' \in [pc : Pcs, since : 0 .. now, why : Whys]
        /\ gw'.pc = "tables" /\ gw'.since = gw.since /\ gw'.why = gw.why /\ gw.why = "none"
    <3>1. Goto("tables") /\ "tables" \in Pcs
      BY <1>3 DEF Ping, Pcs
    <3> QED BY <1>1, <3>1, Edits DEF Inv, Timely, Attempting
  <2>2. TypeOK'
    BY <1>1, <2>1 DEF Inv, TypeOK, Still, Tables, Done, Pcs, Whys
  <2>3. CatalogSound'
    BY <1>1, <2>1, SchemaType
       DEF Inv, TypeOK, CatalogSound, Holding, Known, Undisturbed, Ready, Still, Done
  <2>4. Built' /\ Timely'
    BY <1>1, <2>1 DEF Inv, Built, Timely, Attempting, Still
  <2> QED BY <2>2, <2>3, <2>4 DEF Inv
<1> QED BY <1>2, <1>3

\* A seeded database has tables.
LEMMA ReadyPresent ==
  ASSUME TypeOK, Ready
  PROVE  Present = Tables /\ Present # {} /\ made # 0 /\ made # -1
<1>1. Done \in Nat /\ Done > 1 /\ Tables # {} /\ Len(schema.order) \in Nat
  BY SchemaType DEF TypeOK
<1>2. made - 1 = Len(schema.order) /\ made # -1 /\ made # 0
  BY <1>1 DEF Ready, Done
<1> QED BY <1>1, <1>2 DEF Present, Tables

LEMMA ListStep == ASSUME Inv, ListTables PROVE Inv'
<1>1. Attempting /\ UNCHANGED <<conf, schema, old, now, up, made, ready>>
  BY DEF ListTables, Attempting, setting
<1>2. DOMAIN cat' = Present /\ (\A t \in Present : cat'[t] = NotRead) /\ Present \subseteq Tables
  BY PresentTables DEF ListTables, Inv
<1>3. \/ Present # {} /\ gw'.pc = "columns" /\ gw'.since = gw.since /\ gw'.why = gw.why
      \/ Present = {} /\ now < Window /\ gw'.pc = "sleep" /\ gw'.since = now /\ gw'.why = gw.why
      \/ Present = {} /\ now >= Window /\ gw'.pc = "exited" /\ gw'.why = "notready"
  BY Edits DEF ListTables
<1>4. gw' \in [pc : Pcs, since : 0 .. now, why : Whys]
  <2>1. "columns" \in Pcs
    BY DEF Pcs
  <2> QED BY <2>1, Edits DEF ListTables
<1>5. Present = {} => ~ready
  BY ReadyPresent DEF Inv, CatalogSound
<1>6. TypeOK'
  BY <1>1, <1>2, <1>4 DEF Inv, TypeOK, Tables, Done, Pcs, Whys
<1>7. CatalogSound'
  BY <1>1, <1>2, <1>3 DEF Inv, CatalogSound, Holding, Known, Undisturbed, Ready, Present, Tables, Done
<1>8. Built' /\ Timely'
  BY <1>1, <1>3, <1>5, NumberType DEF Inv, Built, Timely, Attempting
<1> QED BY <1>6, <1>7, <1>8 DEF Inv

LEMMA LoadStep == ASSUME Inv, LoadColumns PROVE Inv'
<1>1. gw.pc = "columns" /\ UNCHANGED <<conf, schema, old, now, up, made, gw, ready>>
  BY DEF LoadColumns, setting
<1>2. PICK t \in Unread : cat' = [cat EXCEPT ![t] = IF t \in Present THEN schema.columns[t] ELSE {}]
  BY DEF LoadColumns
<1>3. /\ t \in DOMAIN cat /\ DOMAIN cat' = DOMAIN cat
      /\ \A u \in DOMAIN cat :
           cat'[u] = IF u = t THEN (IF t \in Present THEN schema.columns[t] ELSE {}) ELSE cat[u]
  BY <1>2 DEF Unread
<1>4. TypeOK'
  BY <1>1, <1>3 DEF Inv, TypeOK, Tables, Done
<1>5. CatalogSound'
  BY <1>1, <1>3 DEF Inv, CatalogSound, Holding, Known, Undisturbed, Ready, Present, Tables, Done
<1>6. Built' /\ Timely'
  BY <1>1 DEF Inv, Built, Timely, Attempting, NeverReady, Tables
<1> QED BY <1>4, <1>5, <1>6 DEF Inv

LEMMA LoadedStep == ASSUME Inv, Loaded PROVE Inv'
<1>1. /\ gw.pc = "columns" /\ Attempting /\ Still /\ UNCHANGED ready /\ Goto("build")
      /\ \A t \in DOMAIN cat : cat[t] # NotRead
  BY DEF Loaded, Attempting, Still, setting, Unread
<1>2. \A pc \in {"build", "lookup", "serving"} :
        pc = "build" => (pc \in {"lookup", "serving"} => ~checkNameCollisions(cat) /\ Outcomes = {"built"})
                        /\ (pc = "serving" => conf.identity \in Present \cup {NoTable} /\ ~RequiredMissing)
  OBVIOUS
<1> QED BY <1>1, <1>2, GotoStep

\* With a seeded database, a column is missing because a rule names it wrongly.
LEMMA AbsentIsWrong ==
  ASSUME Inv, ready, gw.pc = "build", "absent" \in BuildOutcomes
  PROVE  NeverReady
<1>1. PICK rules \in conf.roles : RoleOutcome(rules) = "absent"
  BY DEF BuildOutcomes, Outcomes
<1>2. UnknownColumn(rules, cat)
  BY <1>1 DEF RoleOutcome
<1>3. \A t \in DOMAIN cat : t \in DOMAIN schema.columns /\ cat[t] = schema.columns[t]
  BY SchemaType DEF Inv, TypeOK, CatalogSound, Holding, Known, Undisturbed
<1>4. UnknownColumn(rules, schema.columns)
  BY <1>2, <1>3 DEF UnknownColumn
<1> QED BY <1>4 DEF NeverReady

LEMMA BuildStep == ASSUME Inv, Build PROVE Inv'
<1>1. /\ gw.pc = "build" /\ Attempting /\ Still /\ UNCHANGED ready
      /\ \A t \in DOMAIN cat : cat[t] # NotRead
  BY DEF Build, Attempting, Still, setting, Inv, CatalogSound, Known
<1>2. CASE "built" \in BuildOutcomes /\ Goto("lookup")
  <2>1. ~checkNameCollisions(cat) /\ Outcomes = {"built"}
    BY <1>2 DEF BuildOutcomes
  <2> QED BY <1>1, <1>2, <2>1, GotoStep
<1>3. CASE "absent" \in BuildOutcomes /\ Retry
  <2>1. ready' \in BOOLEAN /\ (ready' => Ready /\ NeverReady)
    BY <1>1, <1>3, AbsentIsWrong DEF Inv, TypeOK, CatalogSound
  <2> QED BY <1>1, <1>3, <2>1, RetryStep
<1>4. CASE "error" \in BuildOutcomes /\ Exit("error")
  BY <1>1, <1>4, ExitStep
<1> QED BY <1>2, <1>3, <1>4 DEF Build

LEMMA LookupStep == ASSUME Inv, Lookup PROVE Inv'
<1>1. /\ gw.pc = "lookup" /\ Attempting /\ Still /\ UNCHANGED ready
      /\ (\A t \in DOMAIN cat : cat[t] # NotRead) /\ ~checkNameCollisions(cat) /\ Outcomes = {"built"}
  BY DEF Lookup, Attempting, Still, setting, Inv, CatalogSound, Known, Built
<1>2. CASE conf.identity \in Present \cup {NoTable} /\ ~RequiredMissing /\ Goto("serving")
  BY <1>1, <1>2, GotoStep
<1>4. CASE RequiredMissing /\ Exit("error")
  BY <1>1, <1>4, ExitStep
<1>3. CASE conf.identity \notin Present \cup {NoTable} /\ Retry
  <2>1. ready' \in BOOLEAN /\ (ready' => Ready /\ NeverReady)
    BY <1>1, <1>3, ReadyPresent DEF Inv, TypeOK, CatalogSound, NeverReady
  <2> QED BY <1>1, <1>3, <2>1, RetryStep
<1> QED BY <1>2, <1>3, <1>4 DEF Lookup

\* A connection that finds no database finds none that was seeded.
LEMMA FailStep == ASSUME Inv, QueryFails PROVE Inv'
<1>1. Attempting /\ Still /\ UNCHANGED ready
  BY DEF QueryFails, Attempting, Still, setting
<1>2. CASE Exit("failed")
  BY <1>1, <1>2, ExitStep
<1>3. CASE made = 0 /\ Retry
  <2>1. ready' \in BOOLEAN /\ (ready' => Ready /\ NeverReady)
    BY <1>1, <1>3, ReadyPresent DEF Inv, TypeOK, CatalogSound
  <2> QED BY <1>1, <1>3, <2>1, RetryStep
<1> QED BY <1>2, <1>3 DEF QueryFails

LEMMA CancelStep == ASSUME Inv, Cancel PROVE Inv'
BY ExitStep DEF Cancel, Still, setting

LEMMA WakeStep == ASSUME Inv, Wake PROVE Inv'
<1>1. /\ gw.pc = "sleep" /\ now - gw.since >= Period
      /\ UNCHANGED <<conf, schema, old, now, up, made, cat, ready>>
  BY DEF Wake, setting
<1>2. /\ gw' \in [pc : Pcs, since : 0 .. now, why : Whys]
      /\ gw'.pc = "ping" /\ gw'.since = now /\ gw'.why = gw.why
  <2>1. gw \in [pc : Pcs, since : 0 .. now, why : Whys] /\ now \in 0 .. now /\ "ping" \in Pcs
    BY NumberType DEF Inv, TypeOK, Pcs, Whys
  <2>2. gw' = [gw EXCEPT !.pc = "ping", !.since = now]
    BY DEF Wake
  <2> QED BY <2>1, <2>2
<1>3. TypeOK'
  BY <1>1, <1>2 DEF Inv, TypeOK, Tables, Done, Pcs, Whys
<1>4. CatalogSound' /\ Built'
  BY <1>1, <1>2 DEF Inv, CatalogSound, Holding, Known, Undisturbed, Ready, Done, Built
<1>5. Timely'
  BY <1>1, <1>2, NumberType DEF Inv, Timely, Attempting
<1> QED BY <1>3, <1>4, <1>5 DEF Inv

-----------------------------------------------------------------------------
(* The steps around it.                                                    *)

LEMMA BootStep == ASSUME Inv, Boot PROVE Inv'
<1>1. ~Ready /\ ~ready /\ up' = TRUE /\ UNCHANGED <<conf, schema, old, now, made, gw, cat, ready>>
  BY DEF Boot, setting, Ready, Inv, CatalogSound
<1>2. TypeOK'
  BY <1>1 DEF Inv, TypeOK, Tables, Done
<1>3. CatalogSound'
  BY <1>1 DEF Inv, CatalogSound, Holding, Known, Undisturbed, Present, Tables
<1>4. Built'
  BY <1>1, SameBuild DEF Inv, Present, Tables
<1>5. Timely'
  BY <1>1 DEF Inv, Timely, Attempting
<1> QED BY <1>2, <1>3, <1>4, <1>5 DEF Inv

\* Tables are dropped by the first statement only.
LEMMA SeedStep == ASSUME Inv, Seed PROVE Inv'
<1>1. ~ready /\ made' = made + 1 /\ UNCHANGED <<conf, schema, old, now, up, gw, cat, ready>>
  <2>1. made # Done
    BY NumberType, SchemaType DEF Seed, Inv, TypeOK
  <2> QED BY <2>1 DEF Seed, setting, Ready, Inv, CatalogSound
<1>2. made \in -1 .. Done /\ made < Done /\ Done \in Nat /\ Len(schema.order) \in Nat
  BY SchemaType DEF Inv, TypeOK, Seed
<1>3. TypeOK'
  BY <1>1, <1>2 DEF Inv, TypeOK, Tables, Done
<1>4. made # -1 => Present \subseteq Present' /\ made' # -1
  <2>1. \A i \in 1 .. (made - 1) : i \in 1 .. (made + 1 - 1)
    BY <1>2
  <2> QED BY <1>1, <1>2, <2>1 DEF Present
<1>5. CatalogSound'
  BY <1>1, <1>4 DEF Inv, CatalogSound, Holding, Known, Undisturbed
<1>6. Built'
  BY <1>1, <1>4, SameBuild DEF Inv, CatalogSound
<1>7. Timely'
  BY <1>1 DEF Inv, Timely, Attempting
<1> QED BY <1>3, <1>5, <1>6, <1>7 DEF Inv

LEMMA TickStep == ASSUME Inv, Tick PROVE Inv'
<1>1. /\ now < MaxTime /\ now' = now + 1 /\ UNCHANGED <<conf, schema, old, up, made, gw, cat, ready>>
      /\ gw.pc = "sleep" => now - gw.since < Period
      /\ Attempting => now - gw.since < MaxAttempt
  BY DEF Tick, setting
<1>2. /\ Window \in Nat /\ Period \in Nat \ {0} /\ MaxAttempt \in Nat /\ MaxTime \in Nat
      /\ now \in Nat /\ gw.since \in Nat /\ gw.since <= now
  BY NumberType DEF Inv
<1>3. 0 .. now \subseteq 0 .. (now + 1)
  BY <1>2
<1>4. TypeOK'
  <2>1. gw' \in [pc : Pcs, since : 0 .. now', why : Whys]
    BY <1>1, <1>3 DEF Inv, TypeOK, Pcs, Whys
  <2> QED BY <1>1, <1>2, <2>1 DEF Inv, TypeOK, Tables, Done, Pcs, Whys, MaxTime
<1>5. CatalogSound'
  BY <1>1 DEF Inv, CatalogSound, Holding, Known, Undisturbed, Present, Tables, Ready, Done
<1>7. Built'
  BY <1>1, SameBuild DEF Inv, Present, Tables
<1>6. Timely'
  BY <1>1, <1>2 DEF Inv, Timely, Attempting, NeverReady, Tables
<1> QED BY <1>4, <1>5, <1>6, <1>7 DEF Inv

\* Nothing happens, or all of it keeps the invariant.
LEMMA NextInv == ASSUME Inv, [Next]_vars PROVE Inv'
<1>1. CASE UNCHANGED vars
  <2>1. UNCHANGED <<conf, schema, old, now, up, made, gw, cat, ready>>
    BY <1>1 DEF vars
  <2>2. TypeOK'
    BY <2>1 DEF Inv, TypeOK, Tables, Done
  <2>3. CatalogSound'
    BY <2>1 DEF Inv, CatalogSound, Holding, Known, Undisturbed, Present, Tables, Ready, Done
  <2>4. Built'
    BY <2>1, SameBuild DEF Inv, Present, Tables
  <2>5. Timely'
    BY <2>1 DEF Inv, Timely, Attempting, NeverReady, Tables
  <2> QED BY <2>2, <2>3, <2>4, <2>5 DEF Inv
<1>2. CASE Next
  BY <1>2, PingStep, ListStep, LoadStep, LoadedStep, BuildStep, LookupStep, FailStep, CancelStep, WakeStep,
     BootStep, SeedStep, TickStep DEF Next, Step
<1> QED BY <1>1, <1>2

LEMMA Invariant == Spec => []Inv
<1>1. Inv /\ [Next]_vars => Inv'
  BY NextInv
<1> QED BY InitInv, <1>1, PTL DEF Spec

-----------------------------------------------------------------------------
(* What they add up to.                                                    *)

\* Each variable of a start keeps its type.
THEOREM StartupTypeCorrect == Spec => []TypeOK
<1>1. Inv => TypeOK
  BY DEF Inv
<1> QED BY <1>1, Invariant, PTL

LEMMA ServingBuilt ==
  ASSUME Inv, Serving, NEW rules \in conf.roles
  PROVE  /\ ~checkNameCollisions(cat)
         /\ ~UnknownTable(rules, cat) /\ ~UnknownColumn(rules, cat) /\ ~NoFields(Resolve(rules, cat))
<1>1. ~checkNameCollisions(cat) /\ RoleOutcome(rules) = "built"
  BY DEF Inv, Built, Serving, Outcomes
<1> QED BY <1>1 DEF RoleOutcome

\* The names that are generated for a role are told apart, for every catalog
\* that an attempt can read: checkNameCollisions claims a superset of them.
THEOREM NamesNeverClash == Spec => []OneNameOneThing
<1>1. Inv => OneNameOneThing
  BY ServingBuilt, NoClash DEF OneNameOneThing, Granted
<1> QED BY <1>1, Invariant, PTL

\* A gateway that serves grants whole what its roles name, of tables that are
\* there, and has found the identity table with the columns it must have,
\* whatever the seeder did meanwhile.
THEOREM ServesOnlyWhatItChecked == Spec => []ServesWhatItChecked
<1>1. ASSUME Inv, Serving, NEW rules \in conf.roles
      PROVE  DOMAIN rules \ {Wildcard} \subseteq DOMAIN cat
  BY <1>1, ServingBuilt DEF UnknownTable
<1>2. ASSUME Inv, Serving, NEW t \in DOMAIN cat
      PROVE  cat[t] \subseteq schema.columns[t]
  BY <1>2 DEF Inv, CatalogSound, Holding, Known, Serving
<1>3. ASSUME Inv, Serving, NEW rules \in conf.roles, NEW t \in DOMAIN cat,
             Perm(rules, t) # NoEntry, Granted(rules)[t]["select"] # Denied
      PROVE  LET perm == Perm(rules, t)["select"]
                 reads == {c.name : c \in Granted(rules)[t]["select"].columns}
             IN  /\ reads # {} /\ reads \subseteq {c.name : c \in schema.columns[t]}
                 /\ perm.columns # {} => reads \subseteq perm.columns
                 /\ Explicit(rules, t) => perm.columns \subseteq reads
  <2>1. cat[t] \subseteq schema.columns[t] /\ ~UnknownColumn(rules, cat) /\ ~NoFields(Resolve(rules, cat))
    BY <1>2, <1>3, ServingBuilt
  <2> QED BY <1>3, <2>1, GrantedWhole DEF Granted
<1>4. ASSUME Inv, Serving PROVE GrantsWhole
  BY <1>1, <1>3, <1>4 DEF GrantsWhole
<1>5. ASSUME Inv, Serving, ~old
      PROVE  /\ cat # <<>> /\ \A t \in DOMAIN cat : t \in Present /\ cat[t] = schema.columns[t]
             /\ conf.identity \in Present \cup {NoTable}
  <2>1. DOMAIN cat # {} /\ DOMAIN <<>> = {}
    BY <1>5 DEF Inv, CatalogSound, Holding, Serving
  <2>2. \A t \in DOMAIN cat : t \in Present /\ cat[t] = schema.columns[t]
    BY <1>5 DEF Inv, CatalogSound, Holding, Known, Undisturbed, Serving
  <2> QED BY <1>5, <2>1, <2>2 DEF Inv, Built, Serving
<1>7. ASSUME Inv, Serving PROVE conf.identity \in Tables \cup {NoTable} /\ ~RequiredMissing
  BY <1>7 DEF Inv, Built, Serving
<1>6. Inv => ServesWhatItChecked
  BY <1>4, <1>5, <1>7 DEF ServesWhatItChecked
<1> QED BY <1>6, Invariant, PTL

\* The window is kept: run ends for want of a database not before its end, and
\* goes on for one pause and one attempt after it at most.
THEOREM WindowKept == Spec => []WaitsTheWindow
<1>1. ASSUME Inv, now > Window + Period + MaxAttempt PROVE Ended
  <2>1. /\ Window \in Nat /\ Period \in Nat \ {0} /\ MaxAttempt \in Nat
        /\ now \in Nat /\ gw.since \in Nat
    BY <1>1, NumberType DEF Inv
  <2>2. ~Attempting
    BY <1>1, <2>1 DEF Inv, Timely
  <2>3. gw.pc # "sleep"
    BY <1>1, <2>1 DEF Inv, Timely
  <2>4. gw.pc \in {"ping", "tables", "columns", "build", "lookup", "sleep", "serving", "exited"}
    BY <1>1 DEF Inv, TypeOK
  <2> QED BY <2>2, <2>3, <2>4 DEF Attempting, Ended
<1>2. Inv => WaitsTheWindow
  BY <1>1 DEF Inv, Timely, WaitsTheWindow
<1> QED BY <1>2, Invariant, PTL
=============================================================================
