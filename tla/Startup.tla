------------------------------- MODULE Startup -------------------------------
(***************************************************************************)
(* Run before it serves (openWithRetry, Open, buildState,                  *)
(* validateRoleLookup and isNotReady of gqlgate.go; Load of                *)
(* introspect/introspect.go; Resolve of rbac/rbac.go): the gateway is      *)
(* started beside its database and the seeder of that database, and tries  *)
(* Open until it works, an error is final, or the startup window is over.  *)
(* One attempt is several queries, and the seeder, which drops the schema  *)
(* of an earlier run and makes it anew, goes on between them.              *)
(***************************************************************************)
EXTENDS Names

CONSTANTS
  Schemas,      \* [order, columns]: the tables in the order in which the seeder
                \* creates them, and the columns of each
  Configs,      \* [roles, custom, identity, required, login]: the rules of each
                \* role, the custom fields, the table of jwt.role_lookup and the
                \* columns it must have, and that the credentials are accepted
  NoTable,      \* no role_lookup
  NotRead,      \* columns that are not read yet
  Window,       \* startup_wait_seconds
  Period,       \* the pause between two attempts
  MaxAttempt,   \* bound on the time one attempt takes
  ReadyBy,      \* bound on the time until database and seeder are done
  Flaky         \* a query of an attempt may fail

\* No attempt begins after Window + Period, so the clock needs no more.
MaxTime == Window + Period + MaxAttempt + 1

ASSUME StartupAssumption ==
  /\ \A s \in Schemas :
       /\ s.order \in Seq(DOMAIN s.columns) /\ s.order # <<>>
       /\ NoTable \notin DOMAIN s.columns
       /\ \A t \in DOMAIN s.columns : s.columns[t] # {}
  /\ Window \in Nat /\ Period \in Nat \ {0} /\ MaxAttempt \in Nat /\ ReadyBy \in Nat /\ Flaky \in BOOLEAN

VARIABLES
  conf,    \* the configuration of the gateway
  schema,  \* the schema that the seeder makes
  old,     \* the schema is there from an earlier run
  now,     \* the clock
  up,      \* the database accepts connections
  made,    \* statements of the seeder so far: CREATE DATABASE, then the tables;
           \* -1 before it has dropped the schema of an earlier run
  gw,      \* where Run is: pc, since when, and why it ended
  cat,     \* the catalog that Load has read so far
  ready    \* the database was seeded when this attempt began

vars == <<conf, schema, old, now, up, made, gw, cat, ready>>
setting == <<conf, schema, old>>

Tables == {schema.order[i] : i \in 1 .. Len(schema.order)}
Done == Len(schema.order) + 1
Present == IF made = -1 THEN Tables ELSE {schema.order[i] : i \in 1 .. (made - 1)}
Ready == up /\ made = Done

Attempting == gw.pc \in {"ping", "tables", "columns", "build", "lookup"}
Ended == gw.pc \in {"serving", "exited"}

-----------------------------------------------------------------------------
Init ==
  /\ conf \in Configs /\ schema \in Schemas /\ old \in BOOLEAN
  /\ now = 0
  /\ up = FALSE /\ made = IF old THEN -1 ELSE 0
  /\ gw = [pc |-> "ping", since |-> 0, why |-> "none"]
  /\ cat = <<>>
  /\ ready = FALSE

\* The database comes up; the seeder executes its next statement.
Boot == ~up /\ up' = TRUE /\ UNCHANGED <<setting, now, made, gw, cat, ready>>
Seed == up /\ made < Done /\ made' = made + 1 /\ UNCHANGED <<setting, now, up, gw, cat, ready>>

\* Time passes, within the bounds on attempts and on the environment; the
\* pause between attempts is neither longer nor shorter than Period.
Tick ==
  /\ now < MaxTime
  /\ gw.pc = "sleep" => now - gw.since < Period
  /\ Attempting => now - gw.since < MaxAttempt
  /\ ~Ready => now < ReadyBy
  /\ now' = now + 1
  /\ UNCHANGED <<setting, up, made, gw, cat, ready>>

Goto(pc) == gw' = [gw EXCEPT !.pc = pc]
Exit(why) == gw' = [gw EXCEPT !.pc = "exited", !.why = why]

\* isNotReady takes an error for transient: the next attempt is after a
\* pause, unless the window is over.
\* (RetryAlways is a mutant that never looks at the deadline.)
RetryAlways == gw' = [gw EXCEPT !.pc = "sleep", !.since = now]
Retry ==
  IF now < Window THEN gw' = [gw EXCEPT !.pc = "sleep", !.since = now]
                  ELSE Exit("notready")

\* (WakeEarly is a mutant that counts the pause from its end.)
WakeEarly ==
  /\ gw.pc = "sleep" /\ now - gw.since >= Period
  /\ gw' = [gw EXCEPT !.pc = "ping", !.since = now + Period]
  /\ UNCHANGED <<setting, now, up, made, cat, ready>>
Wake ==
  /\ gw.pc = "sleep" /\ now - gw.since >= Period
  /\ gw' = [gw EXCEPT !.pc = "ping", !.since = now]
  /\ UNCHANGED <<setting, now, up, made, cat, ready>>

\* PingContext: "cannot reach database", which is also what is said of
\* credentials that are refused and of a database that is unknown.
Ping ==
  /\ gw.pc = "ping"
  /\ IF up /\ conf.login /\ made # 0 THEN Goto("tables") ELSE Retry
  /\ ready' = Ready
  /\ UNCHANGED <<setting, now, up, made, cat>>

\* introspect.Load: the list of tables, "contains no exposable base tables";
\* then the columns of one table after the other, of which a table that is gone
\* has none.
ListTables ==
  /\ gw.pc = "tables"
  /\ IF Present # {} THEN Goto("columns") ELSE Retry
  /\ cat' = [t \in Present |-> NotRead]
  /\ UNCHANGED <<setting, now, up, made, ready>>

Unread == {t \in DOMAIN cat : cat[t] = NotRead}
LoadColumns ==
  /\ gw.pc = "columns" /\ Unread # {}
  /\ \E t \in Unread :
       cat' = [cat EXCEPT ![t] = IF t \in Present THEN schema.columns[t] ELSE {}]
  /\ UNCHANGED <<setting, now, up, made, gw, ready>>
Loaded ==
  /\ gw.pc = "columns" /\ Unread = {}
  /\ Goto("build")
  /\ UNCHANGED <<setting, now, up, made, cat, ready>>

\* BuildAll: the tables are checked for names that collide, then the roles, in
\* any order.  Only the message on a column that does not exist is among those
\* that isNotReady looks for.
RoleOutcome(rules) ==
  IF UnknownTable(rules, cat) THEN "error"
  ELSE IF UnknownColumn(rules, cat) THEN "absent"
  ELSE LET access == Resolve(rules, cat)
       IN  IF CustomTaken(cat, access, conf.custom) \/ NoFields(access) THEN "error" ELSE "built"
Outcomes == {RoleOutcome(rules) : rules \in conf.roles}
BuildOutcomes ==
  IF checkNameCollisions(cat) THEN {"error"}
  ELSE LET outcomes == Outcomes
       IN  IF outcomes = {"built"} THEN outcomes ELSE outcomes \ {"built"}

Build ==
  /\ gw.pc = "build"
  /\ \E outcome \in BuildOutcomes :
       \/ outcome = "built" /\ Goto("lookup")
       \/ outcome = "absent" /\ Retry
       \/ outcome = "error" /\ Exit("error")
  /\ UNCHANGED <<setting, now, up, made, cat, ready>>

\* validateRoleLookup: "identity table ... does not exist", which is retried,
\* or "has no column", which is not.
\* (LookupStrict is a mutant whose errors are both final.)
RequiredMissing ==
  conf.identity \in Tables /\ ~ conf.required \subseteq {c.name : c \in schema.columns[conf.identity]}
LookupStrict ==
  /\ gw.pc = "lookup"
  /\ IF conf.identity \in Present \cup {NoTable} /\ ~RequiredMissing THEN Goto("serving") ELSE Exit("error")
  /\ UNCHANGED <<setting, now, up, made, cat, ready>>
Lookup ==
  /\ gw.pc = "lookup"
  /\ \/ conf.identity \in Present \cup {NoTable} /\ ~RequiredMissing /\ Goto("serving")
     \/ conf.identity \in Present /\ RequiredMissing /\ Exit("error")
     \/ conf.identity \notin Present \cup {NoTable} /\ Retry
  /\ UNCHANGED <<setting, now, up, made, cat, ready>>

\* A query after the ping fails: no message for that is in the list, but for a
\* new connection that finds no database.
QueryFails ==
  /\ Flaky /\ gw.pc \in {"tables", "columns", "build", "lookup"}
  /\ Exit("failed") \/ (made = 0 /\ Retry)
  /\ UNCHANGED <<setting, now, up, made, cat, ready>>

\* ctx ends.
Cancel ==
  /\ ~Ended
  /\ Exit("cancelled")
  /\ UNCHANGED <<setting, now, up, made, cat, ready>>

Step == Wake \/ Ping \/ ListTables \/ LoadColumns \/ Loaded \/ Build \/ Lookup

Next == Boot \/ Seed \/ Tick \/ Step \/ QueryFails \/ Cancel

Spec == Init /\ [][Next]_vars

\* The process runs, time passes, the database comes up and the seeder ends.
Fairness == WF_vars(Boot) /\ WF_vars(Seed) /\ WF_vars(Tick) /\ WF_vars(Step)

FairSpec == Spec /\ Fairness

-----------------------------------------------------------------------------
\* Every variable has its type, and no attempt or pause began in the future.
TypeOK ==
  /\ conf \in Configs /\ schema \in Schemas /\ old \in BOOLEAN
  /\ now \in 0 .. MaxTime /\ up \in BOOLEAN /\ made \in -1 .. Done
  /\ gw \in [pc : {"ping", "tables", "columns", "build", "lookup", "sleep", "serving", "exited"},
             since : 0 .. now, why : {"none", "notready", "error", "failed", "cancelled"}]
  /\ DOMAIN cat \subseteq Tables /\ ready \in BOOLEAN

Serving == gw.pc = "serving"
Granted(rules) == Resolve(rules, cat)

\* What a role reads of a table is "never empty": all the columns that a rule for
\* the table lists, or of a rule for "*" those that the table has, and no other.
GrantsWhole ==
  \A rules \in conf.roles :
    /\ DOMAIN rules \ {Wildcard} \subseteq DOMAIN cat
    /\ \A t \in DOMAIN cat :
         LET perm == Perm(rules, t)["select"]
             reads == {c.name : c \in Granted(rules)[t]["select"].columns}
         IN  Perm(rules, t) # NoEntry /\ Granted(rules)[t]["select"] # Denied =>
               /\ reads # {} /\ reads \subseteq {c.name : c \in schema.columns[t]}
               /\ perm.columns # {} => reads \subseteq perm.columns
               /\ Explicit(rules, t) => perm.columns \subseteq reads

\* Whatever the seeder does between the queries of an attempt, a gateway that
\* serves grants whole what its roles name, and has found the identity table with
\* the required columns ("must exist and carry" of validateRoleLookup).  If no
\* old schema was dropped under it, the catalog is of tables as they are, and the
\* identity table is still there.
ServesWhatItChecked ==
  Serving =>
    /\ GrantsWhole
    /\ conf.identity \in Tables \cup {NoTable} /\ ~RequiredMissing
    /\ ~old => /\ cat # <<>> /\ \A t \in DOMAIN cat : t \in Present /\ cat[t] = schema.columns[t]
               /\ conf.identity \in Present \cup {NoTable}

\* "identifier/name collisions are rejected at startup rather than silently
\* dropping an operation": in the schema of each role, no two fields or types
\* that are generated from the tables share a name.
OneNameOneThing ==
  Serving => \A rules \in conf.roles : ~ Clash(Generated(cat, Granted(rules)))

\* What stays wrong however long it is retried: a column that a rule lists is not
\* in its table, the table of role_lookup is not in the schema, or the database
\* refuses the credentials ("auth failure", which the comment of openWithRetry
\* counts among the errors that are returned immediately).
NeverReady ==
  \/ \E rules \in conf.roles : UnknownColumn(rules, schema.columns)
  \/ conf.identity \notin Tables \cup {NoTable}
  \/ ~conf.login

\* "retrying ... until the startup-wait window elapses": it is not given up
\* before, nor in an attempt that found a seeded database, unless the
\* configuration names what is not there or the credentials are refused; and no
\* later than one pause and one attempt after the window.
WaitsTheWindow ==
  /\ gw.why = "notready" => now >= Window /\ (ready => NeverReady)
  /\ now > Window + Period + MaxAttempt => Ended

\* What ends Run even if the gateway is started last: the build of the whole
\* schema fails, or the identity table lacks a required column.  What is a final
\* error because of the order: a rule names a table other than the first, or a
\* table was dropped while it was read.
Misconfigured ==
  LET whole == schema.columns
  IN  \/ NeverReady \/ RequiredMissing \/ checkNameCollisions(whole)
      \/ \E rules \in conf.roles :
           \/ UnknownTable(rules, whole)
           \/ CustomTaken(whole, Resolve(rules, whole), conf.custom)
           \/ NoFields(Resolve(rules, whole))
TooEarly ==
  \/ \E rules \in conf.roles : ~ DOMAIN rules \subseteq {schema.order[1], Wildcard}
  \/ old /\ \E t \in DOMAIN cat : cat[t] = {}

\* "resilient to starting before its database or seeder": whenever it was
\* started, the gateway serves in the end, unless it is cancelled, a query
\* fails under it, it is misconfigured, or the seeder is not done by the last
\* attempt.  What comes too early may be a final error.
ServesInTheEnd ==
  <>(\/ Serving
     \/ gw.why \in {"cancelled", "failed"}
     \/ gw.why = "notready" /\ (~ready \/ Misconfigured)
     \/ gw.why = "error" /\ (Misconfigured \/ TooEarly))
=============================================================================
