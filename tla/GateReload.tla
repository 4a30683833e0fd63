----------------------------- MODULE GateReload -----------------------------
(***************************************************************************)
(* One gateway process (gqlgate.go, server/server.go, auth/auth.go): Run   *)
(* loads the configuration file and opens the gate; the watcher goroutine  *)
(* polls the file and calls Reload; embedding hosts call Reload as well;   *)
(* requests read the current generation once and answer from it.  The file *)
(* is edited and the database schema altered at any moment.                *)
(*                                                                         *)
(* A version is an index in log (contents of the file) or in ddl (states   *)
(* of the catalog): a stamp of modification time and size, watchStamps,    *)
(* tells two versions apart, and a generation is the pair of versions it   *)
(* was built from.  Version 0 means none.                                  *)
(***************************************************************************)
EXTENDS Integers, Sequences, FiniteSets

CONSTANTS
  Configs,      \* what the configuration file may hold, records as below
  Roles,        \* role names
  NoRole,       \* no anonymous role; no role resolved
  Keys,         \* JWT signing settings: secret, algorithm, issuer, audience
  Routes,       \* database DSN with listen host, port and path
  Tables,       \* table names
  HookNames,    \* hook names a configuration may reference
  Compiled,     \* hook names the binary registers
  Watcher,      \* the watchConfig goroutine
  Hosts,        \* goroutines of the embedding host that call Reload
  Nobody,       \* reloadMu is free
  Requests,     \* HTTP requests in flight at once
  NoToken,      \* a request without an Authorization header
  MaxEdits,     \* bound on edits of the file
  MaxDDL,       \* bound on changes of the database schema
  Flaky         \* a query, the check of the identity table or of a key file may fail

Callers == Hosts \cup {Watcher}

\* The parts of config.Config that reload, authentication and the schemas
\* depend on.  blank holds the roles whose YAML body is empty (a nil *Role).
Config == [parses : BOOLEAN, route : Routes, hot : BOOLEAN,
           roles : SUBSET Roles, blank : SUBSET Roles,
           anon : Roles \cup {NoRole}, key : Keys, lookup : BOOLEAN,
           tables : SUBSET Tables, hooks : SUBSET HookNames]

Token == [key : Keys, role : Roles]

ASSUME ConfigsAssumption == Configs \subseteq Config
ASSUME RolesAssumption   == NoRole \notin Roles
ASSUME TokensAssumption  == NoToken \notin Token
ASSUME CallersAssumption == Watcher \notin Hosts /\ Nobody \notin Callers
ASSUME BoundsAssumption  == MaxEdits \in Nat /\ MaxDDL \in Nat /\ Flaky \in BOOLEAN

VARIABLES
  log,     \* contents the file has held; the last entry is on disk
  ddl,     \* sets of tables the database schema has held; the last is current
  main,    \* where Run is
  static,  \* version of the configuration Open was given
  gen,     \* current generation, Gate.state
  lock,    \* holder of reloadMu
  call,    \* the Reload call of each caller
  watch,   \* the watcher's position and last stamp
  req,     \* the requests
  acked    \* newest version a Reload call has returned nil for

vars == <<log, ddl, main, static, gen, lock, call, watch, req, acked>>

NoGen == [ver |-> 0, cat |-> 0]
NoCall == [pc |-> "idle", ver |-> 0, cat |-> 0, since |-> 0, ok |-> FALSE]
NoReq == [pc |-> "idle", st |-> NoGen, tok |-> NoToken, role |-> NoRole, floor |-> 0]

-----------------------------------------------------------------------------
(* Loading and building a configuration.                                   *)

\* config.Load: the file parses and passes validate.
Loads(c) ==
  /\ c.parses
  /\ c.roles # {}
  /\ c.anon # NoRole => c.anon \in c.roles

\* reloadCompatible.  (AnyRoute is a mutant that takes any change.)
AnyRoute(old, next) == TRUE
ReloadCompatible(old, next) == old.route = next.route

\* The ways buildState can end over the tables t: buildHooks fails first,
\* then introspection of an empty schema; the roles come in the order of a Go
\* map, so an unknown table and a nil *Role race for which one is met first.
\* (NeverFails is a mutant that drops the errors.)
NeverFails(c, t) == {"ok"}
BuildOutcomes(c, t) ==
  IF ~ (c.hooks \subseteq Compiled) \/ t = {}
    THEN {"error"}
    ELSE LET unknown == ~ (c.tables \subseteq t)
             nilRole == c.blank # {}
         IN  {o \in {"ok", "error", "panic"} :
                \/ o = "ok" /\ ~unknown /\ ~nilRole
                \/ o = "error" /\ (unknown \/ Flaky)
                \/ o = "panic" /\ nilRole}

\* BuildAll makes a schema per role; auth.New accepts the same roles.
SchemaRoles(c) == c.roles
VerifierRoles(c) == c.roles

\* The roles an authentic token can resolve to: its role claim, or whatever
\* the identity table holds when jwt.role_lookup is configured.
ResolvedRoles(c, tok) == IF c.lookup THEN Roles ELSE {tok.role}

\* The stamp of the file as it is on disk, and of the schema.
Stamp == Len(log)
Catalog == Len(ddl)

Running == main = "serving"
Gone == main \in {"crashed", "exited"}

-----------------------------------------------------------------------------
Init ==
  /\ \E c \in Configs : log = <<c>>
  /\ \E t \in SUBSET Tables : ddl = <<t>>
  /\ main = "boot"
  /\ static = 0
  /\ gen = NoGen
  /\ lock = Nobody
  /\ call = [p \in Callers |-> NoCall]
  /\ watch = [pc |-> "off", last |-> 0]
  /\ req = [r \in Requests |-> NoReq]
  /\ acked = 0

(* The environment.                                                        *)

\* An operator saves the file: a complete edit, half of one, or a removal
\* (content that does not parse).
Edit == \E c \in Configs :
  /\ Len(log) <= MaxEdits
  /\ log' = Append(log, c)
  /\ UNCHANGED <<ddl, main, static, gen, lock, call, watch, req, acked>>

\* A migration changes the tables of the schema.
Migrate == \E t \in SUBSET Tables :
  /\ Len(ddl) <= MaxDDL
  /\ ddl' = Append(ddl, t)
  /\ UNCHANGED <<log, main, static, gen, lock, call, watch, req, acked>>

-----------------------------------------------------------------------------
(* Run: load, open, serve, stop.                                           *)

\* Run reads the file once.
RunLoad ==
  /\ main = "boot"
  /\ IF Loads(log[Stamp])
       THEN static' = Stamp /\ main' = "opening"
       ELSE static' = static /\ main' = "exited"
  /\ UNCHANGED <<log, ddl, gen, lock, call, watch, req, acked>>

\* One attempt of openWithRetry that ends the loop; an attempt that is
\* retried changes nothing here.
Open ==
  /\ main = "opening"
  /\ \E o \in BuildOutcomes(log[static], ddl[Catalog]) :
       \/ o = "ok"    /\ main' = "serving" /\ gen' = [ver |-> static, cat |-> Catalog]
       \/ o = "error" /\ main' = "exited"  /\ gen' = gen
       \/ o = "panic" /\ main' = "crashed" /\ gen' = gen
  /\ UNCHANGED <<log, ddl, static, lock, call, watch, req, acked>>

\* ctx ends: no request is accepted any more, those in flight go on, and the
\* database calls of a Reload under way fail.
Cancel ==
  /\ Running
  /\ main' = "draining"
  /\ UNCHANGED <<log, ddl, static, gen, lock, call, watch, req, acked>>

\* Run closes the pool and ends: Shutdown returned or gave up after 5 seconds,
\* the listener failed, or ctx ended while Open was tried.
Exit ==
  /\ main \in {"opening", "serving", "draining"}
  /\ main' = "exited"
  /\ UNCHANGED <<log, ddl, static, gen, lock, call, watch, req, acked>>

-----------------------------------------------------------------------------
(* Reload, for the watcher and for hosts.                                  *)

StartCall(p) ==
  call' = [call EXCEPT ![p] = [pc |-> "calling", ver |-> 0, cat |-> 0, since |-> Stamp, ok |-> FALSE]]
Advance(p, pc) == call' = [call EXCEPT ![p].pc = pc]

\* Mutant: an early return that forgets the mutex.
FailLocked(p) ==
  /\ call' = [call EXCEPT ![p] = [@ EXCEPT !.pc = "done", !.ok = FALSE]]
  /\ UNCHANGED <<gen, acked, main, lock>>

\* A Reload call that returns an error leaves the generation alone.
Fail(p) ==
  /\ call' = [call EXCEPT ![p] = [@ EXCEPT !.pc = "done", !.ok = FALSE]]
  /\ lock' = Nobody
  /\ UNCHANGED <<gen, acked, main>>

HostReload(p) ==
  /\ main \in {"serving", "draining"}
  /\ p \in Hosts
  /\ call[p].pc = "idle"
  /\ StartCall(p)
  /\ UNCHANGED <<log, ddl, main, static, gen, lock, watch, req, acked>>

HostReturn(p) ==
  /\ ~Gone
  /\ p \in Hosts
  /\ call[p].pc = "done"
  /\ call' = [call EXCEPT ![p] = NoCall]
  /\ UNCHANGED <<log, ddl, main, static, gen, lock, watch, req, acked>>

\* Mutant: no reloadMu.
ReloadUnlocked(p) ==
  /\ ~Gone
  /\ call[p].pc = "calling"
  /\ lock' = lock
  /\ Advance(p, "locked")
  /\ UNCHANGED <<log, ddl, main, static, gen, watch, req, acked>>

\* Mutant: a call that finds another one under way joins it.
ReloadTryLock(p) ==
  /\ ~Gone
  /\ call[p].pc = "calling"
  /\ IF lock = Nobody
       THEN lock' = p /\ Advance(p, "locked")
       ELSE lock' = lock /\ call' = [call EXCEPT ![p] = [@ EXCEPT !.pc = "done", !.ok = TRUE]]
  /\ UNCHANGED <<log, ddl, main, static, gen, watch, req, acked>>

\* reloadMu.Lock.
ReloadLock(p) ==
  /\ ~Gone
  /\ call[p].pc = "calling"
  /\ lock = Nobody
  /\ lock' = p
  /\ Advance(p, "locked")
  /\ UNCHANGED <<log, ddl, main, static, gen, watch, req, acked>>

\* config.Load and reloadCompatible.
ReloadLoad(p) ==
  /\ ~Gone
  /\ call[p].pc = "locked"
  /\ LET c == log[Stamp]
     IN  IF Loads(c) /\ ReloadCompatible(log[static], c)
           THEN /\ call' = [call EXCEPT ![p] = [@ EXCEPT !.pc = "loaded", !.ver = Stamp]]
                /\ UNCHANGED <<gen, acked, main, lock>>
           ELSE Fail(p)
  /\ UNCHANGED <<log, ddl, static, watch, req>>

\* introspect.Load reads the catalog; what it read is what gets built.
ReloadIntrospect(p) ==
  /\ ~Gone
  /\ call[p].pc = "loaded"
  /\ call' = [call EXCEPT ![p] = [@ EXCEPT !.pc = "building", !.cat = Catalog]]
  /\ UNCHANGED <<log, ddl, main, static, gen, lock, watch, req, acked>>

\* The error of a build whose context ended with the gateway's.
CancelError == IF main = "draining" THEN {"error"} ELSE {}

\* Mutant: the two versions change places.
ReloadStoreSwapped(p) ==
  /\ ~Gone
  /\ call[p].pc = "building"
  /\ gen' = [ver |-> call[p].cat, cat |-> call[p].ver]
  /\ acked' = call[p].ver
  /\ call' = [call EXCEPT ![p] = [@ EXCEPT !.pc = "done", !.ok = TRUE]]
  /\ lock' = Nobody
  /\ UNCHANGED <<log, ddl, main, static, watch, req>>

\* BuildAll and auth.New, then state.Store and the deferred Unlock.
ReloadStore(p) ==
  /\ ~Gone
  /\ call[p].pc = "building"
  /\ \E o \in BuildOutcomes(log[call[p].ver], ddl[call[p].cat]) \cup CancelError :
       \/ /\ o = "ok"
          /\ gen' = [ver |-> call[p].ver, cat |-> call[p].cat]
          /\ acked' = call[p].ver
          /\ call' = [call EXCEPT ![p] = [@ EXCEPT !.pc = "done", !.ok = TRUE]]
          /\ lock' = Nobody
          /\ main' = main
       \/ o = "error" /\ Fail(p)
       \/ /\ o = "panic"
          /\ main' = "crashed"
          /\ UNCHANGED <<gen, lock, call, acked>>
  /\ UNCHANGED <<log, ddl, static, watch, req>>

-----------------------------------------------------------------------------
(* watchConfig.                                                            *)

\* The goroutine starts and takes its first stamp.
WatchStart ==
  /\ Running
  /\ watch.pc = "off"
  /\ log[static].hot
  /\ watch' = [pc |-> "tick", last |-> Stamp]
  /\ UNCHANGED <<log, ddl, main, static, gen, lock, call, req, acked>>

\* Mutant: stamps compare sizes only, and every other version has one size.
WatchTickBySize ==
  /\ Running
  /\ watch.pc = "tick"
  /\ watch.last % 2 # Stamp % 2
  /\ watch' = [watch EXCEPT !.pc = "reload"]
  /\ StartCall(Watcher)
  /\ UNCHANGED <<log, ddl, main, static, gen, lock, req, acked>>

\* A tick that finds another stamp calls Reload; any other tick is a stutter.
WatchTick ==
  /\ Running
  /\ watch.pc = "tick"
  /\ watch.last # Stamp
  /\ watch' = [watch EXCEPT !.pc = "reload"]
  /\ StartCall(Watcher)
  /\ UNCHANGED <<log, ddl, main, static, gen, lock, req, acked>>

\* Reload returned, with or without an error: the stamp is taken again.
WatchRestamp ==
  /\ ~Gone
  /\ watch.pc = "reload"
  /\ call[Watcher].pc = "done"
  /\ watch' = [pc |-> "tick", last |-> Stamp]
  /\ call' = [call EXCEPT ![Watcher] = NoCall]
  /\ UNCHANGED <<log, ddl, main, static, gen, lock, req, acked>>

-----------------------------------------------------------------------------
(* Requests: server.execute with auth.Identify.                            *)

\* Mutant: the generation of the binary's start, not the current one.
FirstGeneration == [gen EXCEPT !.ver = static]
current == gen

\* A request arrives and reads the current generation, once.  floor is what
\* Reload calls that already returned promised it.
ReqArrive(r) ==
  /\ Running
  /\ req[r].pc = "idle"
  /\ \E tok \in Token \cup {NoToken} :
       req' = [req EXCEPT ![r] = [pc |-> "identify", st |-> current, tok |-> tok,
                                  role |-> NoRole, floor |-> acked]]
  /\ UNCHANGED <<log, ddl, main, static, gen, lock, call, watch, acked>>

\* The role Identify returns for a token under configuration c; NoRole
\* stands for a refusal (401 or 403).
Identities(c, tok) ==
  IF tok = NoToken
    THEN {c.anon}
    ELSE IF tok.key # c.key
      THEN {NoRole}
      ELSE {IF role \in VerifierRoles(c) THEN role ELSE NoRole : role \in ResolvedRoles(c, tok)}

ReqIdentify(r) ==
  /\ ~Gone
  /\ req[r].pc = "identify"
  /\ \E role \in Identities(log[req[r].st.ver], req[r].tok) :
       req' = [req EXCEPT ![r] = [@ EXCEPT !.pc = IF role = NoRole THEN "refused" ELSE "lookup",
                                           !.role = role]]
  /\ UNCHANGED <<log, ddl, main, static, gen, lock, call, watch, acked>>

\* Mutant: the schema comes from the generation current by then.
ReqSchemaReread(r) ==
  /\ ~Gone
  /\ req[r].pc = "lookup"
  /\ req' = [req EXCEPT ![r].pc =
                IF req[r].role \in SchemaRoles(log[gen.ver]) THEN "running" ELSE "noschema"]
  /\ UNCHANGED <<log, ddl, main, static, gen, lock, call, watch, acked>>

\* The schema of the role, in the generation the request read.
ReqSchema(r) ==
  /\ ~Gone
  /\ req[r].pc = "lookup"
  /\ req' = [req EXCEPT ![r].pc =
                IF req[r].role \in SchemaRoles(log[req[r].st.ver]) THEN "running" ELSE "noschema"]
  /\ UNCHANGED <<log, ddl, main, static, gen, lock, call, watch, acked>>

\* The response is written.
ReqEnd(r) ==
  /\ ~Gone
  /\ req[r].pc \in {"refused", "noschema", "running"}
  /\ req' = [req EXCEPT ![r] = NoReq]
  /\ UNCHANGED <<log, ddl, main, static, gen, lock, call, watch, acked>>

-----------------------------------------------------------------------------
Reload(p) == ReloadLock(p) \/ ReloadLoad(p) \/ ReloadIntrospect(p) \/ ReloadStore(p)
Request(r) == ReqArrive(r) \/ ReqIdentify(r) \/ ReqSchema(r) \/ ReqEnd(r)
Watch == WatchStart \/ WatchTick \/ WatchRestamp
Environment == Edit \/ Migrate \/ Cancel

Next ==
  \/ Environment
  \/ RunLoad \/ Open \/ Exit
  \/ Watch
  \/ \E p \in Hosts : HostReload(p) \/ HostReturn(p)
  \/ \E p \in Callers : Reload(p)
  \/ \E r \in Requests : Request(r)

Spec == Init /\ [][Next]_vars

(***************************************************************************)
(* Fairness: a goroutine that can run does (the Go scheduler), and a       *)
(* goroutine waiting for reloadMu gets it when it is released again and    *)
(* again (sync.Mutex hands over in arrival order once a waiter starves).   *)
(* Nothing is assumed of operators, migrations, hosts or requests.         *)
(***************************************************************************)
Fairness ==
  /\ WF_vars(RunLoad) /\ WF_vars(Open)
  /\ WF_vars(WatchStart) /\ WF_vars(WatchTick) /\ WF_vars(WatchRestamp)
  /\ \A p \in Callers :
       /\ SF_vars(ReloadLock(p))
       /\ WF_vars(ReloadLoad(p)) /\ WF_vars(ReloadIntrospect(p)) /\ WF_vars(ReloadStore(p))

FairSpec == Spec /\ Fairness

-----------------------------------------------------------------------------
(* Safety.                                                                 *)

GenType == [ver : 0..Len(log), cat : 0..Len(ddl)]
CallType == [pc : {"idle", "calling", "locked", "loaded", "building", "done"},
             ver : 0..Len(log), cat : 0..Len(ddl), since : 0..Len(log), ok : BOOLEAN]
ReqType == [pc : {"idle", "identify", "lookup", "running", "refused", "noschema"},
            st : GenType, tok : Token \cup {NoToken}, role : Roles \cup {NoRole},
            floor : 0..Len(log)]

\* Every variable has its type, and no version lies beyond its history.
TypeOK ==
  /\ log \in Seq(Configs) /\ log # <<>>
  /\ ddl \in Seq(SUBSET Tables) /\ ddl # <<>>
  /\ main \in {"boot", "opening", "serving", "draining", "exited", "crashed"}
  /\ static \in 0..Len(log)
  /\ gen \in GenType
  /\ lock \in Callers \cup {Nobody}
  /\ call \in [Callers -> CallType]
  /\ watch \in [pc : {"off", "tick", "reload"}, last : 0..Len(log)]
  /\ req \in [Requests -> ReqType]
  /\ acked \in 0..Len(log)

Servable(c) == Loads(c) /\ c.hooks \subseteq Compiled /\ c.blank = {}
SameRoute(old, next) == old.route = next.route

\* Whatever sequence of edits, migrations and reloads, the generation being
\* served was loaded from the file whole, agrees with the pool and listener
\* the process was started with, and names only tables of the catalog it was
\* built from (buildState, reloadCompatible).
ServedIsSound ==
  gen # NoGen =>
    LET c == log[gen.ver]
        t == ddl[gen.cat]
    IN  /\ Servable(c)
        /\ SameRoute(log[static], c)
        /\ t # {} /\ c.tables \subseteq t

\* An identity the verifier accepted always has a schema: the 403 "no schema
\* for role" of server.execute cannot happen, reloads in between or not.
RoleHasSchema == \A r \in Requests : req[r].pc # "noschema"

\* When a Reload call returns nil, the gateway serves the file as it was at
\* some moment after the call began, or a later edit.
ReloadIsFresh == \A p \in Callers : call[p].pc = "done" /\ call[p].ok => gen.ver >= call[p].since

\* "save, and the next request sees it": a request that arrives after a
\* Reload returned nil is answered from that edit or a later one.
NextRequestSees == \A r \in Requests : req[r].pc # "idle" => req[r].st.ver >= req[r].floor

\* Concurrent reloads never take the gateway back to an older file or an
\* older catalog (reloadMu spans Load, build and Store).
NeverBackwards == [][gen'.ver >= gen.ver /\ gen'.cat >= gen.cat]_gen

\* Hot reload as its users know it.
Contract == INSTANCE GateContract WITH
  Contents <- Configs, history <- log, served <- gen.ver

ImplementsContract == Contract!Spec

-----------------------------------------------------------------------------
(* Liveness.                                                               *)

\* Version v may be refused over one of the catalogs seen so far, or cannot
\* be loaded under the running process.
MayBeRefused(v) ==
  /\ v <= Len(log) /\ static # 0
  /\ \/ ~ Loads(log[v])
     \/ ~ ReloadCompatible(log[static], log[v])
     \/ \E k \in 1..Len(ddl) : BuildOutcomes(log[v], ddl[k]) # {"ok"}

\* The reload that would pick up what is on disk has not read the file yet.
WatcherWillRead ==
  \/ watch.pc = "tick" /\ watch.last # Stamp
  \/ watch.pc = "reload" /\ call[Watcher].pc \in {"calling", "locked"}

Settled(v) == gen.ver >= v \/ Stamp > v \/ ~Running \/ MayBeRefused(v)

\* An edit the watcher can still tell from its last stamp is served, unless it
\* is refused, replaced by another edit, or the gateway stops.
NoticedEditIsServed ==
  \A v \in 1..(MaxEdits + 1) :
    (Running /\ WatcherWillRead /\ Stamp = v) ~> Settled(v)

\* README, Hot config reload: "Edit ..., save, and the next request sees it".
\* Two edits are lost: one saved after Run read the file and before the watcher
\* took its first stamp, and one saved between config.Load and the stamp that
\* is taken after Reload; both count as seen and are never read.
EveryEditIsServed ==
  \A v \in 1..(MaxEdits + 1) :
    (Running /\ log[static].hot /\ Stamp = v) ~> Settled(v)

\* No Reload call waits for ever, whatever the others do with reloadMu.
ReloadReturns ==
  \A p \in Callers : (call[p].pc = "calling") ~> (call[p].pc \in {"done", "idle"} \/ Gone)
=============================================================================
