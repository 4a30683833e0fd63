------------------------------ MODULE RoleCache ------------------------------
(***************************************************************************)
(* Roles from the identity table (auth/rolelookup.go, Identify of          *)
(* auth/auth.go): requests look the caller's role up concurrently, with a  *)
(* mutex around each access of the cache but not around the query between  *)
(* them.  The signup service changes and deletes rows of the table, and a  *)
(* hot reload replaces the resolver, its cache and its cache_seconds under *)
(* requests that still use the old one.                                    *)
(***************************************************************************)
EXTENDS Integers

CONSTANTS
  Requests,      \* request handlers
  Users,         \* ids that tokens carry
  NoUser,        \* a token without a usable id claim
  Roles,         \* configured roles
  Unknown,       \* a role the configuration does not know
  Unset,         \* no role: NULL or the empty string
  Deleted,       \* the user has no row
  Denied,        \* outcome of a request that is turned away
  TTL,           \* TTL[e] is cache_seconds of resolver e
  MaxDelay,      \* bound on the time from a query's read to the end of its handler
  MaxTime,       \* bound on the clock
  MaxReloads,    \* bound on hot reloads
  MaxChanges     \* bound on changes of the identity table

Epochs == 0 .. MaxReloads
Times == 0 .. MaxTime

Held == Roles \cup {Unknown, Unset, Deleted}

ASSUME RoleCacheAssumption ==
  /\ MaxDelay \in Nat /\ MaxTime \in Nat /\ MaxReloads \in Nat /\ MaxChanges \in Nat
  /\ TTL \in [Epochs -> Nat]
  /\ {Unknown, Unset, Deleted, Denied} \cap Roles = {} /\ NoUser \notin Users
  /\ Unknown \notin {Unset, Deleted}

VARIABLES
  now,      \* the clock, in seconds
  role,     \* role[u] is what the identity table says of u
  changed,  \* changes of the table so far
  had,      \* had[u][t]: what it said during second t
  epoch,    \* reloads so far: the resolver in force
  cache,    \* cache[e][u]: the entry of u in the cache of resolver e
  req       \* state of every request

vars == <<now, role, changed, had, epoch, cache, req>>

\* No entry is an entry that has expired.
NoEntry == [role |-> Unknown, expires |-> 0]
NoRequest == [pc |-> "idle", user |-> NoUser, epoch |-> 0, role |-> Unknown, read |-> 0,
              outcome |-> Denied, at |-> 0, during |-> {}]

-----------------------------------------------------------------------------
Init ==
  /\ now = 0
  /\ role \in [Users -> Held]
  /\ had = [u \in Users |-> [t \in Times |-> IF t = 0 THEN {role[u]} ELSE {}]]
  /\ changed = 0
  /\ epoch = 0
  /\ cache = [e \in Epochs |-> [u \in Users |-> NoEntry]]
  /\ req = [r \in Requests |-> NoRequest]

\* The signup service assigns a role, or deletes the row.
Assign(u, x) ==
  /\ x # role[u] /\ changed < MaxChanges
  /\ role' = [role EXCEPT ![u] = x]
  /\ changed' = changed + 1
  /\ had' = [had EXCEPT ![u][now] = @ \cup {x}]
  /\ req' = [r \in Requests |-> IF req[r].user = u /\ req[r].pc # "done"
                                THEN [req[r] EXCEPT !.during = @ \cup {x}] ELSE req[r]]
  /\ UNCHANGED <<now, epoch, cache>>

\* A second passes; no handler takes longer than MaxDelay after its read.
Tick ==
  /\ now < MaxTime
  /\ \A r \in Requests : req[r].pc = "store" => now - req[r].read < MaxDelay
  /\ now' = now + 1
  /\ had' = [u \in Users |-> [had[u] EXCEPT ![now + 1] = {role[u]}]]
  /\ UNCHANGED <<role, changed, epoch, cache, req>>

\* buildState makes a new resolver, with an empty cache.
Reload ==
  /\ epoch < MaxReloads
  /\ epoch' = epoch + 1
  /\ UNCHANGED <<now, role, changed, had, cache, req>>

\* A request arrives; its token is valid.  Identify takes the resolver in
\* force, which turns away a token without an id.
Arrive(r, u) ==
  /\ req[r].pc \in {"idle", "done"}
  /\ req' = [req EXCEPT ![r] = [NoRequest EXCEPT
       !.pc = IF u = NoUser THEN "done" ELSE "lookup",
       !.user = u, !.epoch = epoch, !.during = IF u = NoUser THEN {} ELSE {role[u]}]]
  /\ UNCHANGED <<now, role, changed, had, epoch, cache>>

\* The role as Identify takes it: only configured roles pass.
Granted(x) == IF x \in Roles THEN x ELSE Denied

Done(r, outcome) ==
  [req[r] EXCEPT !.pc = "done", !.outcome = outcome, !.at = now, !.role = Unknown, !.read = 0]

\* The cache lookup, under the mutex; expired entries are not used.
Fresh(ttl, e) == ttl > 0 /\ now < e.expires

Lookup(r) ==
  LET e == cache[req[r].epoch][req[r].user] IN
  /\ req[r].pc = "lookup"
  /\ req' = [req EXCEPT ![r] = IF Fresh(TTL[req[r].epoch], e) THEN Done(r, Granted(e.role)) ELSE [req[r] EXCEPT !.pc = "query"]]
  /\ UNCHANGED <<now, role, changed, had, epoch, cache>>

\* The query reads the row.  No row, no role, or a database error: denied,
\* and nothing is remembered.
Query(r) ==
  /\ req[r].pc = "query"
  /\ \/ /\ role[req[r].user] \in Roles \cup {Unknown}
        /\ req' = [req EXCEPT ![r] = [req[r] EXCEPT !.pc = "store", !.role = role[req[r].user], !.read = now]]
     \/ req' = [req EXCEPT ![r] = Done(r, Denied)]
  /\ UNCHANGED <<now, role, changed, had, epoch, cache>>

\* The answer is stored, under the mutex again, to expire cache_seconds from
\* now: whatever is stored there already is overwritten.
\* (Prolonged is a mutant that extends the entry it finds.)
Prolonged(e, ttl, x) == IF e = NoEntry THEN [role |-> x, expires |-> now + ttl] ELSE [e EXCEPT !.expires = now + ttl]
Entry(e, ttl, x) == [role |-> x, expires |-> now + ttl]

\* (StoreJoined is a mutant that shares the answer of a query under way.)
StoreJoined(r) == \E s \in Requests :
  LET q == req[s] IN
  /\ req[r].pc = "store" /\ q.pc = "store" /\ q.user = req[r].user
  /\ cache' = IF TTL[q.epoch] > 0 THEN [cache EXCEPT ![q.epoch][q.user] = Entry(@, TTL[q.epoch], q.role)] ELSE cache
  /\ req' = [req EXCEPT ![r] = Done(r, Granted(q.role))]
  /\ UNCHANGED <<now, role, changed, had, epoch>>
Store(r) ==
  LET q == req[r] IN
  /\ q.pc = "store"
  /\ cache' = IF TTL[q.epoch] > 0 THEN [cache EXCEPT ![q.epoch][q.user] = Entry(@, TTL[q.epoch], q.role)] ELSE cache
  /\ req' = [req EXCEPT ![r] = Done(r, Granted(q.role))]
  /\ UNCHANGED <<now, role, changed, had, epoch>>

Next ==
  \/ \E u \in Users, x \in Held : Assign(u, x)
  \/ Tick \/ Reload
  \/ \E r \in Requests : (\E u \in Users \cup {NoUser} : Arrive(r, u)) \/ Lookup(r) \/ Query(r) \/ Store(r)

Spec == Init /\ [][Next]_vars

-----------------------------------------------------------------------------
RequestType ==
  [pc : {"idle", "lookup", "query", "store", "done"}, user : Users \cup {NoUser}, epoch : Epochs,
   role : Held, read : Times, outcome : Roles \cup {Denied}, at : Times, during : SUBSET Held]

\* Every variable has its type; a cache holds roles that some query returned.
TypeOK ==
  /\ now \in Times /\ epoch \in Epochs /\ changed \in Nat
  /\ role \in [Users -> Held]
  /\ had \in [Users -> [Times -> SUBSET Held]]
  /\ cache \in [Epochs -> [Users -> [role : Roles \cup {Unknown}, expires : Nat]]]
  /\ req \in [Requests -> RequestType]

granted(r) == req[r].pc = "done" /\ req[r].outcome # Denied

\* cache_seconds "caches id->role lookups for that long": however requests
\* race for an entry, a caller is given a role that it had in the table
\* cache_seconds ago at most, and the time a handler may take on top.
BoundedStaleness ==
  \A r \in Requests : granted(r) =>
    \E t \in Times : /\ req[r].at - (TTL[req[r].epoch] + MaxDelay) <= t /\ t <= req[r].at
                     /\ req[r].outcome \in had[req[r].user][t]

\* With cache_seconds: 0, "a fresh lookup every request": the role was in the
\* table at some moment of the request, also when a reload has just turned the
\* cache off.
FreshRole ==
  \A r \in Requests : granted(r) /\ TTL[req[r].epoch] = 0 => req[r].outcome \in req[r].during
=============================================================================
