--------------------------- MODULE RoleCacheProofs ---------------------------
(***************************************************************************)
(* How stale a cached role can be, for any number of requests, users and   *)
(* reloads, any cache_seconds and any bound on the handlers' delay.        *)
(*                                                                         *)
(* BoundedStaleness speaks of requests that have been answered.  What      *)
(* keeps it true is kept in two other places: each cache entry (EntrySound)*)
(* and each answer on its way from the query to the cache (RequestSound).  *)
(* FreshRole needs what a request has seen of its user's row (RowsSeen).   *)
(***************************************************************************)
EXTENDS RoleCache, TLAPS

\* The table said x of u at some time from `from` to `to`.
HeldIn(u, x, from, to) == \E t \in Times : from <= t /\ t <= to /\ x \in had[u][t]

EntrySound ==
  \A e \in Epochs, u \in Users :
    cache[e][u] # NoEntry =>
      HeldIn(u, cache[e][u].role, cache[e][u].expires - (TTL[e] + MaxDelay), now)

\* A request in progress has a user, a query's answer was in the table when it
\* was read, not too long ago, and a role that was granted is not too old.
RequestSound(q) ==
  /\ q.pc \in {"lookup", "query", "store"} => q.user \in Users
  /\ q.pc = "store" =>
       /\ q.read <= now /\ now <= q.read + MaxDelay
       /\ q.role \in had[q.user][q.read] /\ q.role \in Roles \cup {Unknown}
  /\ q.pc = "done" /\ q.outcome # Denied =>
       /\ q.user \in Users /\ q.at <= now
       /\ HeldIn(q.user, q.outcome, q.at - (TTL[q.epoch] + MaxDelay), q.at)

RequestsSound == \A r \in Requests : RequestSound(req[r])

Current == \A u \in Users : role[u] \in had[u][now]

Inv == TypeOK /\ Current /\ EntrySound /\ RequestsSound

-----------------------------------------------------------------------------
LEMMA NoRequestType == NoRequest \in RequestType
BY RoleCacheAssumption DEF NoRequest, RequestType, Epochs, Times, Held

LEMMA TypeInit == Init => TypeOK
<1>. SUFFICES ASSUME Init PROVE TypeOK
  OBVIOUS
<1>1. NoRequest \in RequestType
  BY NoRequestType
<1>2. had \in [Users -> [Times -> SUBSET Held]]
  <2>1. had = [u \in Users |-> [t \in Times |-> IF t = 0 THEN {role[u]} ELSE {}]] /\ role \in [Users -> Held]
    BY DEF Init
  <2> QED BY <2>1
<1>3. cache \in [Epochs -> [Users -> [role : Roles \cup {Unknown}, expires : Nat]]]
  BY DEF Init, NoEntry
<1>4. now \in Times /\ epoch \in Epochs /\ changed \in Nat
  BY RoleCacheAssumption DEF Init, Times, Epochs
<1>5. role \in [Users -> Held] /\ req \in [Requests -> RequestType]
  BY <1>1 DEF Init
<1> QED BY <1>2, <1>3, <1>4, <1>5 DEF TypeOK

LEMMA DoneType ==
  ASSUME TypeOK, NEW r \in Requests, NEW x \in Roles \cup {Denied}
  PROVE  /\ Done(r, x) \in RequestType
         /\ Done(r, x).pc = "done" /\ Done(r, x).outcome = x /\ Done(r, x).at = now
         /\ Done(r, x).user = req[r].user /\ Done(r, x).during = req[r].during
         /\ Done(r, x).epoch = req[r].epoch
<1>1. req[r] \in RequestType /\ now \in Times
  BY DEF TypeOK
<1>2. Unknown \in Held /\ 0 \in Times /\ 0 \in Epochs
  BY RoleCacheAssumption DEF Held, Times, Epochs
<1> QED BY <1>1, <1>2 DEF Done, RequestType

LEMMA GrantedType == \A x : Granted(x) \in Roles \cup {Denied}
BY DEF Granted

LEMMA InitInv == Init => Inv
<1>. SUFFICES ASSUME Init PROVE Inv
  OBVIOUS
<1>1. TypeOK
  BY TypeInit
<1>2. Current
  BY RoleCacheAssumption DEF Init, Current, Times
<1>3. EntrySound /\ \A r \in Requests : req[r].pc = "idle"
  BY DEF Init, EntrySound, NoRequest
<1> QED BY <1>1, <1>2, <1>3 DEF Inv, RequestsSound, RequestSound

-----------------------------------------------------------------------------
\* What every step does to the clock and the past of the table.
LEMMA PastStays ==
  ASSUME TypeOK, Current, [Next]_vars
  PROVE  /\ now' \in Times /\ now <= now'
         /\ role' \in [Users -> Held]
         /\ had' \in [Users -> [Times -> SUBSET Held]]
         /\ changed' \in Nat /\ epoch' \in Epochs
         /\ Current'
         /\ \A u \in Users : \A t \in Times : t <= now => had[u][t] \subseteq had'[u][t]
<1>. USE DEF TypeOK
<1>0. now \in Nat /\ \A t \in Times : t \in Nat
  BY DEF Times
<1>1. ASSUME NEW u \in Users, NEW x \in Held, Assign(u, x)
      PROVE  /\ now' = now /\ epoch' = epoch /\ changed' \in Nat /\ role' \in [Users -> Held]
             /\ had' \in [Users -> [Times -> SUBSET Held]]
             /\ \A v \in Users : role'[v] \in had'[v][now]
             /\ \A v \in Users : \A t \in Times : had[v][t] \subseteq had'[v][t]
  <2>1. role' = [role EXCEPT ![u] = x] /\ had' = [had EXCEPT ![u][now] = @ \cup {x}]
    BY <1>1 DEF Assign
  <2>2. had[u] \in [Times -> SUBSET Held] /\ had[u][now] \in SUBSET Held
    OBVIOUS
  <2>3. had'[u] = [had[u] EXCEPT ![now] = @ \cup {x}] /\ \A v \in Users \ {u} : had'[v] = had[v]
    BY <2>1
  <2>4. had' \in [Users -> [Times -> SUBSET Held]]
    BY <2>1, <2>2
  <2>5. \A t \in Times : had'[u][t] = IF t = now THEN had[u][t] \cup {x} ELSE had[u][t]
    BY <2>2, <2>3
  <2> QED BY <1>1, <2>1, <2>3, <2>4, <2>5 DEF Assign, Current
<1>2. CASE Tick
  <2>1. now' = now + 1 /\ now' \in Times
    BY <1>0, <1>2, RoleCacheAssumption DEF Tick, Times
  <2>2. had' = [u \in Users |-> [had[u] EXCEPT ![now + 1] = {role[u]}]]
    BY <1>2 DEF Tick
  <2>3. \A u \in Users : had[u] \in [Times -> SUBSET Held] /\ {role[u]} \in SUBSET Held
    OBVIOUS
  <2>4. \A u \in Users : had'[u] \in [Times -> SUBSET Held]
    BY <2>1, <2>2, <2>3
  <2>5. had' \in [Users -> [Times -> SUBSET Held]]
    BY <2>2, <2>4
  <2>6. \A u \in Users : \A t \in Times : had'[u][t] = IF t = now + 1 THEN {role[u]} ELSE had[u][t]
    BY <2>1, <2>2, <2>3
  <2>7. \A t \in Times : t <= now => t # now + 1
    BY <1>0
  <2> QED BY <1>0, <1>2, <2>1, <2>5, <2>6, <2>7 DEF Tick, Current
<1>3. ASSUME UNCHANGED <<now, role, changed, had>>, epoch' \in Epochs
      PROVE  /\ now' = now /\ Current' /\ had' = had
  BY <1>3 DEF Current
<1>4. CASE Reload
  BY <1>0, <1>3, <1>4, RoleCacheAssumption DEF Reload, Epochs
<1>5. ASSUME NEW r \in Requests, (\E u \in Users \cup {NoUser} : Arrive(r, u)) \/ Lookup(r) \/ Query(r) \/ Store(r)
      PROVE  UNCHANGED <<now, role, changed, had>> /\ epoch' = epoch
  BY <1>5 DEF Arrive, Lookup, Query, Store
<1>6. CASE UNCHANGED vars
  BY <1>0, <1>3, <1>6 DEF vars
<1> QED BY <1>0, <1>1, <1>2, <1>3, <1>4, <1>5, <1>6 DEF Next, Current

\* A role held once stays held.
LEMMA HeldStays ==
  ASSUME TypeOK, Current, [Next]_vars,
         NEW u \in Users, NEW x, NEW from, NEW to \in Times, to <= now, HeldIn(u, x, from, to)
  PROVE  HeldIn(u, x, from, to)'
<1>1. PICK t \in Times : from <= t /\ t <= to /\ x \in had[u][t]
  BY DEF HeldIn
<1>2. t <= now
  BY <1>1 DEF TypeOK, Times
<1> QED BY <1>1, <1>2, PastStays DEF HeldIn

\* An entry or a request that a step leaves alone stays sound.
LEMMA EntryStays ==
  ASSUME Inv, [Next]_vars, NEW e \in Epochs, NEW u \in Users, cache'[e][u] = cache[e][u], cache[e][u] # NoEntry
  PROVE  HeldIn(u, cache[e][u].role, cache[e][u].expires - (TTL[e] + MaxDelay), now)'
<1>. DEFINE x == cache[e][u].role
            from == cache[e][u].expires - (TTL[e] + MaxDelay)
<1>1. HeldIn(u, x, from, now)
  BY DEF Inv, EntrySound
<1>2. PICK t \in Times : from <= t /\ t <= now /\ x \in had[u][t]
  BY <1>1 DEF HeldIn
<1>3. x \in had'[u][t] /\ t <= now' /\ x' = x /\ from' = from
  BY <1>2, PastStays DEF Inv, TypeOK, Times
<1> QED BY <1>2, <1>3 DEF HeldIn

LEMMA RequestStays ==
  ASSUME TypeOK, Current, [Next]_vars, NEW q \in RequestType, RequestSound(q),
         q.pc = "store" => now' <= q.read + MaxDelay
  PROVE  RequestSound(q)'
<1>1. /\ q.read \in Times /\ q.at \in Times /\ now \in Times /\ now' \in Times
      /\ TTL[q.epoch] \in Nat /\ MaxDelay \in Nat
      /\ \A t \in Times : t \in Int
  BY PastStays, RoleCacheAssumption DEF RequestType, TypeOK, Times
<1>2. now <= now' /\ \A u \in Users : \A t \in Times : t <= now => had[u][t] \subseteq had'[u][t]
  BY PastStays
<1>3. CASE q.pc = "store"
  BY <1>1, <1>2, <1>3 DEF RequestSound
<1>4. CASE q.pc = "done" /\ q.outcome # Denied
  <2>1. HeldIn(q.user, q.outcome, q.at - (TTL[q.epoch] + MaxDelay), q.at)'
    BY <1>1, <1>4, HeldStays DEF RequestSound
  <2> QED BY <1>1, <1>2, <1>4, <2>1 DEF RequestSound
<1>5. CASE ~(q.pc = "store") /\ ~(q.pc = "done" /\ q.outcome # Denied)
  BY <1>5 DEF RequestSound
<1> QED BY <1>3, <1>4, <1>5

-----------------------------------------------------------------------------
\* One step of one request: its new state is sound, and so is the cache.
LEMMA RequestStep ==
  ASSUME Inv, NEW r \in Requests,
         (\E u \in Users \cup {NoUser} : Arrive(r, u)) \/ Lookup(r) \/ Query(r) \/ Store(r)
  PROVE  \E q \in RequestType : /\ req' = [req EXCEPT ![r] = q]
                                /\ RequestSound(q)
                                /\ q.pc = "store" => now <= q.read + MaxDelay
<1>. USE DEF Inv
<1>1. req[r] \in RequestType /\ now \in Times /\ now \in Int /\ RequestSound(req[r])
  BY DEF TypeOK, RequestsSound, Times
<1>2. TTL[req[r].epoch] \in Nat /\ MaxDelay \in Nat
  BY <1>1, RoleCacheAssumption DEF RequestType
<1>3. ASSUME NEW u \in Users \cup {NoUser}, Arrive(r, u)
      PROVE  \E q \in RequestType : /\ req' = [req EXCEPT ![r] = q]
                                    /\ RequestSound(q) /\ q.pc # "store"
  <2>. DEFINE q == [NoRequest EXCEPT !.pc = IF u = NoUser THEN "done" ELSE "lookup",
                      !.user = u, !.epoch = epoch, !.during = IF u = NoUser THEN {} ELSE {role[u]}]
  <2>1. req' = [req EXCEPT ![r] = q]
    BY <1>3 DEF Arrive
  <2>2. (IF u = NoUser THEN {} ELSE {role[u]}) \in SUBSET Held
    BY DEF TypeOK
  <2>3. q \in RequestType
    <3>. DEFINE pc == IF u = NoUser THEN "done" ELSE "lookup"
                during == IF u = NoUser THEN {} ELSE {role[u]}
    <3>1. /\ pc \in {"done", "lookup"} /\ during \in SUBSET Held /\ epoch \in Epochs
          /\ Unknown \in Held /\ 0 \in Times
      BY <2>2, RoleCacheAssumption DEF TypeOK, Held, Times
    <3>2. NoRequest \in RequestType
      BY NoRequestType
    <3>3. q = [NoRequest EXCEPT !.pc = pc, !.user = u, !.epoch = epoch, !.during = during]
      OBVIOUS
    <3>. HIDE DEF pc, during, q
    <3> QED BY <3>1, <3>2, <3>3 DEF RequestType
  <2>4. q.pc \in {"done", "lookup"} /\ q.outcome = Denied /\ q.user = u /\ (q.pc = "lookup" => u # NoUser)
    BY DEF NoRequest
  <2>5. RequestSound(q)
    BY <2>4 DEF RequestSound
  <2> QED BY <2>1, <2>3, <2>4, <2>5
<1>4. CASE Lookup(r)
  <2>. DEFINE e == cache[req[r].epoch][req[r].user]
  <2>1. req[r].user \in Users /\ req[r].epoch \in Epochs
    BY <1>1, <1>4 DEF Lookup, RequestSound, RequestType
  <2>2. e \in [role : Roles \cup {Unknown}, expires : Nat]
    BY <2>1 DEF TypeOK
  <2>3. CASE Fresh(TTL[req[r].epoch], e)
    <3>. DEFINE q == Done(r, Granted(e.role))
    <3>1. req' = [req EXCEPT ![r] = q]
      BY <1>4, <2>3 DEF Lookup
    <3>2. /\ q \in RequestType /\ q.pc = "done" /\ q.outcome = Granted(e.role)
          /\ q.at = now /\ q.user = req[r].user /\ q.epoch = req[r].epoch
      BY DoneType, GrantedType
    <3>3. e # NoEntry
      <4>1. now < e.expires /\ now >= 0
        BY <1>1, <2>3 DEF Fresh, Times
      <4> QED BY <1>1, <4>1 DEF NoEntry
    <3>4. HeldIn(req[r].user, e.role, e.expires - (TTL[req[r].epoch] + MaxDelay), now)
      BY <2>1, <3>3 DEF EntrySound
    <3>5. HeldIn(req[r].user, e.role, now - (TTL[req[r].epoch] + MaxDelay), now)
      <4>1. PICK t \in Times : e.expires - (TTL[req[r].epoch] + MaxDelay) <= t /\ t <= now /\ e.role \in had[req[r].user][t]
        BY <3>4 DEF HeldIn
      <4>2. now - (TTL[req[r].epoch] + MaxDelay) <= t
        BY <1>1, <1>2, <2>2, <2>3, <4>1 DEF Fresh, Times
      <4> QED BY <4>1, <4>2 DEF HeldIn
    <3>6. q.outcome # Denied => q.outcome = e.role
      BY <3>2 DEF Granted
    <3>. HIDE DEF q, e
    <3>7. RequestSound(q)
      BY <1>1, <2>1, <3>2, <3>5, <3>6 DEF RequestSound
    <3> QED BY <3>1, <3>2, <3>7
  <2>4. CASE ~Fresh(TTL[req[r].epoch], e)
    <3>. DEFINE q == [req[r] EXCEPT !.pc = "query"]
    <3>1. req' = [req EXCEPT ![r] = q]
      BY <1>4, <2>4 DEF Lookup
    <3>2. q \in RequestType /\ q.pc = "query" /\ q.user = req[r].user
      BY <1>1 DEF RequestType
    <3> QED BY <2>1, <3>1, <3>2 DEF RequestSound
  <2> QED BY <2>3, <2>4
<1>5. CASE Query(r)
  <2>1. req[r].user \in Users
    BY <1>1, <1>5 DEF Query, RequestSound
  <2>2. CASE req' = [req EXCEPT ![r] = Done(r, Denied)]
    <3>1. /\ Done(r, Denied) \in RequestType /\ Done(r, Denied).pc = "done"
          /\ Done(r, Denied).outcome = Denied
      BY DoneType
    <3> QED BY <2>2, <3>1 DEF RequestSound
  <2>3. CASE req' = [req EXCEPT ![r] = [req[r] EXCEPT !.pc = "store", !.role = role[req[r].user], !.read = now]]
    <3>. DEFINE q == [req[r] EXCEPT !.pc = "store", !.role = role[req[r].user], !.read = now]
    <3>1. role[req[r].user] \in Held
      BY <2>1 DEF TypeOK
    <3>2. /\ q \in RequestType /\ q.pc = "store" /\ q.user = req[r].user
          /\ q.role = role[req[r].user] /\ q.read = now
      BY <1>1, <3>1 DEF RequestType
    <3>3. q.role \in had[q.user][q.read]
      BY <2>1, <3>2 DEF Current
    <3>4. now <= q.read + MaxDelay
      BY <1>1, <1>2, <3>2
    <3>5. role[req[r].user] \in Roles \cup {Unknown}
      <4>1. role[req[r].user] \in Roles \cup {Unknown} \/ req' = [req EXCEPT ![r] = Done(r, Denied)]
        BY <1>5 DEF Query
      <4>2. CASE req' = [req EXCEPT ![r] = Done(r, Denied)]
        <5>1. req'[r].pc = "store"
          BY <2>3, <3>2 DEF TypeOK
        <5>2. req'[r] = Done(r, Denied)
          BY <4>2 DEF TypeOK
        <5>3. Done(r, Denied).pc = "done"
          BY DoneType
        <5> QED BY <5>1, <5>2, <5>3
      <4> QED BY <4>1, <4>2
    <3>6. req' = [req EXCEPT ![r] = q]
      BY <2>3
    <3>. HIDE DEF q
    <3>7. RequestSound(q)
      BY <1>1, <2>1, <3>2, <3>3, <3>4, <3>5 DEF RequestSound
    <3> QED BY <3>2, <3>4, <3>6, <3>7
  <2> QED BY <1>5, <2>2, <2>3 DEF Query
<1>6. CASE Store(r)
  <2>. DEFINE q == Done(r, Granted(req[r].role))
  <2>1. req' = [req EXCEPT ![r] = q]
    BY <1>6 DEF Store
  <2>2. /\ q \in RequestType /\ q.pc = "done" /\ q.outcome = Granted(req[r].role)
        /\ q.at = now /\ q.user = req[r].user /\ q.epoch = req[r].epoch
    BY DoneType, GrantedType
  <2>3. /\ req[r].user \in Users /\ req[r].read <= now /\ now <= req[r].read + MaxDelay
        /\ req[r].role \in had[req[r].user][req[r].read]
    BY <1>1, <1>6 DEF Store, RequestSound
  <2>4. req[r].read \in Times /\ req[r].read \in Int
    BY <1>1 DEF RequestType, Times
  <2>5. HeldIn(req[r].user, req[r].role, now - (TTL[req[r].epoch] + MaxDelay), now)
    BY <1>1, <1>2, <2>3, <2>4 DEF HeldIn
  <2>6. q.outcome # Denied => q.outcome = req[r].role
    BY <2>2 DEF Granted
  <2>. HIDE DEF q
  <2>7. RequestSound(q)
    BY <1>1, <2>2, <2>3, <2>5, <2>6 DEF RequestSound
  <2> QED BY <2>1, <2>2, <2>7
<1> QED BY <1>3, <1>4, <1>5, <1>6

LEMMA NextInv == Inv /\ [Next]_vars => Inv'
<1>. SUFFICES ASSUME Inv, [Next]_vars PROVE Inv'
  OBVIOUS
<1>. USE DEF Inv
<1>1. /\ now' \in Times /\ now <= now' /\ role' \in [Users -> Held]
      /\ had' \in [Users -> [Times -> SUBSET Held]] /\ changed' \in Nat /\ epoch' \in Epochs /\ Current'
  BY PastStays
<1>2. /\ now \in Int /\ now' \in Int /\ TTL \in [Epochs -> Nat] /\ MaxDelay \in Nat
      /\ cache \in [Epochs -> [Users -> [role : Roles \cup {Unknown}, expires : Nat]]]
      /\ req \in [Requests -> RequestType]
  BY <1>1, RoleCacheAssumption DEF TypeOK, Times
<1>3. ASSUME req' = req, cache' = cache,
             \A r \in Requests : req[r].pc = "store" => now' <= req[r].read + MaxDelay
      PROVE  Inv'
  <2>1. RequestsSound'
    BY <1>2, <1>3, RequestStays DEF RequestsSound
  <2>2. EntrySound'
    BY <1>3, EntryStays DEF EntrySound
  <2> QED BY <1>1, <1>2, <1>3, <2>1, <2>2 DEF TypeOK
<1>4. CASE Tick
  <2>1. \A r \in Requests : req[r].pc = "store" => now' <= req[r].read + MaxDelay
    <3>1. \A r \in Requests : req[r].read \in Int
      BY <1>2 DEF RequestType, Times
    <3> QED BY <1>2, <1>4, <3>1 DEF Tick
  <2> QED BY <1>3, <1>4, <2>1 DEF Tick
<1>5. CASE Reload \/ UNCHANGED vars
  <2>1. \A r \in Requests : req[r].pc = "store" => now <= req[r].read + MaxDelay
    BY DEF RequestsSound, RequestSound
  <2> QED BY <1>3, <1>5, <2>1 DEF Reload, vars
<1>6. ASSUME NEW u \in Users, NEW x \in Held, Assign(u, x)
      PROVE  Inv'
  <2>1. now' = now /\ cache' = cache
    BY <1>6 DEF Assign
  <2>2. \A r \in Requests : req'[r] \in RequestType /\ RequestSound(req'[r]) /\
          (req'[r].pc = "store" => now <= req'[r].read + MaxDelay)
    <3>. SUFFICES ASSUME NEW r \in Requests
         PROVE  req'[r] \in RequestType /\ RequestSound(req'[r]) /\
                (req'[r].pc = "store" => now <= req'[r].read + MaxDelay)
      OBVIOUS
    <3>1. req[r] \in RequestType /\ RequestSound(req[r])
      BY <1>2 DEF RequestsSound
    <3>2. req'[r] = req[r] \/ req'[r] = [req[r] EXCEPT !.during = @ \cup {x}]
      BY <1>6 DEF Assign
    <3>3. /\ req'[r] \in RequestType /\ req'[r].pc = req[r].pc /\ req'[r].user = req[r].user
          /\ req'[r].read = req[r].read /\ req'[r].role = req[r].role
          /\ req'[r].outcome = req[r].outcome /\ req'[r].at = req[r].at /\ req'[r].epoch = req[r].epoch
      BY <3>1, <3>2 DEF RequestType
    <3> QED BY <3>1, <3>3 DEF RequestSound
  <2>3. RequestsSound'
    <3>. SUFFICES ASSUME NEW r \in Requests PROVE RequestSound(req[r])'
      BY DEF RequestsSound
    <3>. DEFINE q == req'[r]
    <3>1. q \in RequestType /\ RequestSound(q) /\ (q.pc = "store" => now <= q.read + MaxDelay)
      BY <2>2
    <3>2. \A p \in RequestType :
            RequestSound(p) /\ (p.pc = "store" => now' <= p.read + MaxDelay) => RequestSound(p)'
      BY RequestStays
    <3> QED BY <2>1, <3>1, <3>2
  <2>4. req' \in [Requests -> RequestType]
    <3>1. req' = [r \in Requests |-> req'[r]]
      BY <1>6 DEF Assign
    <3> QED BY <2>2, <3>1
  <2>5. EntrySound'
    BY <2>1, EntryStays DEF EntrySound
  <2> QED BY <1>1, <1>2, <2>1, <2>3, <2>4, <2>5 DEF TypeOK
<1>7. ASSUME NEW r \in Requests, (\E u \in Users \cup {NoUser} : Arrive(r, u)) \/ Lookup(r) \/ Query(r) \/ Store(r)
      PROVE  Inv'
  <2>1. now' = now /\ had' = had
    BY <1>7 DEF Arrive, Lookup, Query, Store
  <2>2. PICK q \in RequestType : /\ req' = [req EXCEPT ![r] = q] /\ RequestSound(q)
                                 /\ q.pc = "store" => now <= q.read + MaxDelay
    BY <1>7, RequestStep
  <2>3. req' \in [Requests -> RequestType]
    BY <1>2, <2>2
  <2>4. \A s \in Requests : req'[s] = IF s = r THEN q ELSE req[s]
    BY <1>2, <2>2
  <2>5. RequestsSound'
    BY <2>1, <2>2, <2>4 DEF RequestsSound, RequestSound, HeldIn
  <2>6. /\ cache' \in [Epochs -> [Users -> [role : Roles \cup {Unknown}, expires : Nat]]]
        /\ EntrySound'
    <3>1. CASE cache' = cache
      BY <1>2, <3>1, EntryStays DEF EntrySound
    <3>2. CASE Store(r) /\ TTL[req[r].epoch] > 0
      <4>. DEFINE e0 == req[r].epoch
                  u0 == req[r].user
                  new == [role |-> req[r].role, expires |-> now + TTL[e0]]
      <4>1. cache' = [cache EXCEPT ![e0][u0] = new]
        BY <3>2 DEF Store, Entry
      <4>2. /\ e0 \in Epochs /\ u0 \in Users /\ req[r].role \in Roles \cup {Unknown}
            /\ req[r].read \in Times /\ req[r].read <= now /\ now <= req[r].read + MaxDelay
            /\ req[r].role \in had[u0][req[r].read]
        BY <1>2, <3>2 DEF Store, RequestsSound, RequestSound, RequestType
      <4>3. now + TTL[e0] \in Nat /\ new \in [role : Roles \cup {Unknown}, expires : Nat]
        BY <1>2, <4>2 DEF TypeOK, Times
      <4>. HIDE DEF new
      <4>4. /\ cache' \in [Epochs -> [Users -> [role : Roles \cup {Unknown}, expires : Nat]]]
            /\ \A e \in Epochs, u \in Users : cache'[e][u] = IF e = e0 /\ u = u0 THEN new ELSE cache[e][u]
        BY <1>2, <4>1, <4>2, <4>3
      <4>5. HeldIn(u0, new.role, new.expires - (TTL[e0] + MaxDelay), now)
        <5>1. req[r].read \in Int
          BY <4>2 DEF Times
        <5>2. new.expires - (TTL[e0] + MaxDelay) <= req[r].read
          BY <1>2, <4>2, <5>1 DEF new
        <5> QED BY <4>2, <5>2 DEF HeldIn, new
      <4>6. EntrySound'
        BY <2>1, <4>4, <4>5 DEF EntrySound, HeldIn
      <4> QED BY <4>4, <4>6
    <3> QED BY <1>7, <3>1, <3>2 DEF Arrive, Lookup, Query, Store
  <2> QED BY <1>1, <2>3, <2>5, <2>6 DEF TypeOK
<1> QED BY <1>4, <1>5, <1>6, <1>7 DEF Next

\* A role that was granted is at most cache_seconds and one handler's delay
\* old, however requests, reloads and changes of the table interleave.
THEOREM StalenessIsBounded == Spec => [](TypeOK /\ BoundedStaleness)
<1>1. Init => Inv
  BY InitInv
<1>2. Inv /\ [Next]_vars => Inv'
  BY NextInv
<1>3. Inv => TypeOK /\ BoundedStaleness
  BY DEF Inv, RequestsSound, RequestSound, HeldIn, BoundedStaleness, granted
<1> QED BY <1>1, <1>2, <1>3, PTL DEF Spec

-----------------------------------------------------------------------------
\* What a request in progress has seen of its user's row.
RowSeen(q, held) ==
  /\ q.pc \in {"lookup", "query"} => held[q.user] \in q.during
  /\ q.pc = "store" => q.role \in q.during
  /\ q.pc = "done" /\ q.outcome # Denied /\ TTL[q.epoch] = 0 => q.outcome \in q.during

RowsSeen == \A r \in Requests : RowSeen(req[r], role)

LEMMA InitSeen == Init => RowsSeen
<1>1. ASSUME Init, NEW r \in Requests PROVE req[r].pc = "idle"
  BY <1>1 DEF Init, NoRequest
<1> QED BY <1>1 DEF RowsSeen, RowSeen

\* A change of a row is seen by every request of its user.
LEMMA AssignSeen ==
  ASSUME Inv, RowsSeen, NEW u \in Users, NEW x \in Held, Assign(u, x)
  PROVE  RowsSeen'
<1>. SUFFICES ASSUME NEW r \in Requests PROVE RowSeen(req'[r], role')
  BY DEF RowsSeen
<1>1. /\ req[r] \in RequestType /\ role \in [Users -> Held] /\ RowSeen(req[r], role)
      /\ req[r].pc \in {"lookup", "query", "store"} => req[r].user \in Users
  BY DEF Inv, TypeOK, RowsSeen, RequestsSound, RequestSound
<1>2. role' = [role EXCEPT ![u] = x]
  BY DEF Assign
<1>3. CASE req[r].user = u /\ req[r].pc # "done"
  <2>1. req'[r] = [req[r] EXCEPT !.during = @ \cup {x}]
    BY <1>3 DEF Assign
  <2>2. /\ req'[r].pc = req[r].pc /\ req'[r].user = u /\ req'[r].role = req[r].role
        /\ req'[r].during = req[r].during \cup {x}
    BY <1>1, <1>3, <2>1 DEF RequestType
  <2> QED BY <1>1, <1>2, <1>3, <2>2 DEF RowSeen
<1>4. CASE ~(req[r].user = u /\ req[r].pc # "done")
  <2>1. req'[r] = req[r]
    BY <1>4 DEF Assign
  <2> QED BY <1>1, <1>2, <1>4, <2>1 DEF RowSeen
<1> QED BY <1>3, <1>4

\* One step of one request.
LEMMA RequestSeen ==
  ASSUME Inv, RowsSeen, NEW r \in Requests,
         (\E u \in Users \cup {NoUser} : Arrive(r, u)) \/ Lookup(r) \/ Query(r) \/ Store(r)
  PROVE  RowsSeen'
<1>1. /\ req \in [Requests -> RequestType] /\ req[r] \in RequestType /\ RowSeen(req[r], role)
      /\ role' = role
  BY DEF Inv, TypeOK, RowsSeen, Arrive, Lookup, Query, Store
<1>2. ASSUME NEW q, req' = [req EXCEPT ![r] = q], RowSeen(q, role)
      PROVE  RowsSeen'
  BY <1>1, <1>2 DEF RowsSeen
<1>3. \A x \in Roles \cup {Denied} :
        /\ Done(r, x).pc = "done" /\ Done(r, x).outcome = x
        /\ Done(r, x).during = req[r].during /\ Done(r, x).epoch = req[r].epoch
  BY DoneType DEF Inv
<1>4. ASSUME NEW u \in Users \cup {NoUser}, Arrive(r, u)
      PROVE  RowsSeen'
  <2>. DEFINE q == [NoRequest EXCEPT !.pc = IF u = NoUser THEN "done" ELSE "lookup",
                      !.user = u, !.epoch = epoch, !.during = IF u = NoUser THEN {} ELSE {role[u]}]
  <2>1. RowSeen(q, role)
    BY DEF RowSeen, NoRequest
  <2> QED BY <1>2, <1>4, <2>1 DEF Arrive
<1>5. CASE Lookup(r)
  <2>. DEFINE e == cache[req[r].epoch][req[r].user]
  <2>1. CASE Fresh(TTL[req[r].epoch], e)
    <3>1. TTL[req[r].epoch] # 0
      BY <1>1, <2>1, RoleCacheAssumption DEF Fresh, RequestType
    <3>2. RowSeen(Done(r, Granted(e.role)), role)
      BY <1>3, <3>1, GrantedType DEF RowSeen
    <3> QED BY <1>2, <1>5, <2>1, <3>2 DEF Lookup
  <2>2. CASE ~Fresh(TTL[req[r].epoch], e)
    <3>1. RowSeen([req[r] EXCEPT !.pc = "query"], role)
      BY <1>1, <1>5 DEF RowSeen, Lookup, RequestType
    <3> QED BY <1>2, <1>5, <2>2, <3>1 DEF Lookup
  <2> QED BY <2>1, <2>2
<1>6. CASE Query(r)
  <2>1. RowSeen(Done(r, Denied), role)
    BY <1>3 DEF RowSeen
  <2>2. RowSeen([req[r] EXCEPT !.pc = "store", !.role = role[req[r].user], !.read = now], role)
    BY <1>1, <1>6 DEF RowSeen, Query, RequestType
  <2> QED BY <1>2, <1>6, <2>1, <2>2 DEF Query
<1>7. CASE Store(r)
  <2>1. RowSeen(Done(r, Granted(req[r].role)), role)
    BY <1>1, <1>3, <1>7, GrantedType DEF RowSeen, Store, Granted
  <2> QED BY <1>2, <1>7, <2>1 DEF Store
<1> QED BY <1>4, <1>5, <1>6, <1>7

\* With cache_seconds: 0 a role is one that the table held while the request
\* was handled, whatever happens to the table and the resolvers meanwhile.
THEOREM UncachedIsFresh == Spec => []FreshRole
<1>1. Init => Inv /\ RowsSeen
  BY InitInv, InitSeen
<1>2. Inv /\ RowsSeen /\ [Next]_vars => (Inv /\ RowsSeen)'
  <2>. SUFFICES ASSUME Inv, RowsSeen, [Next]_vars PROVE RowsSeen'
    BY NextInv
  <2>1. CASE Tick \/ Reload \/ UNCHANGED vars
    BY <2>1 DEF Tick, Reload, vars, RowsSeen
  <2> QED BY <2>1, AssignSeen, RequestSeen DEF Next
<1>3. RowsSeen => FreshRole
  BY DEF RowsSeen, RowSeen, FreshRole, granted
<1> QED BY <1>1, <1>2, <1>3, PTL DEF Spec
=============================================================================
