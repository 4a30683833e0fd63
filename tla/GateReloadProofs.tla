-------------------------- MODULE GateReloadProofs --------------------------
(***************************************************************************)
(* Safety of hot reload for any number of hosts, requests, edits and       *)
(* migrations.  Inv strengthens the invariants checked by TLC with what    *)
(* reloadMu protects: the versions a Reload call carries between its load  *)
(* and its store are sound and no older than the generation they replace.  *)
(***************************************************************************)
EXTENDS GateReload, SequenceTheorems, TLAPS

InSection == {"locked", "loaded", "building"}
Loaded == {"loaded", "building"}

\* What Open was given loads, and serving starts with a generation.
Started ==
  /\ main \in {"boot", "opening"} => gen = NoGen /\ \A p \in Callers : call[p].pc = "idle"
  /\ main = "opening" => static >= 1 /\ Loads(log[static])
  /\ main \in {"serving", "draining"} => gen.ver >= 1
  /\ gen.ver = 0 => gen.cat = 0 /\ acked = 0 /\ \A p \in Callers : ~ call[p].ok

\* What a generation, or a call about to become one, must satisfy.
Sound(v, k) ==
  LET c == log[v]
      t == ddl[k]
  IN  Servable(c) /\ SameRoute(log[static], c) /\ t # {} /\ c.tables \subseteq t

GenSound == gen.ver >= 1 => gen.cat >= 1 /\ static >= 1 /\ Sound(gen.ver, gen.cat)

Mutex == \A p \in Callers : call[p].pc \in InSection => lock = p

\* The call in the critical section is not older than what is served.
Carried ==
  /\ \A p \in Callers : call[p].pc \in Loaded =>
       /\ call[p].ver >= 1 /\ call[p].ver >= gen.ver /\ call[p].ver >= call[p].since
       /\ static >= 1
       /\ Loads(log[call[p].ver]) /\ SameRoute(log[static], log[call[p].ver])
  /\ \A p \in Callers : call[p].pc = "building" => call[p].cat >= 1 /\ call[p].cat >= gen.cat

\* A request holds a sound generation, and a role its verifier accepts.
Holding ==
  \A r \in Requests :
    /\ req[r].pc # "idle" => req[r].st.ver >= 1 /\ Loads(log[req[r].st.ver])
    /\ req[r].pc = "lookup" => req[r].role \in VerifierRoles(log[req[r].st.ver])

Inv ==
  /\ TypeOK
  /\ Started
  /\ GenSound
  /\ Mutex
  /\ Carried
  /\ Holding
  /\ acked <= gen.ver
  /\ ReloadIsFresh
  /\ NextRequestSees
  /\ RoleHasSchema

-----------------------------------------------------------------------------
\* The invariant holds before Run has read the file.
THEOREM InitInv == Init => Inv
  <1> USE ConfigsAssumption, CallersAssumption, RolesAssumption, TokensAssumption
  <1> SUFFICES ASSUME Init PROVE Inv
    OBVIOUS
  <1>1. TypeOK
    BY DEF Init, TypeOK, Callers, NoCall, NoReq, NoGen, GenType, CallType, ReqType
  <1>2. Started /\ GenSound
    BY DEF Init, Started, GenSound, NoGen, NoCall
  <1>3. Mutex /\ Carried /\ Holding
    BY DEF Init, Mutex, Carried, Holding, NoCall, NoReq, InSection, Loaded
  <1>4. acked <= gen.ver /\ ReloadIsFresh /\ NextRequestSees /\ RoleHasSchema
    BY DEF Init, NoGen, ReloadIsFresh, NextRequestSees, RoleHasSchema, NoCall, NoReq
  <1> QED
    BY <1>1, <1>2, <1>3, <1>4 DEF Inv

\* The file or the catalog gets another entry, or nothing changes at all: what
\* was said of the entries before stays true.
LEMMA GrowStep ==
  ASSUME Inv,
         log' \in Seq(Configs), Len(log) <= Len(log'), \A v \in 1..Len(log) : log'[v] = log[v],
         ddl' \in Seq(SUBSET Tables), Len(ddl) <= Len(ddl'), \A k \in 1..Len(ddl) : ddl'[k] = ddl[k],
         UNCHANGED <<main, static, gen, lock, call, watch, req, acked>>
  PROVE  Inv'
<1> USE DEF Inv
<1>1. /\ Len(log) \in Nat \ {0} /\ Len(ddl) \in Nat \ {0}
      /\ Len(log') \in Nat \ {0} /\ Len(ddl') \in Nat \ {0} /\ log' # <<>> /\ ddl' # <<>>
  BY DEF TypeOK
<1>2. /\ 0..Len(log) \subseteq 0..Len(log') /\ 0..Len(ddl) \subseteq 0..Len(ddl')
      /\ GenType \subseteq GenType' /\ CallType \subseteq CallType' /\ ReqType \subseteq ReqType'
  <2>1. 0..Len(log) \subseteq 0..Len(log') /\ 0..Len(ddl) \subseteq 0..Len(ddl')
    BY <1>1
  <2>2. GenType \subseteq GenType'
    BY <2>1 DEF GenType
  <2> QED
    BY <2>1, <2>2 DEF CallType, ReqType
<1>3. TypeOK'
  BY <1>1, <1>2 DEF TypeOK
<1>4. Started'
  BY <1>1 DEF Started, TypeOK
<1>5. GenSound'
  BY <1>1 DEF GenSound, Sound, TypeOK, GenType
<1>6. Carried'
  <2>1. \A p \in Callers : call[p] \in CallType
    BY DEF TypeOK
  <2> QED
    BY <1>1, <2>1 DEF Carried, CallType, TypeOK, Loaded
<1>7. Holding' /\ RoleHasSchema' /\ NextRequestSees'
  <2>1. \A r \in Requests : req[r] \in ReqType /\ req[r].st.ver \in 0..Len(log)
    BY DEF TypeOK, ReqType, GenType
  <2> QED
    BY <1>1, <2>1 DEF Holding, RoleHasSchema, NextRequestSees
<1>8. Mutex' /\ acked' <= gen'.ver /\ ReloadIsFresh'
  BY DEF Mutex, ReloadIsFresh
<1> QED
  BY <1>3, <1>4, <1>5, <1>6, <1>7, <1>8

\* The gateway stops, in one step or two.
LEMMA MainStep ==
  ASSUME Inv, main' \in {"draining", "exited"}, main' = "draining" => main = "serving",
         UNCHANGED <<log, ddl, static, gen, lock, call, watch, req, acked>>
  PROVE  Inv'
<1> USE DEF Inv
<1>1. TypeOK'
  BY DEF TypeOK, GenType, CallType, ReqType
<1>2. Started'
  BY DEF Started
<1> QED
  BY <1>1, <1>2 DEF GenSound, Sound, Mutex, Carried, Holding, ReloadIsFresh, NextRequestSees, RoleHasSchema

\* A call begins, waits, gets the mutex or is over; nothing is loaded by it.
LEMMA CallStep ==
  ASSUME Inv, NEW p \in Callers, NEW c \in CallType, call' = [call EXCEPT ![p] = c],
         c.pc \notin Loaded, c.ok => c.pc # "done" /\ gen.ver # 0,
         main \notin {"boot", "opening"},
         lock' \in Callers \cup {Nobody}, c.pc \in InSection => lock' = p,
         \A q \in Callers \ {p} : call[q].pc \in InSection => lock' = q,
         watch' \in [pc : {"off", "tick", "reload"}, last : 0..Len(log)],
         UNCHANGED <<log, ddl, main, static, gen, req, acked>>
  PROVE  Inv'
<1> USE DEF Inv
<1>1. call' \in [Callers -> CallType] /\ call'[p] = c /\ \A q \in Callers \ {p} : call'[q] = call[q]
  BY DEF TypeOK
<1>2. TypeOK'
  BY <1>1 DEF TypeOK, GenType, CallType, ReqType
<1>3. Started'
  BY <1>1 DEF Started
<1>4. Mutex' /\ Carried'
  BY <1>1 DEF Mutex, Carried, Loaded, InSection
<1>5. ReloadIsFresh'
  BY <1>1 DEF ReloadIsFresh
<1> QED
  BY <1>2, <1>3, <1>4, <1>5 DEF GenSound, Sound, Holding, NextRequestSees, RoleHasSchema

\* Every step keeps it.
THEOREM NextInv == Inv /\ [Next]_vars => Inv'
  <1> USE ConfigsAssumption, CallersAssumption, RolesAssumption, TokensAssumption
  <1> SUFFICES ASSUME Inv, [Next]_vars PROVE Inv'
    OBVIOUS
  <1> USE DEF Inv
  <1>1. CASE Edit
    <2>1. PICK c \in Configs : log' = Append(log, c)
      BY <1>1 DEF Edit
    <2>2. /\ log' \in Seq(Configs) /\ Len(log) <= Len(log')
          /\ \A v \in 1..Len(log) : log'[v] = log[v]
      BY <2>1, AppendProperties DEF TypeOK
    <2>3. UNCHANGED <<ddl, main, static, gen, lock, call, watch, req, acked>>
      BY <1>1 DEF Edit
    <2>4. ddl \in Seq(SUBSET Tables) /\ Len(ddl) <= Len(ddl)
      BY DEF TypeOK
    <2> QED
      BY <2>2, <2>3, <2>4, GrowStep
  <1>2. CASE Migrate
    <2>1. PICK t \in SUBSET Tables : ddl' = Append(ddl, t)
      BY <1>2 DEF Migrate
    <2>2. /\ ddl' \in Seq(SUBSET Tables) /\ Len(ddl) <= Len(ddl')
          /\ \A k \in 1..Len(ddl) : ddl'[k] = ddl[k]
      BY <2>1, AppendProperties DEF TypeOK
    <2>3. UNCHANGED <<log, main, static, gen, lock, call, watch, req, acked>>
      BY <1>2 DEF Migrate
    <2>4. log \in Seq(Configs) /\ Len(log) <= Len(log)
      BY DEF TypeOK
    <2> QED
      BY <2>2, <2>3, <2>4, GrowStep
  <1>3. CASE RunLoad
    <2>1. TypeOK'
      <3>1. /\ static' \in 0..Len(log)
            /\ main' \in {"opening", "exited"}
        BY <1>3 DEF RunLoad, Stamp, TypeOK
      <3>2. UNCHANGED <<log, ddl, gen, lock, call, watch, req, acked>>
        BY <1>3 DEF RunLoad
      <3> QED
        BY <3>1, <3>2 DEF TypeOK, GenType, CallType, ReqType
    <2>2. Started'
      BY <1>3 DEF RunLoad, Stamp, Catalog, Callers, Started, TypeOK, CallType, GenType
    <2>3. GenSound'
      BY <1>3 DEF RunLoad, Stamp, GenSound, Started, NoGen
    <2>4. Mutex'
      BY <1>3 DEF RunLoad, Stamp, Catalog, Callers, Mutex, InSection, TypeOK, CallType
    <2>5. Carried'
      BY <1>3 DEF RunLoad, Stamp, Carried, Started, Loaded
    <2>6. Holding'
      BY <1>3 DEF RunLoad, Stamp, Catalog, Callers, Holding, TypeOK, GenType, ReqType
    <2>7. acked' <= gen'.ver /\ ReloadIsFresh'
      BY <1>3 DEF RunLoad, Stamp, Catalog, Callers, ReloadIsFresh, TypeOK, GenType, CallType, Carried, Loaded
    <2>8. NextRequestSees' /\ RoleHasSchema'
      BY <1>3 DEF RunLoad, Stamp, Catalog, Callers, NextRequestSees, RoleHasSchema, Holding, TypeOK, ReqType, GenType
    <2> QED
      BY <2>1, <2>2, <2>3, <2>4, <2>5, <2>6, <2>7, <2>8
  <1>4. CASE Open
    <2>1. TypeOK'
      <3>1. /\ gen' \in GenType
            /\ main' \in {"serving", "exited", "crashed"}
        BY <1>4 DEF Open, Catalog, TypeOK, GenType
      <3>2. UNCHANGED <<log, ddl, static, lock, call, watch, req, acked>>
        BY <1>4 DEF Open
      <3> QED
        BY <3>1, <3>2 DEF TypeOK, GenType, CallType, ReqType
    <2>2. Started'
      BY <1>4 DEF Open, Stamp, Catalog, Callers, Started, TypeOK, CallType, GenType
    <2>3. GenSound'
      <3>1. static \in 1..Len(log) /\ Loads(log[static]) /\ Len(ddl) \in 1..Len(ddl)
        BY <1>4 DEF Open, Started, TypeOK
      <3>2. CASE main' = "serving"
        <4>1. "ok" \in BuildOutcomes(log[static], ddl[Catalog])
          BY <1>4, <3>2 DEF Open
        <4>2. Sound(static, Catalog)
          BY <3>1, <4>1 DEF BuildOutcomes, Sound, Servable, SameRoute, ReloadCompatible
        <4> QED
          BY <1>4, <3>1, <3>2, <4>2 DEF Open, GenSound, Sound, Catalog, SameRoute, ReloadCompatible
      <3> QED
        BY <1>4, <3>2 DEF Open, GenSound, Sound
    <2>4. Mutex'
      BY <1>4 DEF Open, Stamp, Catalog, Callers, Mutex, InSection, TypeOK, CallType
    <2>5. Carried'
      BY <1>4 DEF Open, Carried, Started, Loaded
    <2>6. Holding'
      BY <1>4 DEF Open, Stamp, Catalog, Callers, Holding, TypeOK, GenType, ReqType
    <2>7. acked' <= gen'.ver /\ ReloadIsFresh'
      BY <1>4 DEF Open, Started, ReloadIsFresh, NoGen, TypeOK
    <2>8. NextRequestSees' /\ RoleHasSchema'
      BY <1>4 DEF Open, Stamp, Catalog, Callers, NextRequestSees, RoleHasSchema, Holding, TypeOK, ReqType, GenType
    <2> QED
      BY <2>1, <2>2, <2>3, <2>4, <2>5, <2>6, <2>7, <2>8
  <1>5. CASE Cancel
    BY <1>5, MainStep DEF Cancel, Running
  <1>6. CASE Exit
    BY <1>6, MainStep DEF Exit
  <1>7. CASE WatchStart
    <2>1. UNCHANGED <<log, ddl, main, static, gen, lock, call, req, acked>>
      BY <1>7 DEF WatchStart
    <2>2. watch' \in [pc : {"off", "tick", "reload"}, last : 0..Len(log)]
      BY <1>7 DEF WatchStart, Stamp, TypeOK
    <2>3. TypeOK'
      BY <2>1, <2>2 DEF TypeOK, GenType, CallType, ReqType
    <2> QED
      BY <2>1, <2>3 DEF Started, GenSound, Sound, Mutex, Carried, Holding, ReloadIsFresh, NextRequestSees, RoleHasSchema
  <1>8. CASE WatchTick
    <2> DEFINE c == [pc |-> "calling", ver |-> 0, cat |-> 0, since |-> Stamp, ok |-> FALSE]
    <2>1. /\ main = "serving" /\ Watcher \in Callers
          /\ call' = [call EXCEPT ![Watcher] = c]
          /\ UNCHANGED <<log, ddl, main, static, gen, lock, req, acked>>
      BY <1>8 DEF WatchTick, Running, StartCall, Callers
    <2>2. c \in CallType /\ c.pc = "calling" /\ ~c.ok
      BY DEF CallType, Stamp, TypeOK
    <2>3. watch' \in [pc : {"off", "tick", "reload"}, last : 0..Len(log)]
      BY <1>8 DEF WatchTick, TypeOK
    <2>4. lock' \in Callers \cup {Nobody} /\ \A q \in Callers : call[q].pc \in InSection => lock' = q
      BY <2>1 DEF Mutex, TypeOK
    <2> HIDE DEF c
    <2> QED
      BY <2>1, <2>2, <2>3, <2>4, CallStep DEF Loaded, InSection
  <1>9. CASE WatchRestamp
    <2>1. /\ Watcher \in Callers /\ call[Watcher].pc = "done"
          /\ call' = [call EXCEPT ![Watcher] = NoCall]
          /\ UNCHANGED <<log, ddl, main, static, gen, lock, req, acked>>
      BY <1>9 DEF WatchRestamp, Callers
    <2>2. NoCall \in CallType /\ NoCall.pc = "idle" /\ ~NoCall.ok /\ main \notin {"boot", "opening"}
      BY <2>1 DEF CallType, NoCall, TypeOK, Started
    <2>3. watch' \in [pc : {"off", "tick", "reload"}, last : 0..Len(log)]
      BY <1>9 DEF WatchRestamp, Stamp, TypeOK
    <2>4. lock' \in Callers \cup {Nobody} /\ \A q \in Callers : call[q].pc \in InSection => lock' = q
      BY <2>1 DEF Mutex, TypeOK
    <2> QED
      BY <2>1, <2>2, <2>3, <2>4, CallStep DEF Loaded, InSection
  <1>10. ASSUME NEW p \in Hosts, HostReload(p) PROVE Inv'
    <2> DEFINE c == [pc |-> "calling", ver |-> 0, cat |-> 0, since |-> Stamp, ok |-> FALSE]
    <2>1. /\ main \in {"serving", "draining"} /\ p \in Callers
          /\ call' = [call EXCEPT ![p] = c]
          /\ UNCHANGED <<log, ddl, main, static, gen, lock, watch, req, acked>>
      BY <1>10 DEF HostReload, StartCall, Callers
    <2>2. c \in CallType /\ c.pc = "calling" /\ ~c.ok
      BY DEF CallType, Stamp, TypeOK
    <2>3. watch' \in [pc : {"off", "tick", "reload"}, last : 0..Len(log)]
      BY <2>1 DEF TypeOK
    <2>4. lock' \in Callers \cup {Nobody} /\ \A q \in Callers : call[q].pc \in InSection => lock' = q
      BY <2>1 DEF Mutex, TypeOK
    <2> HIDE DEF c
    <2> QED
      BY <2>1, <2>2, <2>3, <2>4, CallStep DEF Loaded, InSection
  <1>11. ASSUME NEW p \in Hosts, HostReturn(p) PROVE Inv'
    <2>1. /\ p \in Callers /\ call[p].pc = "done"
          /\ call' = [call EXCEPT ![p] = NoCall]
          /\ UNCHANGED <<log, ddl, main, static, gen, lock, watch, req, acked>>
      BY <1>11 DEF HostReturn, Callers
    <2>2. NoCall \in CallType /\ NoCall.pc = "idle" /\ ~NoCall.ok /\ main \notin {"boot", "opening"}
      BY <2>1 DEF CallType, NoCall, TypeOK, Started
    <2>3. watch' \in [pc : {"off", "tick", "reload"}, last : 0..Len(log)]
      BY <2>1 DEF TypeOK
    <2>4. lock' \in Callers \cup {Nobody} /\ \A q \in Callers : call[q].pc \in InSection => lock' = q
      BY <2>1 DEF Mutex, TypeOK
    <2> QED
      BY <2>1, <2>2, <2>3, <2>4, CallStep DEF Loaded, InSection
  <1>12. ASSUME NEW p \in Callers, ReloadLock(p) PROVE Inv'
    <2>1. PICK c : c = [call[p] EXCEPT !.pc = "locked"]
      OBVIOUS
    <2>2. /\ call[p].pc = "calling" /\ lock = Nobody /\ lock' = p
          /\ call' = [call EXCEPT ![p].pc = "locked"]
          /\ UNCHANGED <<log, ddl, main, static, gen, watch, req, acked>>
      BY <1>12 DEF ReloadLock, Advance
    <2>3. call[p] \in CallType
      BY DEF TypeOK
    <2>4. c \in CallType /\ c.pc = "locked" /\ c.ok = call[p].ok
      BY <2>1, <2>3 DEF CallType
    <2>5. call' = [call EXCEPT ![p] = c]
      BY <2>1, <2>2
    <2>6. main \notin {"boot", "opening"} /\ (c.ok => gen.ver # 0)
      BY <2>2, <2>4 DEF Started
    <2>7. \A q \in Callers : call[q].pc \notin InSection
      BY <2>2 DEF Mutex
    <2>8. watch' \in [pc : {"off", "tick", "reload"}, last : 0..Len(log)]
      BY <2>2 DEF TypeOK
    <2> QED
      BY <2>2, <2>4, <2>5, <2>6, <2>7, <2>8, CallStep DEF Loaded
  <1>13. ASSUME NEW p \in Callers, ReloadLoad(p) PROVE Inv'
    <2>1. /\ UNCHANGED <<log, ddl, main, static, gen, watch, req, acked>>
          /\ main \notin {"crashed", "exited"} /\ call[p].pc = "locked"
      BY <1>13 DEF ReloadLoad, Fail, Gone
    <2>2. call' \in [Callers -> CallType] /\ \A q \in Callers : q # p => call'[q] = call[q]
      <3>1. Len(log) \in 0..Len(log) /\ call \in [Callers -> CallType]
        BY DEF TypeOK
      <3>2. CASE call' = [call EXCEPT ![p] = [@ EXCEPT !.pc = "loaded", !.ver = Len(log)]]
        BY <3>1, <3>2 DEF CallType
      <3>3. CASE call' = [call EXCEPT ![p] = [@ EXCEPT !.pc = "done", !.ok = FALSE]]
        BY <3>1, <3>3 DEF CallType
      <3> QED
        BY <1>13, <3>2, <3>3 DEF ReloadLoad, Fail, Stamp
    <2>3. \/ /\ Loads(log[Stamp]) /\ ReloadCompatible(log[static], log[Stamp])
             /\ lock' = lock
             /\ call'[p].pc = "loaded" /\ call'[p].ver = Len(log)
             /\ call'[p].since = call[p].since /\ call'[p].ok = call[p].ok
          \/ lock' = Nobody /\ call'[p].pc = "done" /\ call'[p].ok = FALSE
      <3>1. call \in [Callers -> CallType]
        BY DEF TypeOK
      <3>2. CASE Fail(p)
        BY <3>1, <3>2 DEF Fail, CallType
      <3>3. CASE ~ Fail(p)
        <4>1. call' = [call EXCEPT ![p] = [@ EXCEPT !.pc = "loaded", !.ver = Len(log)]]
          BY <1>13, <3>3 DEF ReloadLoad, Stamp
        <4>2. /\ call'[p].pc = "loaded" /\ call'[p].ver = Len(log)
              /\ call'[p].since = call[p].since /\ call'[p].ok = call[p].ok
          BY <3>1, <4>1 DEF CallType
        <4> QED
          BY <1>13, <3>3, <4>2 DEF ReloadLoad
      <3> QED
        BY <3>2, <3>3
    <2>4. TypeOK'
      BY <2>1, <2>2, <2>3 DEF TypeOK, GenType, CallType, ReqType
    <2>5. Started'
      BY <2>1, <2>2, <2>3 DEF Started
    <2>6. GenSound' /\ Holding' /\ acked' <= gen'.ver /\ NextRequestSees' /\ RoleHasSchema'
      BY <2>1 DEF GenSound, Holding, NextRequestSees, RoleHasSchema, Sound
    <2>7. Mutex'
      BY <2>1, <2>2, <2>3 DEF Mutex, InSection
    <2>8. Carried'
      <3>1. Len(log) >= 1 /\ Len(log) >= gen.ver /\ Len(log) >= call[p].since
        BY DEF TypeOK, GenType, CallType
      <3>2. static >= 1
        BY <2>1 DEF Started, GenSound, TypeOK, GenType
      <3> QED
        BY <2>1, <2>2, <2>3, <3>1, <3>2 DEF Carried, Loaded, Mutex, InSection, Stamp, SameRoute, ReloadCompatible
    <2>9. ReloadIsFresh'
      BY <2>1, <2>2, <2>3 DEF ReloadIsFresh
    <2> QED
      BY <2>4, <2>5, <2>6, <2>7, <2>8, <2>9
  <1>14. ASSUME NEW p \in Callers, ReloadIntrospect(p) PROVE Inv'
    <2>1. TypeOK'
      <3>1. Len(ddl) \in 0..Len(ddl) /\ call \in [Callers -> CallType]
        BY DEF TypeOK
      <3>2. call' = [call EXCEPT ![p] = [@ EXCEPT !.pc = "building", !.cat = Len(ddl)]]
        BY <1>14 DEF ReloadIntrospect, Catalog
      <3>3. call' \in [Callers -> CallType]
        BY <3>1, <3>2 DEF CallType
      <3> QED
        BY <1>14, <3>3 DEF ReloadIntrospect, TypeOK, GenType, CallType, ReqType, Callers
    <2>2. Started'
      BY <1>14 DEF ReloadIntrospect, Callers, Stamp, Catalog, Started, TypeOK, CallType, GenType
    <2>3. GenSound'
      BY <1>14 DEF ReloadIntrospect, Callers, Stamp, Catalog, GenSound, Sound, TypeOK, GenType, CallType
    <2>4. Mutex'
      BY <1>14 DEF ReloadIntrospect, Callers, Stamp, Catalog, Mutex, InSection, TypeOK, CallType
    <2>5. Carried'
      BY <1>14 DEF ReloadIntrospect, Callers, Stamp, Catalog, Carried, Mutex, InSection, Loaded, TypeOK, GenType, CallType
    <2>6. Holding'
      BY <1>14 DEF ReloadIntrospect, Callers, Stamp, Catalog, Holding, TypeOK, GenType, ReqType
    <2>7. acked' <= gen'.ver /\ ReloadIsFresh'
      BY <1>14 DEF ReloadIntrospect, Callers, Stamp, Catalog, ReloadIsFresh, TypeOK, GenType, CallType, Carried, Loaded
    <2>8. NextRequestSees' /\ RoleHasSchema'
      BY <1>14 DEF ReloadIntrospect, Callers, Stamp, Catalog, NextRequestSees, RoleHasSchema, Holding, TypeOK, ReqType, GenType
    <2> QED
      BY <2>1, <2>2, <2>3, <2>4, <2>5, <2>6, <2>7, <2>8
  <1>15. ASSUME NEW p \in Callers, ReloadStore(p) PROVE Inv'
    <2>1. /\ UNCHANGED <<log, ddl, static, watch, req>>
          /\ main \notin {"crashed", "exited"} /\ call[p].pc = "building"
      BY <1>15 DEF ReloadStore, Gone
    <2>2. /\ call[p] \in CallType /\ lock = p /\ static >= 1
          /\ call[p].ver >= 1 /\ call[p].cat >= 1 /\ call[p].ver >= call[p].since
          /\ call[p].ver >= gen.ver /\ call[p].cat >= gen.cat
          /\ Loads(log[call[p].ver]) /\ SameRoute(log[static], log[call[p].ver])
          /\ \A q \in Callers : q # p => call[q].pc \notin InSection
      BY <2>1 DEF Carried, Loaded, Mutex, InSection, TypeOK
    <2>3. CASE UNCHANGED <<gen, lock, call, acked>> /\ main' = "crashed"
      BY <2>1, <2>3 DEF TypeOK, GenType, CallType, ReqType, Started, GenSound, Sound, Mutex, InSection,
                        Carried, Loaded, Holding, ReloadIsFresh, NextRequestSees, RoleHasSchema
    <2>4. CASE Fail(p)
      <3>1. call' \in [Callers -> CallType] /\ \A q \in Callers : q # p => call'[q] = call[q]
        BY <2>4 DEF Fail, CallType, TypeOK
      <3>2. call'[p].pc = "done" /\ call'[p].ok = FALSE
        BY <2>4, <2>2 DEF Fail, CallType, TypeOK
      <3>3. TypeOK'
        BY <2>1, <2>4, <3>1 DEF Fail, TypeOK, GenType, CallType, ReqType
      <3>4. Started' /\ GenSound' /\ Holding' /\ acked' <= gen'.ver /\ NextRequestSees' /\ RoleHasSchema'
        BY <2>1, <2>4, <3>1, <3>2 DEF Fail, Started, GenSound, Holding, NextRequestSees, RoleHasSchema, Sound
      <3>5. Mutex' /\ Carried' /\ ReloadIsFresh'
        BY <2>1, <2>2, <2>4, <3>1, <3>2 DEF Fail, Mutex, InSection, Carried, Loaded, ReloadIsFresh
      <3> QED
        BY <3>3, <3>4, <3>5
    <2>5. CASE /\ "ok" \in BuildOutcomes(log[call[p].ver], ddl[call[p].cat])
               /\ gen' = [ver |-> call[p].ver, cat |-> call[p].cat]
               /\ acked' = call[p].ver
               /\ call' = [call EXCEPT ![p] = [@ EXCEPT !.pc = "done", !.ok = TRUE]]
               /\ lock' = Nobody /\ main' = main
      <3>1. call' \in [Callers -> CallType] /\ \A q \in Callers : q # p => call'[q] = call[q]
        <4>1. call \in [Callers -> CallType]
          BY DEF TypeOK
        <4> QED
          BY <2>5, <4>1 DEF CallType
      <3>2. call'[p].pc = "done" /\ call'[p].since = call[p].since
        BY <2>5, <2>2 DEF CallType, TypeOK
      <3>3. gen'.ver = call[p].ver /\ gen'.cat = call[p].cat /\ gen' \in GenType
        BY <2>2, <2>5 DEF CallType, GenType
      <3>4. Sound(call[p].ver, call[p].cat)
        <4>1. /\ log[call[p].ver].hooks \subseteq Compiled /\ log[call[p].ver].blank = {}
              /\ ddl[call[p].cat] # {} /\ log[call[p].ver].tables \subseteq ddl[call[p].cat]
          BY <2>5 DEF BuildOutcomes
        <4> QED
          BY <2>2, <4>1 DEF Sound, Servable
      <3>5. TypeOK'
        BY <2>1, <2>2, <2>5, <3>1, <3>3 DEF TypeOK, GenType, CallType, ReqType
      <3>6. Started' /\ GenSound'
        BY <2>1, <2>2, <2>5, <3>3, <3>4 DEF Started, GenSound, Sound, SameRoute, ReloadCompatible
      <3>7. Mutex' /\ Carried'
        BY <2>1, <2>2, <2>5, <3>1, <3>2 DEF Mutex, InSection, Carried, Loaded
      <3>8. acked' <= gen'.ver /\ ReloadIsFresh'
        <4>1. \A q \in Callers : call'[q].pc = "done" /\ call'[q].ok => gen'.ver >= call'[q].since
          <5> SUFFICES ASSUME NEW q \in Callers, call'[q].pc = "done", call'[q].ok
                       PROVE  gen'.ver >= call'[q].since
            OBVIOUS
          <5>1. CASE q = p
            BY <2>2, <3>2, <3>3, <5>1
          <5>2. CASE q # p
            BY <2>2, <3>1, <3>3, <5>2 DEF ReloadIsFresh, TypeOK, CallType, GenType
          <5> QED
            BY <5>1, <5>2
        <4> QED
          BY <2>2, <2>5, <3>3, <4>1 DEF ReloadIsFresh, CallType, GenType
      <3>9. Holding' /\ NextRequestSees' /\ RoleHasSchema'
        BY <2>1 DEF Holding, NextRequestSees, RoleHasSchema
      <3> QED
        BY <3>5, <3>6, <3>7, <3>8, <3>9
    <2> QED
      BY <1>15, <2>3, <2>4, <2>5 DEF ReloadStore, CancelError
  <1>16. ASSUME NEW r \in Requests, ReqArrive(r) PROVE Inv'
    <2>1. UNCHANGED <<log, ddl, main, static, gen, lock, call, watch, acked>> /\ main = "serving"
      BY <1>16 DEF ReqArrive, Running
    <2>2. PICK tok \in Token \cup {NoToken} :
            req' = [req EXCEPT ![r] = [pc |-> "identify", st |-> gen, tok |-> tok,
                                       role |-> NoRole, floor |-> acked]]
      BY <1>16 DEF ReqArrive, current
    <2>3. [pc |-> "identify", st |-> gen, tok |-> tok, role |-> NoRole, floor |-> acked] \in ReqType
      BY <2>2 DEF ReqType, TypeOK
    <2>4. /\ req' \in [Requests -> ReqType]
          /\ req'[r].pc = "identify" /\ req'[r].st = gen /\ req'[r].floor = acked
          /\ \A q \in Requests : q # r => req'[q] = req[q]
      BY <2>2, <2>3 DEF TypeOK
    <2>5. gen.ver >= 1 /\ Loads(log[gen.ver])
      BY <2>1 DEF Started, GenSound, Sound, Servable, TypeOK, GenType
    <2>6. TypeOK'
      BY <2>1, <2>4 DEF TypeOK, GenType, CallType, ReqType
    <2>7. Started' /\ GenSound' /\ Mutex' /\ Carried' /\ acked' <= gen'.ver /\ ReloadIsFresh'
      BY <2>1 DEF Started, GenSound, Sound, Mutex, Carried, ReloadIsFresh
    <2>8. Holding' /\ NextRequestSees' /\ RoleHasSchema'
      BY <2>1, <2>4, <2>5 DEF Holding, NextRequestSees, RoleHasSchema
    <2> QED
      BY <2>6, <2>7, <2>8
  <1>17. ASSUME NEW r \in Requests, ReqIdentify(r) PROVE Inv'
    <2>1. UNCHANGED <<log, ddl, main, static, gen, lock, call, watch, acked>>
      BY <1>17 DEF ReqIdentify
    <2>2. req \in [Requests -> ReqType] /\ req[r] \in ReqType
      BY DEF TypeOK
    <2>3. PICK role \in Identities(log[req[r].st.ver], req[r].tok) :
            req' = [req EXCEPT ![r] = [@ EXCEPT !.pc = IF role = NoRole THEN "refused" ELSE "lookup",
                                                !.role = role]]
      BY <1>17 DEF ReqIdentify
    <2>31. req[r].st.ver \in 1..Len(log) /\ Loads(log[req[r].st.ver]) /\ log[req[r].st.ver] \in Config
      BY <1>17, <2>2 DEF ReqIdentify, Holding, ReqType, GenType, TypeOK
    <2>32. role \in Roles \cup {NoRole} /\ (role # NoRole => role \in VerifierRoles(log[req[r].st.ver]))
      <3>1. CASE req[r].tok = NoToken
        BY <2>3, <2>31, <3>1 DEF Identities, Loads, VerifierRoles, Config
      <3>2. CASE req[r].tok # NoToken
        <4>1. VerifierRoles(log[req[r].st.ver]) \subseteq Roles
          BY <2>31 DEF VerifierRoles, Config
        <4> QED
          BY <2>3, <3>2, <4>1 DEF Identities
      <3> QED
        BY <3>1, <3>2
    <2>4. /\ req' \in [Requests -> ReqType]
          /\ req'[r].pc \in {"refused", "lookup"} /\ req'[r].st = req[r].st /\ req'[r].floor = req[r].floor
          /\ req'[r].pc = "lookup" => req'[r].role \in VerifierRoles(log[req[r].st.ver])
          /\ \A q \in Requests : q # r => req'[q] = req[q]
      BY <2>2, <2>3, <2>32 DEF ReqType
    <2>5. TypeOK'
      BY <2>1, <2>4 DEF TypeOK, GenType, CallType, ReqType
    <2>6. Started' /\ GenSound' /\ Mutex' /\ Carried' /\ acked' <= gen'.ver /\ ReloadIsFresh'
      BY <2>1 DEF Started, GenSound, Sound, Mutex, Carried, ReloadIsFresh
    <2>7. Holding' /\ NextRequestSees' /\ RoleHasSchema'
      BY <1>17, <2>1, <2>2, <2>31, <2>4 DEF ReqIdentify, Holding, NextRequestSees, RoleHasSchema
    <2> QED
      BY <2>5, <2>6, <2>7
  <1>18. ASSUME NEW r \in Requests, ReqSchema(r) PROVE Inv'
    <2>1. UNCHANGED <<log, ddl, main, static, gen, lock, call, watch, acked>>
      BY <1>18 DEF ReqSchema
    <2>2. req \in [Requests -> ReqType] /\ req[r] \in ReqType
      BY DEF TypeOK
    <2>3. req[r].role \in SchemaRoles(log[req[r].st.ver])
      BY <1>18 DEF ReqSchema, Holding, SchemaRoles, VerifierRoles
    <2>31. req' = [req EXCEPT ![r].pc = "running"] /\ req[r].pc = "lookup"
      BY <1>18, <2>3 DEF ReqSchema
    <2>4. /\ req' \in [Requests -> ReqType]
          /\ req'[r].pc = "running" /\ req'[r].st = req[r].st /\ req'[r].floor = req[r].floor
          /\ \A q \in Requests : q # r => req'[q] = req[q]
      BY <2>2, <2>31 DEF ReqType
    <2>5. TypeOK'
      BY <2>1, <2>4 DEF TypeOK, GenType, CallType, ReqType
    <2>6. Started' /\ GenSound' /\ Mutex' /\ Carried' /\ acked' <= gen'.ver /\ ReloadIsFresh'
      BY <2>1 DEF Started, GenSound, Sound, Mutex, Carried, ReloadIsFresh
    <2>7. Holding' /\ NextRequestSees' /\ RoleHasSchema'
      BY <2>1, <2>2, <2>31, <2>4 DEF Holding, NextRequestSees, RoleHasSchema
    <2> QED
      BY <2>5, <2>6, <2>7
  <1>19. ASSUME NEW r \in Requests, ReqEnd(r) PROVE Inv'
    <2>1. UNCHANGED <<log, ddl, main, static, gen, lock, call, watch, acked>>
      BY <1>19 DEF ReqEnd
    <2>2. req \in [Requests -> ReqType] /\ req[r] \in ReqType
      BY DEF TypeOK
    <2>3. req' = [req EXCEPT ![r] = NoReq]
      BY <1>19 DEF ReqEnd
    <2>4. req' \in [Requests -> ReqType]
      <3>1. NoReq \in ReqType
        BY DEF NoReq, ReqType, NoGen, GenType, TypeOK
      <3> QED
        BY <2>2, <2>3, <3>1
    <2>5. TypeOK'
      BY <2>1, <2>4 DEF TypeOK, GenType, CallType, ReqType
    <2>6. Started' /\ GenSound' /\ Mutex' /\ Carried' /\ acked' <= gen'.ver /\ ReloadIsFresh'
      BY <2>1 DEF Started, GenSound, Sound, Mutex, Carried, ReloadIsFresh
    <2>7. Holding' /\ NextRequestSees' /\ RoleHasSchema'
      BY <2>1, <2>2, <2>3, <2>4 DEF Holding, NextRequestSees, RoleHasSchema, NoReq
    <2> QED
      BY <2>5, <2>6, <2>7
  <1>20. CASE UNCHANGED vars
    <2>1. UNCHANGED <<log, ddl, main, static, gen, lock, call, watch, req, acked>>
      BY <1>20 DEF vars
    <2>2. log \in Seq(Configs) /\ Len(log) <= Len(log) /\ ddl \in Seq(SUBSET Tables) /\ Len(ddl) <= Len(ddl)
      BY DEF TypeOK
    <2> QED
      BY <2>1, <2>2, GrowStep
  <1> QED
    BY <1>1, <1>2, <1>3, <1>4, <1>5, <1>6, <1>7, <1>8, <1>9, <1>10, <1>11, <1>12, <1>13, <1>14, <1>15, <1>16, <1>17, <1>18, <1>19, <1>20 DEF Next, Environment, Watch, Reload, Request

-----------------------------------------------------------------------------
LEMMA AlwaysInv == Spec => []Inv
  BY InitInv, NextInv, PTL DEF Spec

\* Every variable keeps its type, no version outruns its history.
THEOREM TypeCorrect == Spec => []TypeOK
  BY AlwaysInv, PTL DEF Inv

\* Only sound configurations are served, for all files, schemas and callers.
THEOREM ServedAlwaysSound == Spec => []ServedIsSound
  <1>1. Inv => ServedIsSound
    BY DEF Inv, GenSound, Started, Sound, ServedIsSound, NoGen, TypeOK, GenType
  <1> QED
    BY <1>1, AlwaysInv, PTL

\* No accepted identity ever lacks a schema.
THEOREM RoleAlwaysHasSchema == Spec => []RoleHasSchema
  BY AlwaysInv, PTL DEF Inv

\* A Reload that returned nil left at least the file of its beginning served.
THEOREM ReloadAlwaysFresh == Spec => []ReloadIsFresh
  BY AlwaysInv, PTL DEF Inv

\* Requests after a successful Reload see what it loaded.
THEOREM NextRequestAlwaysSees == Spec => []NextRequestSees
  BY AlwaysInv, PTL DEF Inv

\* How one step moves the generation: not at all, to the one Open built, or
\* to the sound versions carried by the caller that holds reloadMu.
LEMMA StepMovesForward ==
  ASSUME Inv, [Next]_vars
  PROVE  \/ UNCHANGED gen
         \/ /\ gen'.ver \in 1..Len(log) /\ gen'.ver >= gen.ver /\ gen'.cat >= gen.cat
            /\ Servable(log[gen'.ver]) /\ UNCHANGED log
            /\ gen.ver # 0 => SameRoute(log[gen.ver], log[gen'.ver])
  <1>1. Inv'
    BY NextInv
  <1>2. CASE Open
    <2>1. gen = NoGen /\ UNCHANGED log
      BY <1>2 DEF Open, Inv, Started
    <2>2. CASE gen' = [ver |-> static, cat |-> Catalog]
      <3>1. static >= 1 /\ gen'.ver = static /\ gen'.cat = Len(ddl) /\ UNCHANGED <<log, static>>
        BY <1>2, <2>2 DEF Open, Inv, Started, Catalog
      <3>2. Servable(log[gen'.ver])
        BY <1>1, <3>1 DEF Inv, GenSound, Sound
      <3> QED
        BY <2>1, <3>1, <3>2 DEF NoGen, Inv, TypeOK
    <2> QED
      BY <1>2, <2>2 DEF Open
  <1>3. ASSUME NEW p \in Callers, ReloadStore(p), gen' = [ver |-> call[p].ver, cat |-> call[p].cat]
        PROVE  /\ gen'.ver \in 1..Len(log) /\ gen'.ver >= gen.ver /\ gen'.cat >= gen.cat
               /\ Servable(log[gen'.ver]) /\ UNCHANGED log
               /\ gen.ver # 0 => SameRoute(log[gen.ver], log[gen'.ver])
    <2>1. UNCHANGED <<log, ddl, static>> /\ call[p].pc = "building"
      BY <1>3 DEF ReloadStore
    <2>2. /\ call[p].ver \in 1..Len(log) /\ call[p].ver >= gen.ver /\ call[p].cat >= gen.cat
          /\ SameRoute(log[static], log[call[p].ver])
      BY <2>1 DEF Inv, Carried, Loaded, TypeOK, CallType
    <2>3. Servable(log[gen'.ver])
      BY <1>1, <1>3, <2>1, <2>2 DEF Inv, GenSound, Sound
    <2>4. gen.ver # 0 => SameRoute(log[static], log[gen.ver])
      BY DEF Inv, GenSound, Sound, TypeOK, GenType
    <2> QED
      BY <1>3, <2>1, <2>2, <2>3, <2>4 DEF SameRoute, ReloadCompatible
  <1>4. ASSUME NEW p \in Callers, ReloadStore(p) PROVE UNCHANGED gen \/ gen' = [ver |-> call[p].ver, cat |-> call[p].cat]
    BY <1>4 DEF ReloadStore, Fail
  <1> QED
    BY <1>2, <1>3, <1>4 DEF Next, vars, Environment, Edit, Migrate, Cancel, RunLoad, Exit, Watch,
         WatchStart, WatchTick, WatchRestamp, HostReload, HostReturn, Reload, ReloadLock, ReloadLoad,
         ReloadIntrospect, Fail, Request, ReqArrive, ReqIdentify, ReqSchema, ReqEnd

\* Neither the file nor the catalog being served is ever replaced by an older.
THEOREM AlwaysForward == Spec => NeverBackwards
  <1>1. Inv /\ [Next]_vars => [gen'.ver >= gen.ver /\ gen'.cat >= gen.cat]_gen
    BY StepMovesForward
  <1> QED
    BY <1>1, AlwaysInv, PTL DEF Spec, NeverBackwards

\* Locks, stamps, introspection and callers implement the contract: one entry
\* of the file's history served at a time, sound, and never an older one.
THEOREM GateImplementsContract == Spec => ImplementsContract
  <1>1. Init => Contract!Init
    BY DEF Init, Contract!Init, NoGen
  <1>2. Inv /\ [Next]_vars => [Contract!Next]_Contract!vars
    <2> SUFFICES ASSUME Inv, [Next]_vars PROVE [Contract!Next]_Contract!vars
      OBVIOUS
    <2>1. CASE UNCHANGED gen /\ UNCHANGED log
      BY <2>1 DEF Contract!vars
    <2>2. CASE UNCHANGED gen /\ log' # log
      <3>1. Edit
        BY <2>2 DEF Next, vars, Environment, Migrate, Cancel, RunLoad, Open, Exit, Watch, WatchStart,
             WatchTick, WatchRestamp, HostReload, HostReturn, Reload, ReloadLock, ReloadLoad,
             ReloadIntrospect, ReloadStore, Fail, Request, ReqArrive, ReqIdentify, ReqSchema, ReqEnd
      <3> QED
        BY <2>2, <3>1 DEF Edit, Contract!Next, Contract!Save
    <2>3. CASE gen' # gen
      <3>1. /\ gen'.ver \in 1..Len(log) /\ gen'.ver >= gen.ver /\ Servable(log[gen'.ver]) /\ UNCHANGED log
            /\ gen.ver # 0 => SameRoute(log[gen.ver], log[gen'.ver])
        BY <2>3, StepMovesForward
      <3> QED
        BY <3>1 DEF Contract!Next, Contract!Serve
    <2> QED
      BY <2>1, <2>2, <2>3
  <1> QED
    BY <1>1, <1>2, AlwaysInv, PTL DEF Spec, ImplementsContract, Contract!Spec

=============================================================================
