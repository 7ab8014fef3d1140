----------------------------- MODULE GatewayRoutes -----------------------------
(***************************************************************************)
(* A request in the gateway (gateway/gateway.go, ingress_resolve.go,         *)
(* activator_wire.go): host -> binding -> version -> endpoint, with the      *)
(* read-through cache of bindings, prod pointers and routes (route_cache.go) *)
(* and the store that drops entries after it has written                     *)
(* (invalidating_store.go).  The writers are the operations of orch, cut to  *)
(* what they write of rows the gateway reads; one runs at a time, since      *)
(* ProdSwitch.tla has their interleavings.                                   *)
(*                                                                         *)
(* One project.  Three tables share one cache here: a key names the table.   *)
(* What the snapshot holds is RouteSnapshot.tla's, what a cold request is    *)
(* answered is Activator.tla's: here both may change and answer at any time. *)
(***************************************************************************)
EXTENDS Naturals, Sequences, FiniteSets

CONSTANTS
  GwVersions, GwRequests,
  GwElastic,       \* the versions with an enrolled serving policy
  GwProd,          \* the version that is prod at the start, "none" for a new project
  GwPorts,         \* dedicated ports: bindings are written with their port
  GwCap,           \* entries of one table of the cache
  MaxGwMoves       \* bound: operations on versions and failed reads, together

ASSUME GatewayAssumption ==
  /\ IsFiniteSet(GwVersions) /\ GwVersions \cap {"none", "prod", "miss"} = {}
  /\ IsFiniteSet(GwRequests) /\ GwElastic \subseteq GwVersions
  /\ GwProd \in GwVersions \cup {"none"} /\ GwPorts \in BOOLEAN /\ GwCap \in Nat \ {0} /\ MaxGwMoves \in Nat

VARIABLES
  row,        \* the registry: prod pointer, routes, bindings by host
  state,      \* status of each version
  cache,      \* RouteCache
  op,         \* the operation under way: writes to come, keys to invalidate
  snap,       \* whether the snapshot names an endpoint of a version
  reqs,       \* the requests
  excuse,     \* history: why an entry may differ from its row
  gwUsed      \* operations and failed reads so far

gwVars == <<row, state, cache, op, snap, reqs, excuse, gwUsed>>

-----------------------------------------------------------------------------
PROD == <<"prod", "">>

R(v) == <<"route", v>>

H(h) == <<"host", h>>

Hosts == {"prod"} \cup GwVersions

CacheKeys == {PROD} \cup {R(v) : v \in GwVersions} \cup {H(h) : h \in Hosts}

Values == {"none", "on", "off"} \cup GwVersions

NoEntry == "miss"

Statuses == {"deploying", "deploy_ready", "ready", "draining", "archived", "failed", "destroyed"}

NoOperation == [kind |-> "none", v |-> "none", todo |-> <<>>, drop |-> {}]

NoReq == [at |-> "idle", host |-> "prod", ver |-> "none", key |-> PROD, val |-> "none", status |-> "none",
          via |-> "none", sent |-> 0, off |-> {}]
  \* off, history: versions asleep since the request came, and their routes not excused

GwInit ==
  /\ \E cool \in SUBSET (IF GwProd = "none" THEN {} ELSE GwVersions \ {GwProd}) :
       /\ row = [k \in CacheKeys |->
                   IF k = PROD THEN GwProd
                   ELSE IF GwProd # "none" /\ k \in {R(GwProd), H(GwProd), H("prod")} THEN "on"
                   ELSE IF k \in {H(v) : v \in cool} THEN "on"
                   ELSE IF k \in {R(v) : v \in cool} THEN "off" ELSE "none"]
       /\ state = [v \in GwVersions |-> IF v = GwProd THEN "ready" ELSE IF v \in cool THEN "archived" ELSE "deploying"]
  /\ cache = [k \in CacheKeys |-> NoEntry]
  /\ op = NoOperation /\ snap = [v \in GwVersions |-> "none"]
  /\ reqs = [r \in GwRequests |-> NoReq]
  /\ excuse = [k \in CacheKeys |-> {}] /\ gwUsed = 0

-----------------------------------------------------------------------------
(* Writers.                                                                  *)

\* archived, and nobody wakes it
Asleep(v) == state[v] = "archived" /\ ~(op.kind = "wake" /\ op.v = v)

\* a transaction of the registry, and the keys invalidatingStore drops after it
Write(rs, ks) == [rows |-> rs, drop |-> ks, status |-> <<>>, past |-> FALSE]

\* a write of the store beneath invalidatingStore
WritePast(rs) == [rows |-> rs, drop |-> {}, status |-> <<>>, past |-> TRUE]

Status(v, s) == [rows |-> {}, drop |-> {}, status |-> <<v, s>>, past |-> FALSE]

SetRouteOn(v) == Write({<<R(v), "on">>}, {R(v)})

\* Mutant of SetRouteOff: the entry is not dropped.
SetRouteOffOnly(v) == Write({<<R(v), "off">>}, {})

SetRouteOff(v) == Write({<<R(v), "off">>}, {R(v)})

\* AttachIngressListenPort and AdoptStableIngressPortForBinding go past invalidatingStore
EnsureHost(h) ==
  IF GwPorts THEN WritePast({<<H(h), "on">>})
  ELSE Write({<<H(h), "on">>}, {H(h)} \cup (IF h = "prod" THEN {PROD} ELSE {}))

\* SetProdVersionCAS of the first deploy
FirstProd(v) ==
  IF row[PROD] = "none" THEN <<Write({<<PROD, v>>}, {PROD, R(v)}), EnsureHost("prod")>> ELSE <<>>

OldRoute == IF row[PROD] = "none" THEN {} ELSE {R(row[PROD])}

\* SetRouteForDeployOperation and SetRouteActiveForDeployOperation do, too
DeploySteps(v) ==
  (IF v \in GwElastic THEN <<Status(v, "deploy_ready")>> ELSE <<>>)
  \o <<WritePast({<<R(v), "on">>}), EnsureHost(v), Status(v, "ready")>> \o FirstProd(v)

FailSteps(v) ==
  <<Status(v, "failed"), Write(IF row[H(v)] = "none" THEN {} ELSE {<<H(v), "off">>}, {H(v)}),
    WritePast(IF row[R(v)] = "none" THEN {} ELSE {<<R(v), "off">>})>>

PromoteSteps(v) ==
  (IF row[PROD] = "none" THEN <<>> ELSE <<SetRouteOff(row[PROD])>>)
  \o <<Write({<<PROD, v>>, <<R(v), "on">>}, {PROD, R(v)} \cup OldRoute), EnsureHost("prod")>>

ArchiveSteps(v) == <<Status(v, "draining"), SetRouteOff(v), Status(v, "archived")>>

WakeSteps(v) ==
  IF v \in GwElastic THEN <<Status(v, "ready"), EnsureHost(v)>>
  ELSE <<SetRouteOn(v), EnsureHost(v), Status(v, "ready")>>

DestroySteps(v) == <<Status(v, "draining"), SetRouteOff(v), Status(v, "destroyed")>>

Begin(kind, v, steps) ==
  /\ op = NoOperation /\ gwUsed < MaxGwMoves /\ gwUsed' = gwUsed + 1
  /\ op' = [kind |-> kind, v |-> v, todo |-> steps, drop |-> {}]
  /\ UNCHANGED <<row, state, cache, snap, reqs, excuse>>

BeginOp(v) ==
  \/ state[v] = "deploying" /\ Begin("deploy", v, DeploySteps(v))
  \/ state[v] = "ready" /\ row[PROD] # v /\ Begin("promote", v, PromoteSteps(v))
  \/ state[v] = "ready" /\ row[PROD] # v /\ Begin("archive", v, ArchiveSteps(v))
  \/ state[v] = "archived" /\ Begin("wake", v, WakeSteps(v))
  \/ state[v] \in {"ready", "archived", "failed", "draining"} /\ Begin("destroy", v, DestroySteps(v))

\* a deploy that fails before the version is ready is compensated
DeployFails ==
  /\ op.kind = "deploy" /\ op.drop = {} /\ state[op.v] \in {"deploying", "deploy_ready"}
  /\ op' = [op EXCEPT !.kind = "undo", !.todo = FailSteps(op.v)]
  /\ UNCHANGED <<row, state, cache, snap, reqs, excuse, gwUsed>>

NewRows(rs) == [k \in CacheKeys |-> IF \E p \in rs : p[1] = k THEN (CHOOSE p \in rs : p[1] = k)[2] ELSE row[k]]

GwCommit ==
  LET w == Head(op.todo) IN
  /\ op.todo # <<>> /\ op.drop = {}
  /\ op' = IF Len(op.todo) = 1 /\ w.drop = {} THEN NoOperation ELSE [op EXCEPT !.todo = Tail(@), !.drop = w.drop]
  /\ row' = NewRows(w.rows)
  /\ state' = IF w.status = <<>> THEN state ELSE [state EXCEPT ![w.status[1]] = w.status[2]]
  /\ excuse' = [k \in CacheKeys |->
                  IF row'[k] # row[k] /\ w.past THEN excuse[k] \cup {"not_wrapped"} ELSE excuse[k]]
  /\ reqs' = [r \in GwRequests |-> [reqs[r] EXCEPT !.off = {v \in @ : Asleep(v)'}]]
  /\ UNCHANGED <<cache, snap, gwUsed>>

\* between its read of a row and its write to the cache
Filling(k) == {r \in GwRequests : reqs[r].at = "fill" /\ reqs[r].key = k}

Invalidate(k) ==
  /\ k \in op.drop
  /\ op' = IF op.drop = {k} /\ op.todo = <<>> THEN NoOperation ELSE [op EXCEPT !.drop = @ \ {k}]
  /\ cache' = [cache EXCEPT ![k] = NoEntry]
  /\ excuse' = [excuse EXCEPT ![k] = IF Filling(k) = {} THEN {} ELSE {"overlap"}]
  /\ UNCHANGED <<row, state, snap, reqs, gwUsed>>

Expire(k) ==
  /\ cache[k] # NoEntry /\ cache' = [cache EXCEPT ![k] = NoEntry]
  /\ UNCHANGED <<row, state, op, snap, reqs, excuse, gwUsed>>

\* a poll of the snapshot; the process it names may be gone by then
SnapMoves(v) ==
  /\ v \in GwElastic
  /\ snap' = [snap EXCEPT ![v] = IF @ = "none" THEN "warm" ELSE "none"]
  /\ UNCHANGED <<row, state, cache, op, reqs, excuse, gwUsed>>

-----------------------------------------------------------------------------
(* A request.                                                                *)

Look(q, k) == [q EXCEPT !.at = "look", !.key = k]

Served(q) == [NoReq EXCEPT !.at = "done", !.sent = q.sent]

\* what follows the lookup of each table
Found(q, val) ==
  IF q.key = PROD
  THEN IF val = "none" THEN Served(q) ELSE [q EXCEPT !.at = "status", !.ver = val]
  ELSE IF val # "on" THEN Served(q)
  ELSE IF q.key[1] = "route"
  THEN [q EXCEPT !.at = "send", !.via = "route", !.off = IF excuse[q.key] = {} THEN @ ELSE @ \ {q.ver}]
  ELSE IF q.host = "prod" THEN Look(q, PROD) ELSE [q EXCEPT !.at = "status", !.ver = q.host]

Becomes(r, q) == reqs' = [reqs EXCEPT ![r] = q]

GwArrive(r, h) ==
  /\ reqs[r].at = "idle"
  /\ Becomes(r, Look([NoReq EXCEPT !.host = h, !.off = {v \in GwVersions : Asleep(v)}], H(h)))
  /\ UNCHANGED <<row, state, cache, op, snap, excuse, gwUsed>>

LookHits(r) ==
  /\ reqs[r].at = "look" /\ cache[reqs[r].key] # NoEntry
  /\ Becomes(r, Found(reqs[r], cache[reqs[r].key]))
  /\ UNCHANGED <<row, state, cache, op, snap, excuse, gwUsed>>

LookMisses(r) ==
  /\ reqs[r].at = "look" /\ cache[reqs[r].key] = NoEntry
  /\ Becomes(r, [reqs[r] EXCEPT !.at = "read"])
  /\ UNCHANGED <<row, state, cache, op, snap, excuse, gwUsed>>

ReadRow(r) ==
  /\ reqs[r].at = "read"
  /\ Becomes(r, [reqs[r] EXCEPT !.at = "fill", !.val = row[reqs[r].key]])
  /\ UNCHANGED <<row, state, cache, op, snap, excuse, gwUsed>>

\* a host that cannot be read is answered 500; a pointer or a route is taken for absent
ReadFails(r) ==
  LET k == reqs[r].key IN
  /\ reqs[r].at = "read" /\ gwUsed < MaxGwMoves /\ gwUsed' = gwUsed + 1
  /\ IF k[1] = "host" THEN Becomes(r, Served(reqs[r])) /\ UNCHANGED excuse
     ELSE /\ Becomes(r, [reqs[r] EXCEPT !.at = "fill", !.val = "none"])
          /\ excuse' = [excuse EXCEPT ![k] = @ \cup {"error"}]
  /\ UNCHANGED <<row, state, cache, op, snap>>

Others(k) == {m \in CacheKeys \ {k} : m[1] = k[1] /\ cache[m] # NoEntry}

\* SetRoute, SetProd, SetIngressHost; a full table evicts another entry
Fill(r) ==
  LET k == reqs[r].key val == reqs[r].val IN
  /\ reqs[r].at = "fill" /\ Becomes(r, Found([reqs[r] EXCEPT !.val = "none"], val))
  /\ \E m \in IF cache[k] = NoEntry /\ Cardinality(Others(k)) = GwCap THEN Others(k) ELSE {k} :
       cache' = [[cache EXCEPT ![m] = NoEntry] EXCEPT ![k] = val]
  /\ excuse' = IF val = row[k] /\ Filling(k) = {r} THEN [excuse EXCEPT ![k] = {}] ELSE excuse
  /\ UNCHANGED <<row, state, op, snap, gwUsed>>

\* GetVersion; a prod that failed or is destroyed is not served
ReadStatus(r) ==
  LET q == reqs[r] s == state[q.ver] IN
  /\ q.at = "status"
  /\ Becomes(r, IF q.host = "prod" /\ s \in {"destroyed", "failed"} THEN Served(q)
                ELSE [q EXCEPT !.at = IF s = "deploy_ready" THEN "cold" ELSE "snap", !.status = s])
  /\ UNCHANGED <<row, state, cache, op, snap, excuse, gwUsed>>

\* tryElasticReadyProxy
ReadSnapshot(r) ==
  LET q == reqs[r] IN
  /\ q.at = "snap"
  /\ Becomes(r, IF snap[q.ver] # "none" THEN [q EXCEPT !.at = "send", !.via = "snapshot"]
                ELSE IF q.ver \in GwElastic THEN [q EXCEPT !.at = "again"] ELSE Look(q, R(q.ver)))
  /\ UNCHANGED <<row, state, cache, op, snap, excuse, gwUsed>>

\* the version is read a second time before it is woken
ReadAgain(r) ==
  LET q == reqs[r] IN
  /\ q.at = "again"
  /\ Becomes(r, IF state[q.ver] \in {"deploy_ready", "ready"} THEN [q EXCEPT !.at = "cold"] ELSE Look(q, R(q.ver)))
  /\ UNCHANGED <<row, state, cache, op, snap, excuse, gwUsed>>

\* runElasticColdWake: false when the snapshot is warm by now
ColdWake(r) ==
  LET q == reqs[r] IN
  /\ q.at = "cold"
  /\ Becomes(r, IF snap[q.ver] = "none" THEN [q EXCEPT !.at = "admit"]
                ELSE IF q.status = "deploy_ready" THEN Served(q) ELSE Look(q, R(q.ver)))
  /\ UNCHANGED <<row, state, cache, op, snap, excuse, gwUsed>>

\* Admit's answer: the endpoint a poll found, or a retry
Admitted(r) ==
  LET q == reqs[r] IN
  /\ q.at = "admit"
  /\ \/ Becomes(r, Served(q))
     \/ snap[q.ver] # "none" /\ Becomes(r, [q EXCEPT !.at = "send", !.via = "snapshot"])
  /\ UNCHANGED <<row, state, cache, op, snap, excuse, gwUsed>>

\* proxyIngress; a refused connection is answered, or wakes the version, and is never sent again
Send(r) ==
  /\ reqs[r].at = "send"
  /\ Becomes(r, [Served(reqs[r]) EXCEPT !.sent = @ + 1])
  /\ UNCHANGED <<row, state, cache, op, snap, excuse, gwUsed>>

Leave(r) ==
  /\ reqs[r].at = "done" /\ Becomes(r, NoReq)
  /\ UNCHANGED <<row, state, cache, op, snap, excuse, gwUsed>>

GwNext ==
  \/ \E v \in GwVersions : BeginOp(v) \/ SnapMoves(v)
  \/ DeployFails \/ GwCommit
  \/ \E k \in CacheKeys : Invalidate(k) \/ Expire(k)
  \/ \E r \in GwRequests :
       \/ \E h \in Hosts : GwArrive(r, h)
       \/ LookHits(r) \/ LookMisses(r) \/ ReadRow(r) \/ ReadFails(r) \/ Fill(r)
       \/ ReadStatus(r) \/ ReadSnapshot(r) \/ ReadAgain(r) \/ ColdWake(r) \/ Admitted(r) \/ Send(r) \/ Leave(r)

GwSpec == GwInit /\ [][GwNext]_gwVars

-----------------------------------------------------------------------------
(* Properties.                                                               *)

GwTypeOK ==
  /\ row \in [CacheKeys -> Values] /\ state \in [GwVersions -> Statuses]
  /\ cache \in [CacheKeys -> Values \cup {NoEntry}]
  /\ snap \in [GwVersions -> {"none", "warm"}]
  /\ excuse \in [CacheKeys -> SUBSET {"not_wrapped", "overlap", "error"}]
  /\ \A t \in {"prod", "route", "host"} : Cardinality({k \in CacheKeys : k[1] = t /\ cache[k] # NoEntry}) <= GwCap
  /\ \A r \in GwRequests : reqs[r].sent <= 1

(* An entry differs from its row only while the writer's invalidation is on   *)
(* its way, or for one of three reasons, each of which lasts until the entry  *)
(* expires: the row was written past invalidatingStore, a lookup that had     *)
(* read the row before the write filled the entry after the invalidation, or  *)
(* a failed read was cached as absent.                                        *)
StaleHasExcuse ==
  \A k \in CacheKeys : cache[k] \notin {NoEntry, row[k]} => k \in op.drop \/ excuse[k] # {}

(* Archive invalidates the route before it records "archived": a request that *)
(* comes after and meets the version archived throughout is not proxied to    *)
(* its stopped process, but for the excuses above.                            *)
ArchivedNotProxied ==
  \A r \in GwRequests :
    reqs[r].at = "send" /\ reqs[r].via = "route" => reqs[r].ver \notin reqs[r].off

(* What the cache says is true, or false for a reason that is known.          *)
RoutesExcused == GwTypeOK /\ StaleHasExcuse /\ ArchivedNotProxied

(* activator_wire.go: "tryElasticReadyProxy routes enrolled ready traffic     *)
(* exclusively through the immutable snapshot".                               *)
ReadyOnlyBySnapshot ==
  \A r \in GwRequests :
    reqs[r].at = "send" /\ reqs[r].ver \in GwElastic /\ reqs[r].status = "ready" /\ state[reqs[r].ver] = "ready"
      => reqs[r].via = "snapshot"

=============================================================================
