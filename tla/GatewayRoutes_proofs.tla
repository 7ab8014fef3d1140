------------------------- MODULE GatewayRoutes_proofs ------------------------
(***************************************************************************)
(* Proofs about a request in the gateway: for any number of versions and   *)
(* requests, any size of the cache and any number of operations, an entry  *)
(* of the cache is wrong only for a reason that is known, and an archived  *)
(* version is not proxied to.                                              *)
(***************************************************************************)
EXTENDS GatewayRoutes, TLAPS, FiniteSetTheorems, SequenceTheorems

\* What a row, and so an entry of the cache, may hold.
Fits(k) == IF k = PROD THEN GwVersions \cup {"none"} ELSE {"none", "on", "off"}

Steps ==
  {"idle", "look", "read", "fill", "status", "snap", "again", "cold", "admit", "send", "done"}

Request ==
  [at : Steps, host : Hosts, ver : GwVersions \cup {"none"}, key : CacheKeys,
   val : Values, status : Statuses \cup {"none"}, via : {"none", "route", "snapshot"},
   sent : {0, 1}, off : SUBSET GwVersions]

\* A write past invalidatingStore excuses its rows, any other drops their entries.
GoodWrites ==
  {w \in [rows : SUBSET (CacheKeys \X Values), drop : SUBSET CacheKeys,
          status : {<<>>} \cup (GwVersions \X Statuses), past : BOOLEAN] :
     \A p \in w.rows : p[2] \in Fits(p[1]) /\ (w.past \/ p[1] \in w.drop)}

\* A write of an operation on v that archives nothing, and neither turns on or drops
\* the route of a version of S nor makes it prod.
CalmWrites(v, S) ==
  {w \in GoodWrites :
     /\ w.status = <<>> \/ (w.status[1] = v /\ w.status[2] # "archived")
     /\ \A u \in S : R(u) \notin w.drop /\ <<R(u), "on">> \notin w.rows /\ <<PROD, u>> \notin w.rows}

WakeWrites(v) == {w \in CalmWrites(v, GwVersions \ {v}) : \A p \in w.rows : p[1] # PROD}

Archived == {u \in GwVersions : state[u] = "archived"}

-----------------------------------------------------------------------------
(* The inductive invariant.                                                  *)

Held(t) == {k \in CacheKeys : k[1] = t /\ cache[k] # NoEntry}

Tables == {"prod", "route", "host"}

GwTyped ==
  /\ row \in [CacheKeys -> Values] /\ cache \in [CacheKeys -> Values \cup {NoEntry}]
  /\ \A k \in CacheKeys : row[k] \in Fits(k) /\ cache[k] \in Fits(k) \cup {NoEntry}
  /\ state \in [GwVersions -> Statuses] /\ snap \in [GwVersions -> {"none", "warm"}]
  /\ excuse \in [CacheKeys -> SUBSET {"not_wrapped", "overlap", "error"}]
  /\ reqs \in [GwRequests -> Request]
  /\ op \in [kind : {"none", "deploy", "undo", "promote", "archive", "wake", "destroy"},
             v : GwVersions \cup {"none"}, todo : Seq(GoodWrites), drop : SUBSET CacheKeys]

TablesFit == \A t \in Tables : IsFiniteSet(Held(t)) /\ Cardinality(Held(t)) <= GwCap

\* What the operation under way has still to write, by its kind.
OpFits ==
  /\ op.kind = "none" => op = NoOperation
  /\ op.kind # "none" => op.v \in GwVersions
  /\ op.kind \in {"deploy", "undo", "promote"} => op.v \notin Archived
  /\ op.kind \in {"deploy", "undo", "promote"} => op.todo \in Seq(CalmWrites(op.v, Archived))
  /\ op.kind = "destroy" =>
       \/ op.todo = DestroySteps(op.v) /\ op.drop = {}
       \/ op.v \notin Archived /\ op.todo \in Seq(CalmWrites(op.v, Archived))
  /\ op.kind = "archive" =>
       /\ op.v \notin Archived /\ row[PROD] # op.v
       /\ \/ op.todo = ArchiveSteps(op.v) /\ op.drop = {}
          \/ op.todo = <<SetRouteOff(op.v), Status(op.v, "archived")>> /\ op.drop = {}
          \/ op.todo = <<Status(op.v, "archived")>> /\ row[R(op.v)] # "on"
  /\ op.kind = "wake" =>
       /\ op.todo \in Seq(WakeWrites(op.v))
       /\ op.v \in Archived => \E i \in 1 .. Len(op.todo) : op.todo[i].status = <<op.v, "ready">>

\* The route of a version that is asleep is not on, and no operation drops its entry.
SleepersOff ==
  \A u \in GwVersions : Asleep(u) => row[R(u)] # "on" /\ R(u) \notin op.drop

ProdAwake == row[PROD] \notin Archived

KeyFits(q) == q.key[1] = "route" => q.ver \in GwVersions /\ q.key = R(q.ver)

\* What a request has read of its row is the row, or there is a reason.
FillFits(q) ==
  q.at = "fill" =>
    q.val \in Fits(q.key) /\ (q.val = row[q.key] \/ q.key \in op.drop \/ excuse[q.key] # {})

\* A version that was asleep all the time since the request came.
OffFits(q) ==
  \A u \in q.off : u \in Archived /\ row[R(u)] # "on" /\ R(u) \notin op.drop

\* A version that slept throughout is not proxied to.
RequestFits(q) ==
  /\ q.at \in {"look", "read", "fill"} => KeyFits(q)
  /\ q.at \in {"status", "snap", "again", "cold", "admit", "send"} => q.ver \in GwVersions
  /\ q.at # "done" => q.sent = 0
  /\ q.at = "send" /\ q.via = "route" => q.ver \notin q.off
  /\ OffFits(q)

RequestsFit == \A r \in GwRequests : RequestFits(reqs[r]) /\ FillFits(reqs[r])

GwInv ==
  /\ GwTyped /\ TablesFit /\ OpFits /\ SleepersOff /\ ProdAwake /\ RequestsFit /\ StaleHasExcuse

-----------------------------------------------------------------------------
\* The three tables share no key, and no value is the mark of an absent entry.
LEMMA KeyFacts ==
  /\ PROD \in CacheKeys /\ PROD[1] = "prod"
  /\ \A u \in GwVersions : R(u) \in CacheKeys /\ R(u)[1] = "route" /\ R(u) # PROD
  /\ \A u \in GwVersions, w \in GwVersions : R(u) = R(w) => u = w
  /\ \A h \in Hosts : H(h) \in CacheKeys /\ H(h)[1] = "host" /\ H(h) # PROD
  /\ \A k \in CacheKeys : k[1] \in Tables
  /\ \A k \in CacheKeys : k[1] = "prod" => k = PROD
  /\ \A k \in CacheKeys : k[1] = "route" => \E u \in GwVersions : k = R(u)
  /\ \A k \in CacheKeys : k[1] = "host" => \E h \in Hosts : k = H(h)
  /\ \A h \in Hosts, g \in Hosts : H(h) = H(g) => h = g
  /\ "prod" \in Hosts /\ GwVersions \subseteq Hosts /\ \A h \in Hosts : h = "prod" \/ h \in GwVersions
<1>1. /\ PROD \in CacheKeys /\ \A u \in GwVersions : R(u) \in CacheKeys
      /\ \A h \in Hosts : H(h) \in CacheKeys
  BY DEF CacheKeys
<1>2. /\ PROD[1] = "prod" /\ \A u : R(u)[1] = "route" /\ R(u)[2] = u
      /\ \A h : H(h)[1] = "host" /\ H(h)[2] = h
  BY DEF PROD, R, H
<1>3. ASSUME NEW k \in CacheKeys
      PROVE  k = PROD \/ (\E u \in GwVersions : k = R(u)) \/ (\E h \in Hosts : k = H(h))
  BY DEF CacheKeys
<1>4. \A k \in CacheKeys : k[1] \in Tables
  BY <1>2, <1>3 DEF Tables
<1>5. "prod" \in Hosts /\ GwVersions \subseteq Hosts /\ \A h \in Hosts : h = "prod" \/ h \in GwVersions
  BY DEF Hosts
<1>6. \A u, w : R(u) = R(w) => u = w
  BY <1>2
<1>7. \A h, g : H(h) = H(g) => h = g
  BY <1>2
<1>8. /\ \A u : R(u) # PROD /\ H(u) # PROD
      /\ \A k \in CacheKeys : k[1] = "prod" => k = PROD
      /\ \A k \in CacheKeys : k[1] = "route" => \E u \in GwVersions : k = R(u)
      /\ \A k \in CacheKeys : k[1] = "host" => \E h \in Hosts : k = H(h)
  BY <1>2, <1>3
<1> QED
  BY <1>1, <1>2, <1>4, <1>5, <1>6, <1>7, <1>8

LEMMA ValueFacts ==
  /\ "none" \notin GwVersions /\ "miss" \notin GwVersions /\ "prod" \notin GwVersions
  /\ \A k \in CacheKeys : Fits(k) \subseteq Values /\ NoEntry \notin Fits(k) /\ "none" \in Fits(k)
  /\ \A k \in CacheKeys : k # PROD => Fits(k) = {"none", "on", "off"}
  /\ Fits(PROD) = GwVersions \cup {"none"}
<1>1. "none" \notin GwVersions /\ "miss" \notin GwVersions /\ "prod" \notin GwVersions
  BY GatewayAssumption
<1> QED
  BY <1>1 DEF Fits, Values, NoEntry

\* Writes are what they are built of.
LEMMA WriteFacts ==
  /\ \A rs, ks : Write(rs, ks).rows = rs /\ Write(rs, ks).drop = ks /\ Write(rs, ks).status = <<>> /\ ~Write(rs, ks).past
  /\ \A rs : WritePast(rs).rows = rs /\ WritePast(rs).drop = {} /\ WritePast(rs).status = <<>> /\ WritePast(rs).past
  /\ \A v, s : Status(v, s).rows = {} /\ Status(v, s).drop = {} /\ Status(v, s).status = <<v, s>>
BY DEF Write, WritePast, Status

LEMMA WriteIsGood ==
  ASSUME NEW rs \in SUBSET (CacheKeys \X Values), NEW ks \in SUBSET CacheKeys,
         \A p \in rs : p[2] \in Fits(p[1]) /\ p[1] \in ks
  PROVE  Write(rs, ks) \in GoodWrites
BY DEF Write, GoodWrites

LEMMA WritePastIsGood ==
  ASSUME NEW rs \in SUBSET (CacheKeys \X Values), \A p \in rs : p[2] \in Fits(p[1])
  PROVE  WritePast(rs) \in GoodWrites
BY DEF WritePast, GoodWrites

LEMMA StatusIsGood ==
  ASSUME NEW v \in GwVersions, NEW s \in Statuses
  PROVE  Status(v, s) \in GoodWrites
BY DEF Status, GoodWrites

LEMMA PairNotEmpty ==
  ASSUME NEW a, NEW b
  PROVE  <<a, b>> # <<>> /\ <<a, b>>[1] = a /\ <<a, b>>[2] = b
OBVIOUS

LEMMA CalmWriteRule ==
  ASSUME NEW v, NEW S \in SUBSET GwVersions,
         NEW rs \in SUBSET (CacheKeys \X Values), NEW ks \in SUBSET CacheKeys,
         \A p \in rs : p[2] \in Fits(p[1]), \A u \in S : <<R(u), "on">> \notin rs /\ <<PROD, u>> \notin rs /\ R(u) \notin ks
  PROVE  /\ (\A p \in rs : p[1] \in ks) => Write(rs, ks) \in CalmWrites(v, S)
         /\ WritePast(rs) \in CalmWrites(v, S)
<1>1. ASSUME \A p \in rs : p[1] \in ks
      PROVE  Write(rs, ks) \in CalmWrites(v, S)
  BY <1>1, WriteIsGood, WriteFacts DEF CalmWrites
<1>2. WritePast(rs) \in CalmWrites(v, S)
  BY WritePastIsGood, WriteFacts DEF CalmWrites
<1> QED
  BY <1>1, <1>2

LEMMA CalmOneRow ==
  ASSUME NEW v, NEW S \in SUBSET GwVersions,
         NEW k \in CacheKeys, NEW x \in Fits(k), \A u \in S : (x = "on" => R(u) # k) /\ (k = PROD => x # u)
  PROVE  /\ WritePast({<<k, x>>}) \in CalmWrites(v, S)
         /\ \A ks \in SUBSET CacheKeys :
              k \in ks /\ (\A u \in S : R(u) \notin ks) => Write({<<k, x>>}, ks) \in CalmWrites(v, S)
<1> DEFINE rs == {<<k, x>>}
<1>1. rs \in SUBSET (CacheKeys \X Values) /\ \A p \in rs : p[1] = k /\ p[2] = x
  BY ValueFacts
<1>2. \A u \in S : <<R(u), "on">> \notin rs /\ <<PROD, u>> \notin rs
  OBVIOUS
<1> HIDE DEF rs
<1>3. ASSUME NEW ks \in SUBSET CacheKeys, k \in ks, \A u \in S : R(u) \notin ks
      PROVE  Write(rs, ks) \in CalmWrites(v, S)
  BY <1>1, <1>2, <1>3, CalmWriteRule
<1>4. WritePast(rs) \in CalmWrites(v, S)
  <2>1. {} \in SUBSET CacheKeys
    OBVIOUS
  <2> QED
    BY <1>1, <1>2, <2>1, CalmWriteRule
<1> QED
  BY <1>3, <1>4 DEF rs

LEMMA CalmNoRow ==
  ASSUME NEW v, NEW S \in SUBSET GwVersions
  PROVE  /\ WritePast({}) \in CalmWrites(v, S)
         /\ \A ks \in SUBSET CacheKeys :
              (\A u \in S : R(u) \notin ks) => Write({}, ks) \in CalmWrites(v, S)
<1> DEFINE rs == {}
<1>1. rs \in SUBSET (CacheKeys \X Values) /\ (\A p \in rs : FALSE) /\ \A u : <<R(u), "on">> \notin rs /\ <<PROD, u>> \notin rs
  OBVIOUS
<1> HIDE DEF rs
<1>2. ASSUME NEW ks \in SUBSET CacheKeys, \A u \in S : R(u) \notin ks
      PROVE  Write(rs, ks) \in CalmWrites(v, S) /\ WritePast(rs) \in CalmWrites(v, S)
  BY <1>1, <1>2, CalmWriteRule
<1>3. {} \in SUBSET CacheKeys /\ \A u \in S : R(u) \notin {}
  OBVIOUS
<1> QED
  BY <1>2, <1>3 DEF rs

\* The writes that operations are made of archive nothing and touch no route but their own.
LEMMA CalmSteps ==
  ASSUME NEW v \in GwVersions, NEW S \in SUBSET GwVersions, v \notin S
  PROVE  /\ \A s \in Statuses \ {"archived"} : Status(v, s) \in CalmWrites(v, S)
         /\ \A h \in Hosts : EnsureHost(h) \in CalmWrites(v, S)
         /\ SetRouteOn(v) \in CalmWrites(v, S)
         /\ \A u \in GwVersions \ S : SetRouteOff(u) \in CalmWrites(v, S)
         /\ WritePast({<<R(v), "on">>}) \in CalmWrites(v, S)
         /\ WritePast({<<R(v), "off">>}) \in CalmWrites(v, S) /\ WritePast({}) \in CalmWrites(v, S)
         /\ Write({<<H(v), "off">>}, {H(v)}) \in CalmWrites(v, S) /\ Write({}, {H(v)}) \in CalmWrites(v, S)
         /\ Write({<<PROD, v>>}, {PROD, R(v)}) \in CalmWrites(v, S)
         /\ \A u \in GwVersions \ S : \A ks \in {{}, {R(u)}} :
              Write({<<PROD, v>>, <<R(v), "on">>}, {PROD, R(v)} \cup ks) \in CalmWrites(v, S)
<1>1. \A k \in CacheKeys \ {PROD} : "on" \in Fits(k) /\ "off" \in Fits(k)
  BY ValueFacts
<1>2. v \in Fits(PROD) /\ PROD \in CacheKeys
  BY KeyFacts, ValueFacts
<1>3. ASSUME NEW s \in Statuses \ {"archived"}
      PROVE  Status(v, s) \in CalmWrites(v, S)
  BY <1>3, StatusIsGood, WriteFacts, PairNotEmpty DEF CalmWrites
<1>4. /\ \A u \in GwVersions : R(u) \in CacheKeys \ {PROD}
      /\ \A h \in Hosts : H(h) \in CacheKeys \ {PROD}
      /\ v \in Hosts
  BY KeyFacts
<1>5. /\ \A u \in S : R(u) # R(v) /\ R(u) # PROD
      /\ \A u \in S, w \in GwVersions \ S : R(u) # R(w)
      /\ \A u \in S, h \in Hosts : R(u) # H(h)
  BY KeyFacts
<1>6. ASSUME NEW h \in Hosts
      PROVE  EnsureHost(h) \in CalmWrites(v, S)
  <2> DEFINE ks == {H(h)} \cup (IF h = "prod" THEN {PROD} ELSE {})
  <2>1. H(h) \in CacheKeys \ {PROD} /\ "on" \in Fits(H(h)) /\ \A u \in S : R(u) # H(h)
    BY <1>1, <1>4, <1>5
  <2>2. ks \in SUBSET CacheKeys /\ H(h) \in ks /\ \A u \in S : R(u) \notin ks
    BY <1>2, <1>4, <1>5
  <2> HIDE DEF ks
  <2>3. WritePast({<<H(h), "on">>}) \in CalmWrites(v, S) /\ Write({<<H(h), "on">>}, ks) \in CalmWrites(v, S)
    BY <2>1, <2>2, CalmOneRow
  <2> QED
    BY <2>3 DEF EnsureHost, ks
<1>7. SetRouteOn(v) \in CalmWrites(v, S) /\ WritePast({<<R(v), "on">>}) \in CalmWrites(v, S)
  <2>1. R(v) \in CacheKeys \ {PROD} /\ "on" \in Fits(R(v)) /\ \A u \in S : R(u) # R(v)
    BY <1>1, <1>4, <1>5
  <2>2. {R(v)} \in SUBSET CacheKeys /\ R(v) \in {R(v)} /\ \A u \in S : R(u) \notin {R(v)}
    BY <2>1
  <2> QED
    BY <2>1, <2>2, CalmOneRow DEF SetRouteOn
<1>8. ASSUME NEW u \in GwVersions \ S
      PROVE  SetRouteOff(u) \in CalmWrites(v, S) /\ WritePast({<<R(u), "off">>}) \in CalmWrites(v, S)
  <2>1. R(u) \in CacheKeys \ {PROD} /\ "off" \in Fits(R(u)) /\ \A x \in S : R(x) # R(u)
    BY <1>1, <1>4, <1>5
  <2>2. {R(u)} \in SUBSET CacheKeys /\ R(u) \in {R(u)} /\ \A x \in S : R(x) \notin {R(u)}
    BY <2>1
  <2> QED
    BY <2>1, <2>2, CalmOneRow DEF SetRouteOff
<1>9. Write({<<H(v), "off">>}, {H(v)}) \in CalmWrites(v, S) /\ Write({}, {H(v)}) \in CalmWrites(v, S)
  <2>1. H(v) \in CacheKeys \ {PROD} /\ "off" \in Fits(H(v)) /\ \A u \in S : R(u) # H(v)
    BY <1>1, <1>4, <1>5
  <2>2. {H(v)} \in SUBSET CacheKeys /\ H(v) \in {H(v)} /\ \A u \in S : R(u) \notin {H(v)}
    BY <2>1
  <2>3. Write({<<H(v), "off">>}, {H(v)}) \in CalmWrites(v, S)
    BY <2>1, <2>2, CalmOneRow
  <2> QED
    BY <2>2, <2>3, CalmNoRow
<1>10. WritePast({}) \in CalmWrites(v, S)
  BY CalmNoRow
<1>12. Write({<<PROD, v>>}, {PROD, R(v)}) \in CalmWrites(v, S)
  <2>1. {PROD, R(v)} \in SUBSET CacheKeys /\ PROD \in {PROD, R(v)} /\ \A u \in S : R(u) \notin {PROD, R(v)}
    BY <1>2, <1>4, <1>5
  <2> QED
    BY <1>2, <1>5, <2>1, CalmOneRow
<1>13. ASSUME NEW u \in GwVersions \ S, NEW ks \in {{}, {R(u)}}
       PROVE  Write({<<PROD, v>>, <<R(v), "on">>}, {PROD, R(v)} \cup ks) \in CalmWrites(v, S)
  <2> DEFINE rs == {<<PROD, v>>, <<R(v), "on">>}
             ds == {PROD, R(v)} \cup ks
  <2>1. rs \in SUBSET (CacheKeys \X Values) /\ ds \in SUBSET CacheKeys
    BY <1>1, <1>2, <1>4, ValueFacts
  <2>2. \A p \in rs : p[2] \in Fits(p[1]) /\ p[1] \in ds
    BY <1>1, <1>2, <1>4
  <2>3. \A x \in S : <<R(x), "on">> \notin rs /\ <<PROD, x>> \notin rs /\ R(x) \notin ds
    BY <1>4, <1>5
  <2> HIDE DEF rs, ds
  <2> QED
    BY <2>1, <2>2, <2>3, CalmWriteRule DEF rs, ds
<1> QED
  BY <1>3, <1>6, <1>7, <1>8, <1>9, <1>10, <1>12, <1>13

LEMMA ShortSeqs ==
  ASSUME NEW C
  PROVE  /\ <<>> \in Seq(C)
         /\ \A a \in C : <<a>> \in Seq(C)
         /\ \A a, b \in C : <<a, b>> \in Seq(C)
         /\ \A a, b, c \in C : <<a, b, c>> \in Seq(C)
OBVIOUS

\* What each operation is about to write.
LEMMA OperationsCalm ==
  ASSUME NEW v \in GwVersions, NEW S \in SUBSET GwVersions, v \notin S, row[PROD] \in (GwVersions \ S) \cup {"none"}
  PROVE  /\ DeploySteps(v) \in Seq(CalmWrites(v, S)) /\ FailSteps(v) \in Seq(CalmWrites(v, S))
         /\ PromoteSteps(v) \in Seq(CalmWrites(v, S))
<1> DEFINE C == CalmWrites(v, S)
<1>1. /\ Status(v, "deploy_ready") \in C /\ Status(v, "ready") \in C /\ Status(v, "failed") \in C
      /\ EnsureHost(v) \in C /\ EnsureHost("prod") \in C
  BY CalmSteps, KeyFacts DEF Statuses
<1>2. /\ WritePast({<<R(v), "on">>}) \in C /\ Write({<<PROD, v>>}, {PROD, R(v)}) \in C
      /\ WritePast(IF row[R(v)] = "none" THEN {} ELSE {<<R(v), "off">>}) \in C
      /\ Write(IF row[H(v)] = "none" THEN {} ELSE {<<H(v), "off">>}, {H(v)}) \in C
  BY CalmSteps
<1>3. row[PROD] # "none" => SetRouteOff(row[PROD]) \in C
  BY CalmSteps
<1>4. Write({<<PROD, v>>, <<R(v), "on">>}, {PROD, R(v)} \cup OldRoute) \in C
  <2>1. CASE row[PROD] = "none"
    <3>1. OldRoute = {} /\ v \in GwVersions \ S
      BY <2>1 DEF OldRoute
    <3> QED
      BY <3>1, CalmSteps
  <2>2. CASE row[PROD] # "none"
    <3>1. OldRoute = {R(row[PROD])} /\ row[PROD] \in GwVersions \ S
      BY <2>2 DEF OldRoute
    <3> QED
      BY <3>1, CalmSteps
  <2> QED
    BY <2>1, <2>2
<1> HIDE DEF C
<1>5. FirstProd(v) \in Seq(C)
  BY <1>1, <1>2, ShortSeqs DEF FirstProd
<1>6. DeploySteps(v) \in Seq(C)
  <2>1. (IF v \in GwElastic THEN <<Status(v, "deploy_ready")>> ELSE <<>>) \in Seq(C)
    BY <1>1, ShortSeqs
  <2>2. <<WritePast({<<R(v), "on">>}), EnsureHost(v), Status(v, "ready")>> \in Seq(C)
    BY <1>1, <1>2, ShortSeqs
  <2> QED
    BY <2>1, <2>2, <1>5, ConcatProperties DEF DeploySteps
<1>7. FailSteps(v) \in Seq(C)
  BY <1>1, <1>2, ShortSeqs DEF FailSteps
<1>8. PromoteSteps(v) \in Seq(C)
  <2>1. (IF row[PROD] = "none" THEN <<>> ELSE <<SetRouteOff(row[PROD])>>) \in Seq(C)
    BY <1>3, ShortSeqs
  <2>2. <<Write({<<PROD, v>>, <<R(v), "on">>}, {PROD, R(v)} \cup OldRoute), EnsureHost("prod")>> \in Seq(C)
    BY <1>1, <1>4, ShortSeqs
  <2> QED
    BY <2>1, <2>2, ConcatProperties DEF PromoteSteps
<1> QED
  BY <1>6, <1>7, <1>8 DEF C

LEMMA WakeCalm ==
  ASSUME NEW v \in GwVersions
  PROVE  /\ WakeSteps(v) \in Seq(WakeWrites(v))
         /\ \E i \in 1 .. Len(WakeSteps(v)) : WakeSteps(v)[i].status = <<v, "ready">>
<1> DEFINE C == WakeWrites(v)
<1>1. Status(v, "ready") \in C /\ EnsureHost(v) \in C /\ SetRouteOn(v) \in C
  <2> DEFINE D == CalmWrites(v, GwVersions \ {v})
  <2>1. Status(v, "ready") \in D /\ EnsureHost(v) \in D /\ SetRouteOn(v) \in D
    BY CalmSteps, KeyFacts DEF Statuses
  <2>2. R(v) # PROD /\ H(v) # PROD
    BY KeyFacts
  <2>3. Status(v, "ready").rows = {} /\ EnsureHost(v).rows = {<<H(v), "on">>} /\ SetRouteOn(v).rows = {<<R(v), "on">>}
    BY WriteFacts DEF EnsureHost, SetRouteOn
  <2> HIDE DEF D
  <2> QED
    BY <2>1, <2>2, <2>3 DEF WakeWrites, D
<1> HIDE DEF C
<1>2. Status(v, "ready").status = <<v, "ready">>
  BY WriteFacts
<1>3. CASE v \in GwElastic
  <2>1. WakeSteps(v) = <<Status(v, "ready"), EnsureHost(v)>>
    BY <1>3 DEF WakeSteps
  <2>2. 1 \in 1 .. Len(WakeSteps(v)) /\ WakeSteps(v)[1] = Status(v, "ready")
    BY <2>1
  <2> QED
    BY <1>1, <1>2, <2>1, <2>2, ShortSeqs DEF C
<1>4. CASE v \notin GwElastic
  <2>1. WakeSteps(v) = <<SetRouteOn(v), EnsureHost(v), Status(v, "ready")>>
    BY <1>4 DEF WakeSteps
  <2>2. 3 \in 1 .. Len(WakeSteps(v)) /\ WakeSteps(v)[3] = Status(v, "ready")
    BY <2>1
  <2> QED
    BY <1>1, <1>2, <2>1, <2>2, ShortSeqs DEF C
<1> QED
  BY <1>3, <1>4

LEMMA CalmIsGood ==
  ASSUME NEW v, NEW S, NEW todo \in Seq(CalmWrites(v, S))
  PROVE  todo \in Seq(GoodWrites)
<1>1. CalmWrites(v, S) \subseteq GoodWrites
  BY DEF CalmWrites
<1> QED
  BY <1>1, SeqMonotonic

LEMMA WakeIsGood ==
  ASSUME NEW v, NEW todo \in Seq(WakeWrites(v))
  PROVE  todo \in Seq(GoodWrites)
<1>1. WakeWrites(v) \subseteq GoodWrites
  BY DEF WakeWrites, CalmWrites
<1> QED
  BY <1>1, SeqMonotonic

LEMMA ArchiveGood ==
  ASSUME NEW v \in GwVersions
  PROVE  /\ ArchiveSteps(v) \in Seq(GoodWrites)
         /\ DestroySteps(v) \in Seq(GoodWrites)
<1>1. SetRouteOff(v) \in GoodWrites
  <2>1. {} \in SUBSET GwVersions /\ v \notin {} /\ v \in GwVersions \ {}
    OBVIOUS
  <2>2. SetRouteOff(v) \in CalmWrites(v, {})
    BY <2>1, CalmSteps
  <2> QED
    BY <2>2 DEF CalmWrites
<1>2. Status(v, "draining") \in GoodWrites /\ Status(v, "archived") \in GoodWrites /\ Status(v, "destroyed") \in GoodWrites
  BY StatusIsGood DEF Statuses
<1> QED
  BY <1>1, <1>2, ShortSeqs DEF ArchiveSteps, DestroySteps

\* The calm operations after their first step.
LEMMA TailFacts ==
  ASSUME NEW a, NEW b, NEW c
  PROVE  /\ Tail(<<a>>) = <<>> /\ Tail(<<a, b>>) = <<b>> /\ Tail(<<a, b, c>>) = <<b, c>>
         /\ Head(<<a>>) = a /\ Head(<<a, b>>) = a /\ Head(<<a, b, c>>) = a
         /\ Len(<<a>>) = 1 /\ Len(<<a, b>>) = 2 /\ Len(<<a, b, c>>) = 3
OBVIOUS

-----------------------------------------------------------------------------
LEMMA InitInv == GwInit => GwInv
<1> SUFFICES ASSUME GwInit
             PROVE  GwInv
  OBVIOUS
<1> USE GatewayAssumption
<1>1. PICK cool \in SUBSET (IF GwProd = "none" THEN {} ELSE GwVersions \ {GwProd}) :
        /\ row = [k \in CacheKeys |->
                    IF k = PROD THEN GwProd
                    ELSE IF GwProd # "none" /\ k \in {R(GwProd), H(GwProd), H("prod")} THEN "on"
                    ELSE IF k \in {H(v) : v \in cool} THEN "on"
                    ELSE IF k \in {R(v) : v \in cool} THEN "off" ELSE "none"]
        /\ state = [v \in GwVersions |->
                     IF v = GwProd THEN "ready" ELSE IF v \in cool THEN "archived" ELSE "deploying"]
  BY DEF GwInit
<1>2. /\ \A k \in CacheKeys : row[k] \in Fits(k) /\ Fits(k) \subseteq Values
      /\ row[PROD] = GwProd /\ row \in [CacheKeys -> Values]
  <2>1. \A k \in CacheKeys : row[k] \in Fits(k)
    BY <1>1 DEF Fits
  <2> QED
    BY <1>1, <2>1, KeyFacts, ValueFacts
<1>3. /\ cache = [k \in CacheKeys |-> NoEntry] /\ op = NoOperation /\ snap = [v \in GwVersions |-> "none"]
      /\ reqs = [r \in GwRequests |-> NoReq] /\ excuse = [k \in CacheKeys |-> {}]
  BY DEF GwInit
<1>4. state \in [GwVersions -> Statuses] /\ \A v \in Archived : v \in cool /\ v # GwProd
  BY <1>1 DEF Statuses, Archived
<1>5. NoReq \in Request /\ RequestFits(NoReq) /\ FillFits(NoReq)
  BY KeyFacts DEF NoReq, Request, Steps, RequestFits, FillFits, OffFits, KeyFits, Values
<1>6. op.kind = "none" /\ op.v = "none" /\ op.todo = <<>> /\ op.drop = {}
  BY <1>3 DEF NoOperation
<1>7. op \in [kind : {"none", "deploy", "undo", "promote", "archive", "wake", "destroy"},
             v : GwVersions \cup {"none"}, todo : Seq(GoodWrites), drop : SUBSET CacheKeys]
  <2>1. <<>> \in Seq(GoodWrites)
    BY ShortSeqs
  <2> QED
    BY <2>1, <1>3 DEF NoOperation
<1>8. GwTyped
  BY <1>2, <1>3, <1>4, <1>5, <1>7 DEF GwTyped
<1>9. TablesFit
  <2> SUFFICES ASSUME NEW t \in Tables
               PROVE  IsFiniteSet(Held(t)) /\ Cardinality(Held(t)) <= GwCap
    BY DEF TablesFit
  <2>1. Held(t) = {}
    BY <1>3 DEF Held
  <2> QED
    BY <2>1, FS_EmptySet
<1>10. OpFits
  BY <1>3, <1>6 DEF OpFits
<1>11. SleepersOff
  <2> SUFFICES ASSUME NEW u \in GwVersions, Asleep(u)
               PROVE  row[R(u)] # "on"
    BY <1>6 DEF SleepersOff
  <2>1. u \in cool /\ u # GwProd /\ R(u) \in CacheKeys /\ GwProd # "none"
    BY <1>4, KeyFacts DEF Asleep, Archived
  <2>2. R(u) # PROD /\ R(u) \notin {R(GwProd), H(GwProd), H("prod")} /\ R(u) \notin {H(v) : v \in cool}
    BY <2>1, KeyFacts
  <2> QED
    BY <1>1, <2>1, <2>2
<1>12. ProdAwake
  BY <1>2, <1>4 DEF ProdAwake
<1>13. RequestsFit
  BY <1>3, <1>5 DEF RequestsFit
<1>14. StaleHasExcuse
  BY <1>3 DEF StaleHasExcuse
<1> QED
  BY <1>8, <1>9, <1>10, <1>11, <1>12, <1>13, <1>14 DEF GwInv

-----------------------------------------------------------------------------
(* The steps of a request.                                                   *)

\* A step that only moves a request keeps the invariant if what it moves to fits.
LEMMA RequestMoves ==
  ASSUME GwInv, UNCHANGED <<row, state, cache, op, snap, excuse>>,
         NEW r \in GwRequests, NEW q \in Request, RequestFits(q), FillFits(q), Becomes(r, q)
  PROVE  GwInv'
<1>1. /\ reqs' \in [GwRequests -> Request] /\ \A x \in GwRequests : reqs'[x] = IF x = r THEN q ELSE reqs[x]
  BY DEF GwInv, GwTyped, Becomes
<1>2. GwTyped'
  BY <1>1 DEF GwInv, GwTyped
<1>3. \A x \in Request : (RequestFits(x) <=> RequestFits(x)') /\ (FillFits(x) <=> FillFits(x)')
  BY DEF RequestFits, FillFits, OffFits, KeyFits, Archived
<1>4. RequestsFit'
  <2> SUFFICES ASSUME NEW x \in GwRequests
               PROVE  (RequestFits(reqs[x]) /\ FillFits(reqs[x]))'
    BY DEF RequestsFit
  <2>1. reqs[x] \in Request /\ RequestFits(reqs[x]) /\ FillFits(reqs[x])
    BY DEF GwInv, GwTyped, RequestsFit
  <2>2. RequestFits(reqs'[x]) /\ FillFits(reqs'[x]) /\ reqs'[x] \in Request
    BY <1>1, <2>1
  <2> QED
    BY <2>2 DEF RequestFits, FillFits, OffFits, KeyFits, Archived
<1>5. TablesFit'
  BY DEF GwInv, TablesFit, Held
<1>6. OpFits'
  BY DEF GwInv, OpFits, Archived
<1>7. SleepersOff' /\ ProdAwake' /\ StaleHasExcuse'
  BY DEF GwInv, SleepersOff, Asleep, ProdAwake, Archived, StaleHasExcuse
<1> QED
  BY <1>2, <1>4, <1>5, <1>6, <1>7 DEF GwInv

LEMMA ServedFits ==
  ASSUME NEW q \in Request
  PROVE  Served(q) \in Request /\ RequestFits(Served(q)) /\ FillFits(Served(q))
<1>1. Served(q) \in Request
  BY KeyFacts DEF Served, NoReq, Request, Steps, Values
<1>2. Served(q).at = "done" /\ Served(q).off = {}
  BY DEF Served, NoReq
<1> QED
  BY <1>1, <1>2 DEF RequestFits, FillFits, OffFits

LEMMA LookFits ==
  ASSUME NEW q \in Request, NEW k \in CacheKeys, q.sent = 0, OffFits(q),
         k[1] = "route" => q.ver \in GwVersions /\ k = R(q.ver)
  PROVE  Look(q, k) \in Request /\ RequestFits(Look(q, k)) /\ FillFits(Look(q, k))
<1>1. Look(q, k) \in Request
  BY DEF Look, Request, Steps
<1>2. /\ Look(q, k).at = "look" /\ Look(q, k).key = k /\ Look(q, k).sent = 0
      /\ Look(q, k).ver = q.ver /\ Look(q, k).off = q.off
  BY DEF Look, Request
<1> QED
  BY <1>1, <1>2 DEF RequestFits, FillFits, OffFits, KeyFits

\* Moving on with another step and another version, none of them a lookup.
LEMMA GoesOn ==
  ASSUME NEW q \in Request, NEW p \in Request, q.sent = 0, OffFits(q),
         p.off \subseteq q.off, p.sent = q.sent, p.ver \in GwVersions,
         p.at \in {"status", "snap", "again", "cold", "admit", "send"},
         p.at = "send" /\ p.via = "route" => p.ver \notin p.off
  PROVE  RequestFits(p) /\ FillFits(p)
  BY DEF RequestFits, FillFits, OffFits

\* What a lookup finds.
LEMMA FoundFits ==
  ASSUME GwInv, NEW q \in Request, q.at # "done", RequestFits(q), KeyFits(q),
         NEW val \in Fits(q.key), val = row[q.key] \/ q.key \in op.drop \/ excuse[q.key] # {}
  PROVE  /\ Found(q, val) \in Request /\ RequestFits(Found(q, val)) /\ FillFits(Found(q, val))
         /\ Found(q, val).at # "fill"
<1>1. q.sent = 0 /\ OffFits(q) /\ q.key \in CacheKeys /\ q.host \in Hosts
  BY DEF RequestFits, Request
<1>2. /\ Served(q) \in Request /\ RequestFits(Served(q)) /\ FillFits(Served(q))
      /\ Served(q).at # "fill"
  BY ServedFits DEF Served, NoReq
<1>3. CASE q.key = PROD /\ val # "none"
  <2> DEFINE p == [q EXCEPT !.at = "status", !.ver = val]
  <2>1. val \in GwVersions
    BY <1>3, ValueFacts
  <2>2. /\ p \in Request /\ p.off = q.off /\ p.sent = q.sent /\ p.ver = val /\ p.at = "status"
    BY <2>1 DEF Request, Steps
  <2>3. Found(q, val) = p
    BY <1>3 DEF Found
  <2> HIDE DEF p
  <2>4. p.at \in {"status", "snap", "again", "cold", "admit", "send"} /\ p.at # "send" /\ p.at # "fill"
    BY <2>2
  <2>5. RequestFits(p) /\ FillFits(p)
    BY <1>1, <2>1, <2>2, <2>4, GoesOn
  <2> QED
    BY <2>2, <2>3, <2>4, <2>5
<1>4. CASE q.key # PROD /\ val = "on" /\ q.key[1] = "route"
  <2> DEFINE p == [q EXCEPT !.at = "send", !.via = "route",
                            !.off = IF excuse[q.key] = {} THEN @ ELSE @ \ {q.ver}]
  <2>1. q.ver \in GwVersions /\ q.key = R(q.ver)
    BY <1>4 DEF KeyFits
  <2>2. /\ p \in Request /\ p.sent = q.sent /\ p.ver = q.ver /\ p.at = "send"
        /\ p.off = IF excuse[q.key] = {} THEN q.off ELSE q.off \ {q.ver}
    BY <2>1 DEF Request, Steps
  <2>3. Found(q, val) = p
    BY <1>4 DEF Found
  <2> HIDE DEF p
  <2>4. p.ver \notin p.off
    BY <1>1, <1>4, <2>1, <2>2 DEF OffFits
  <2>5. RequestFits(p) /\ FillFits(p)
    <3>1. p.off \subseteq q.off
      BY <2>2
    <3>2. p.at \in {"status", "snap", "again", "cold", "admit", "send"}
      BY <2>2
    <3> QED
      BY <1>1, <2>1, <2>2, <2>4, <3>1, <3>2, GoesOn
  <2> QED
    BY <2>2, <2>3, <2>5
<1>5. CASE q.key # PROD /\ val = "on" /\ q.key[1] # "route" /\ q.host = "prod"
  <2>1. Found(q, val) = Look(q, PROD)
    BY <1>5 DEF Found
  <2>2. PROD \in CacheKeys /\ PROD[1] # "route"
    BY KeyFacts
  <2>3. Look(q, PROD).at # "fill"
    BY DEF Look, Request
  <2> QED
    BY <1>1, <2>1, <2>2, <2>3, LookFits
<1>6. CASE q.key # PROD /\ val = "on" /\ q.key[1] # "route" /\ q.host # "prod"
  <2> DEFINE p == [q EXCEPT !.at = "status", !.ver = q.host]
  <2>1. q.host \in GwVersions
    BY <1>1, <1>6, KeyFacts
  <2>2. /\ p \in Request /\ p.off = q.off /\ p.sent = q.sent /\ p.ver = q.host /\ p.at = "status"
    BY <2>1 DEF Request, Steps
  <2>3. Found(q, val) = p
    BY <1>6 DEF Found
  <2> HIDE DEF p
  <2>4. p.at \in {"status", "snap", "again", "cold", "admit", "send"} /\ p.at # "send" /\ p.at # "fill"
    BY <2>2
  <2>5. RequestFits(p) /\ FillFits(p)
    BY <1>1, <2>1, <2>2, <2>4, GoesOn
  <2> QED
    BY <2>2, <2>3, <2>4, <2>5
<1>7. CASE (q.key = PROD /\ val = "none") \/ (q.key # PROD /\ val # "on")
  <2>1. Found(q, val) = Served(q)
    BY <1>7 DEF Found
  <2> QED
    BY <1>2, <2>1
<1> QED
  BY <1>3, <1>4, <1>5, <1>6, <1>7

LEMMA ArriveInv ==
  ASSUME GwInv, NEW r \in GwRequests, NEW h \in Hosts, GwArrive(r, h)
  PROVE  GwInv'
<1> DEFINE q == [NoReq EXCEPT !.host = h, !.off = {v \in GwVersions : Asleep(v)}]
<1>1. q \in Request /\ q.sent = 0 /\ q.off = {v \in GwVersions : Asleep(v)}
  BY KeyFacts DEF NoReq, Request, Steps, Values
<1>2. Becomes(r, Look(q, H(h))) /\ UNCHANGED <<row, state, cache, op, snap, excuse>>
  BY DEF GwArrive
<1> HIDE DEF q
<1>3. OffFits(q)
  BY <1>1 DEF OffFits, GwInv, SleepersOff, Asleep, Archived
<1>4. H(h) \in CacheKeys /\ H(h)[1] # "route"
  BY KeyFacts
<1>5. Look(q, H(h)) \in Request /\ RequestFits(Look(q, H(h))) /\ FillFits(Look(q, H(h)))
  BY <1>1, <1>3, <1>4, LookFits
<1> QED
  BY <1>2, <1>5, RequestMoves

LEMMA LookHitsInv ==
  ASSUME GwInv, NEW r \in GwRequests, LookHits(r)
  PROVE  GwInv'
<1> DEFINE q == reqs[r]
           val == cache[q.key]
<1>1. /\ q \in Request /\ q.at = "look" /\ RequestFits(q) /\ KeyFits(q) /\ q.key \in CacheKeys
      /\ Becomes(r, Found(q, val)) /\ UNCHANGED <<row, state, cache, op, snap, excuse>> /\ val # NoEntry
  BY DEF LookHits, GwInv, GwTyped, RequestsFit, RequestFits, Request
<1>2. val \in Fits(q.key) /\ (val = row[q.key] \/ q.key \in op.drop \/ excuse[q.key] # {})
  BY <1>1 DEF GwInv, GwTyped, StaleHasExcuse
<1> HIDE DEF q, val
<1>3. Found(q, val) \in Request /\ RequestFits(Found(q, val)) /\ FillFits(Found(q, val))
  BY <1>1, <1>2, FoundFits
<1> QED
  BY <1>1, <1>3, RequestMoves

LEMMA LookMissesInv ==
  ASSUME GwInv, NEW r \in GwRequests, LookMisses(r)
  PROVE  GwInv'
<1> DEFINE q == reqs[r]
           p == [reqs[r] EXCEPT !.at = "read"]
<1>1. /\ q \in Request /\ q.at = "look" /\ RequestFits(q)
      /\ Becomes(r, p) /\ UNCHANGED <<row, state, cache, op, snap, excuse>>
  BY DEF LookMisses, GwInv, GwTyped, RequestsFit
<1>2. p \in Request /\ p.at = "read" /\ p.key = q.key /\ p.ver = q.ver /\ p.sent = q.sent /\ p.off = q.off
  BY <1>1 DEF Request, Steps
<1> HIDE DEF q, p
<1>3. RequestFits(p) /\ FillFits(p)
  BY <1>1, <1>2 DEF RequestFits, FillFits, OffFits, KeyFits
<1> QED
  BY <1>1, <1>2, <1>3, RequestMoves

LEMMA ReadRowInv ==
  ASSUME GwInv, NEW r \in GwRequests, ReadRow(r)
  PROVE  GwInv'
<1> DEFINE q == reqs[r]
           p == [reqs[r] EXCEPT !.at = "fill", !.val = row[reqs[r].key]]
<1>1. /\ q \in Request /\ q.at = "read" /\ RequestFits(q) /\ q.key \in CacheKeys
      /\ Becomes(r, p) /\ UNCHANGED <<row, state, cache, op, snap, excuse>>
      /\ row[q.key] \in Values /\ row[q.key] \in Fits(q.key)
  BY DEF ReadRow, GwInv, GwTyped, RequestsFit, Request
<1>2. /\ p \in Request /\ p.at = "fill" /\ p.key = q.key /\ p.ver = q.ver
      /\ p.sent = q.sent /\ p.off = q.off /\ p.val = row[q.key]
  BY <1>1 DEF Request, Steps
<1> HIDE DEF q, p
<1>3. RequestFits(p) /\ FillFits(p)
  BY <1>1, <1>2 DEF RequestFits, FillFits, OffFits, KeyFits
<1> QED
  BY <1>1, <1>2, <1>3, RequestMoves

LEMMA ReadStatusInv ==
  ASSUME GwInv, NEW r \in GwRequests, ReadStatus(r)
  PROVE  GwInv'
<1> DEFINE q == reqs[r]
           s == state[q.ver]
           p == [q EXCEPT !.at = IF s = "deploy_ready" THEN "cold" ELSE "snap", !.status = s]
<1>1. /\ q \in Request /\ q.at = "status" /\ RequestFits(q) /\ UNCHANGED <<row, state, cache, op, snap, excuse>>
      /\ Becomes(r, Served(q)) \/ Becomes(r, p)
  BY DEF ReadStatus, GwInv, GwTyped, RequestsFit
<1>2. q.ver \in GwVersions /\ q.sent = 0 /\ OffFits(q) /\ s \in Statuses
  BY <1>1 DEF RequestFits, GwInv, GwTyped
<1>3. /\ p \in Request /\ p.at \in {"cold", "snap"} /\ p.ver = q.ver /\ p.sent = q.sent /\ p.off = q.off
  BY <1>1, <1>2 DEF Request, Steps
<1> HIDE DEF q, s, p
<1>4. p.at \in {"status", "snap", "again", "cold", "admit", "send"} /\ p.at # "send" /\ p.off \subseteq q.off
  BY <1>3
<1>5. RequestFits(p) /\ FillFits(p)
  BY <1>1, <1>2, <1>3, <1>4, GoesOn
<1>6. Served(q) \in Request /\ RequestFits(Served(q)) /\ FillFits(Served(q))
  BY <1>1, ServedFits
<1> QED
  BY <1>1, <1>3, <1>5, <1>6, RequestMoves

\* The steps from a snapshot to an activator, and back to the route of the version.
LEMMA ColdPathInv ==
  ASSUME GwInv, NEW r \in GwRequests, ReadSnapshot(r) \/ ReadAgain(r) \/ ColdWake(r) \/ Admitted(r)
  PROVE  GwInv'
<1> DEFINE q == reqs[r]
           Warm == [q EXCEPT !.at = "send", !.via = "snapshot"]
           Goes(at) == [q EXCEPT !.at = at]
<1>1. q \in Request /\ RequestFits(q)
  BY DEF GwInv, GwTyped, RequestsFit
<1>2. q.at \in {"snap", "again", "cold", "admit"} /\ UNCHANGED <<row, state, cache, op, snap, excuse>>
  BY DEF ReadSnapshot, ReadAgain, ColdWake, Admitted
<1>3. \/ Becomes(r, Warm) \/ Becomes(r, Look(q, R(q.ver))) \/ Becomes(r, Served(q))
      \/ \E at \in {"again", "cold", "admit"} : Becomes(r, Goes(at))
  BY DEF ReadSnapshot, ReadAgain, ColdWake, Admitted
<1>4. q.ver \in GwVersions /\ q.sent = 0 /\ OffFits(q)
  BY <1>1, <1>2 DEF RequestFits
<1>5. /\ Warm \in Request /\ Warm.at = "send" /\ Warm.via = "snapshot" /\ Warm.ver = q.ver
      /\ Warm.sent = q.sent /\ Warm.off = q.off
  BY <1>1 DEF Request, Steps
<1>6. \A at \in {"again", "cold", "admit"} :
        /\ Goes(at) \in Request /\ Goes(at).at = at /\ Goes(at).ver = q.ver
        /\ Goes(at).sent = q.sent /\ Goes(at).off = q.off
  BY <1>1 DEF Request, Steps
<1> HIDE DEF q, Warm, Goes
<1>7. RequestFits(Warm) /\ FillFits(Warm)
  <2>1. /\ Warm.at \in {"status", "snap", "again", "cold", "admit", "send"} /\ Warm.via # "route"
        /\ Warm.off \subseteq q.off
    BY <1>5
  <2> QED
    BY <1>1, <1>4, <1>5, <2>1, GoesOn
<1>8. ASSUME NEW at \in {"again", "cold", "admit"}
      PROVE  RequestFits(Goes(at)) /\ FillFits(Goes(at))
  <2> DEFINE p == Goes(at)
  <2>1. /\ p \in Request /\ p.at \in {"status", "snap", "again", "cold", "admit", "send"} /\ p.at # "send"
        /\ p.off \subseteq q.off /\ p.sent = q.sent /\ p.ver \in GwVersions
    BY <1>4, <1>6, <1>8
  <2> HIDE DEF p
  <2>2. RequestFits(p) /\ FillFits(p)
    BY <1>1, <1>4, <2>1, GoesOn
  <2> QED
    BY <2>2 DEF p
<1>9. Look(q, R(q.ver)) \in Request /\ RequestFits(Look(q, R(q.ver))) /\ FillFits(Look(q, R(q.ver)))
  <2>1. R(q.ver) \in CacheKeys
    BY <1>4, KeyFacts
  <2> QED
    BY <1>1, <1>4, <2>1, LookFits
<1>10. Served(q) \in Request /\ RequestFits(Served(q)) /\ FillFits(Served(q))
  BY <1>1, ServedFits
<1>11. CASE Becomes(r, Warm)
  BY <1>2, <1>5, <1>7, <1>11, RequestMoves
<1>12. CASE Becomes(r, Look(q, R(q.ver)))
  BY <1>2, <1>9, <1>12, RequestMoves
<1>13. CASE Becomes(r, Served(q))
  BY <1>2, <1>10, <1>13, RequestMoves
<1>14. ASSUME NEW at \in {"again", "cold", "admit"}, Becomes(r, Goes(at))
       PROVE  GwInv'
  BY <1>2, <1>6, <1>8, <1>14, RequestMoves
<1> QED
  BY <1>3, <1>11, <1>12, <1>13, <1>14

LEMMA LeaveInv ==
  ASSUME GwInv, NEW r \in GwRequests, Send(r) \/ Leave(r)
  PROVE  GwInv'
<1>1. CASE Send(r)
  <2> DEFINE q == reqs[r]
             p == [Served(q) EXCEPT !.sent = @ + 1]
  <2>1. q \in Request /\ RequestFits(q) /\ q.at = "send" /\ Becomes(r, p)
        /\ UNCHANGED <<row, state, cache, op, snap, excuse>>
    BY <1>1 DEF Send, GwInv, GwTyped, RequestsFit
  <2>2. q.sent = 0
    BY <2>1 DEF RequestFits
  <2>3. Served(q) \in Request /\ Served(q).at = "done" /\ Served(q).sent = 0 /\ Served(q).off = {}
    BY <2>1, <2>2, ServedFits DEF Served, NoReq
  <2>4. p \in Request /\ p.at = "done" /\ p.off = {}
    BY <2>3 DEF Request
  <2> HIDE DEF p
  <2>5. RequestFits(p) /\ FillFits(p)
    BY <2>4 DEF RequestFits, FillFits, OffFits
  <2> QED
    BY <2>1, <2>4, <2>5, RequestMoves
<1>2. CASE Leave(r)
  <2>1. NoReq \in Request /\ RequestFits(NoReq) /\ FillFits(NoReq)
    BY KeyFacts DEF NoReq, Request, Steps, RequestFits, FillFits, OffFits, KeyFits, Values
  <2>2. Becomes(r, NoReq) /\ UNCHANGED <<row, state, cache, op, snap, excuse>>
    BY <1>2 DEF Leave
  <2> QED
    BY <2>1, <2>2, RequestMoves
<1> QED
  BY <1>1, <1>2

-----------------------------------------------------------------------------
(* The steps that change the cache.                                          *)

\* Dropping an entry makes room.
LEMMA DropMakesRoom ==
  ASSUME GwInv, NEW k \in CacheKeys, cache' = [cache EXCEPT ![k] = NoEntry]
  PROVE  TablesFit' /\ cache' \in [CacheKeys -> Values \cup {NoEntry}]
         /\ \A m \in CacheKeys : cache'[m] = IF m = k THEN NoEntry ELSE cache[m]
<1>1. cache' \in [CacheKeys -> Values \cup {NoEntry}]
      /\ \A m \in CacheKeys : cache'[m] = IF m = k THEN NoEntry ELSE cache[m]
  BY DEF GwInv, GwTyped
<1>2. ASSUME NEW t \in Tables
      PROVE  IsFiniteSet(Held(t)') /\ Cardinality(Held(t)') <= GwCap
  <2>1. IsFiniteSet(Held(t)) /\ Cardinality(Held(t)) <= GwCap
    BY DEF GwInv, TablesFit
  <2>2. Held(t)' \in SUBSET Held(t)
    BY <1>1 DEF Held
  <2>3. IsFiniteSet(Held(t)') /\ Cardinality(Held(t)') <= Cardinality(Held(t))
    BY <2>1, <2>2, FS_Subset
  <2>4. Cardinality(Held(t)') \in Nat /\ Cardinality(Held(t)) \in Nat /\ GwCap \in Nat
    BY <2>1, <2>3, FS_CardinalityType, GatewayAssumption
  <2> QED
    BY <2>1, <2>3, <2>4
<1> QED
  BY <1>1, <1>2 DEF TablesFit

\* A filled entry takes the place of another one if its table is full.
LEMMA FillKeepsCap ==
  ASSUME GwInv, NEW k \in CacheKeys, NEW val \in Fits(k),
         NEW m \in (IF cache[k] = NoEntry /\ Cardinality(Others(k)) = GwCap THEN Others(k) ELSE {k}),
         cache' = [[cache EXCEPT ![m] = NoEntry] EXCEPT ![k] = val]
  PROVE  TablesFit'
<1>1. val # NoEntry /\ k[1] \in Tables /\ cache \in [CacheKeys -> Values \cup {NoEntry}]
  BY KeyFacts, ValueFacts DEF GwInv, GwTyped
<1>2. m \in CacheKeys /\ m[1] = k[1]
  BY DEF Others
<1>3. \A x \in CacheKeys : cache'[x] = IF x = k THEN val ELSE IF x = m THEN NoEntry ELSE cache[x]
  BY <1>1, <1>2
<1> SUFFICES ASSUME NEW t \in Tables
             PROVE  IsFiniteSet(Held(t)') /\ Cardinality(Held(t)') <= GwCap
  BY DEF TablesFit
<1>4. IsFiniteSet(Held(t)) /\ Cardinality(Held(t)) <= GwCap /\ Cardinality(Held(t)) \in Nat /\ GwCap \in Nat
  BY FS_CardinalityType, GatewayAssumption DEF GwInv, TablesFit
<1>5. CASE t # k[1]
  <2>1. Held(t)' = Held(t)
    BY <1>2, <1>3, <1>5 DEF Held
  <2> QED
    BY <1>4, <2>1
<1>6. CASE t = k[1] /\ cache[k] # NoEntry
  <2>1. m = k
    BY <1>6
  <2>2. Held(t)' = Held(t)
    BY <1>1, <1>3, <1>6, <2>1 DEF Held
  <2> QED
    BY <1>4, <2>2
<1>7. CASE t = k[1] /\ cache[k] = NoEntry
  <2>1. Others(k) = Held(t) /\ k \notin Held(t)
    BY <1>7 DEF Others, Held
  <2>2. CASE Cardinality(Others(k)) = GwCap
    <3>1. m \in Held(t) /\ m # k
      BY <1>7, <2>1, <2>2
    <3>2. Held(t)' = (Held(t) \ {m}) \cup {k}
      BY <1>1, <1>3, <1>7, <3>1 DEF Held
    <3>3. IsFiniteSet(Held(t) \ {m}) /\ Cardinality(Held(t) \ {m}) = Cardinality(Held(t)) - 1
      BY <1>4, <3>1, FS_RemoveElement
    <3>4. k \notin Held(t) \ {m}
      BY <2>1
    <3>5. /\ IsFiniteSet((Held(t) \ {m}) \cup {k})
          /\ Cardinality((Held(t) \ {m}) \cup {k}) = Cardinality(Held(t) \ {m}) + 1
      BY <3>3, <3>4, FS_AddElement
    <3> QED
      BY <1>4, <3>2, <3>3, <3>5
  <2>3. CASE Cardinality(Others(k)) # GwCap
    <3>1. m = k
      BY <2>3
    <3>2. Held(t)' = Held(t) \cup {k}
      BY <1>1, <1>3, <1>7, <3>1 DEF Held
    <3>3. IsFiniteSet(Held(t) \cup {k}) /\ Cardinality(Held(t) \cup {k}) = Cardinality(Held(t)) + 1
      BY <1>4, <2>1, FS_AddElement
    <3> QED
      BY <1>4, <2>1, <2>3, <3>2, <3>3
  <2> QED
    BY <2>2, <2>3
<1> QED
  BY <1>5, <1>6, <1>7

LEMMA ExpireInv ==
  ASSUME GwInv, NEW k \in CacheKeys, Expire(k)
  PROVE  GwInv'
<1>1. cache' = [cache EXCEPT ![k] = NoEntry] /\ UNCHANGED <<row, state, op, snap, reqs, excuse>>
  BY DEF Expire
<1>2. TablesFit' /\ cache' \in [CacheKeys -> Values \cup {NoEntry}]
      /\ \A m \in CacheKeys : cache'[m] = IF m = k THEN NoEntry ELSE cache[m]
  BY <1>1, DropMakesRoom
<1>3. GwTyped' /\ StaleHasExcuse'
  BY <1>1, <1>2 DEF GwInv, GwTyped, StaleHasExcuse
<1>4. RequestsFit' /\ OpFits' /\ SleepersOff' /\ ProdAwake'
  BY <1>1 DEF GwInv, RequestsFit, RequestFits, FillFits, OffFits, KeyFits, OpFits, SleepersOff, Asleep, ProdAwake, Archived
<1> QED
  BY <1>2, <1>3, <1>4 DEF GwInv

LEMMA SnapMovesInv ==
  ASSUME GwInv, NEW v \in GwVersions, SnapMoves(v)
  PROVE  GwInv'
<1>1. snap' \in [GwVersions -> {"none", "warm"}] /\ UNCHANGED <<row, state, cache, op, reqs, excuse>>
  BY DEF SnapMoves, GwInv, GwTyped
<1>2. GwTyped' /\ StaleHasExcuse' /\ TablesFit'
  BY <1>1 DEF GwInv, GwTyped, StaleHasExcuse, TablesFit, Held
<1>3. RequestsFit' /\ OpFits' /\ SleepersOff' /\ ProdAwake'
  BY <1>1 DEF GwInv, RequestsFit, RequestFits, FillFits, OffFits, KeyFits, OpFits, SleepersOff, Asleep, ProdAwake, Archived
<1> QED
  BY <1>2, <1>3 DEF GwInv

LEMMA FillInv ==
  ASSUME GwInv, NEW r \in GwRequests, Fill(r)
  PROVE  GwInv'
<1> DEFINE k == reqs[r].key
           val == reqs[r].val
           q == [reqs[r] EXCEPT !.val = "none"]
<1>1. PICK m \in (IF cache[k] = NoEntry /\ Cardinality(Others(k)) = GwCap THEN Others(k) ELSE {k}) :
        cache' = [[cache EXCEPT ![m] = NoEntry] EXCEPT ![k] = val]
  BY DEF Fill
<1>2. /\ reqs[r].at = "fill" /\ Becomes(r, Found(q, val)) /\ UNCHANGED <<row, state, op, snap>>
      /\ excuse' = IF val = row[k] /\ Filling(k) = {r} THEN [excuse EXCEPT ![k] = {}] ELSE excuse
  BY DEF Fill
<1>3. /\ reqs[r] \in Request /\ RequestFits(reqs[r]) /\ FillFits(reqs[r]) /\ k \in CacheKeys
  BY DEF GwInv, GwTyped, RequestsFit, Request
<1>4. val \in Fits(k) /\ (val = row[k] \/ k \in op.drop \/ excuse[k] # {}) /\ val \in Values /\ val # NoEntry
  BY <1>2, <1>3, ValueFacts DEF FillFits
<1>5. /\ q \in Request /\ q.at = "fill" /\ q.key = k /\ q.ver = reqs[r].ver /\ q.sent = reqs[r].sent
      /\ q.off = reqs[r].off /\ q.via = reqs[r].via
  BY <1>2, <1>3, KeyFacts DEF Request, Values
<1>6. q.at # "done" /\ RequestFits(q) /\ KeyFits(q)
  BY <1>2, <1>3, <1>5 DEF RequestFits, OffFits, KeyFits
<1>7. m \in CacheKeys
  BY <1>3 DEF Others
<1>8. TablesFit'
  BY <1>1, <1>3, <1>4, FillKeepsCap
<1> HIDE DEF q
<1>9. /\ Found(q, val) \in Request /\ RequestFits(Found(q, val)) /\ Found(q, val).at # "fill"
  BY <1>4, <1>5, <1>6, FoundFits
<1>10. /\ reqs' \in [GwRequests -> Request]
       /\ \A x \in GwRequests : reqs'[x] = IF x = r THEN Found(q, val) ELSE reqs[x]
  BY <1>2, <1>9 DEF GwInv, GwTyped, Becomes
<1>11. /\ cache' \in [CacheKeys -> Values \cup {NoEntry}]
       /\ \A x \in CacheKeys : cache'[x] = IF x = k THEN val ELSE IF x = m THEN NoEntry ELSE cache[x]
  BY <1>1, <1>3, <1>4, <1>7 DEF GwInv, GwTyped
<1>12. /\ excuse' \in [CacheKeys -> SUBSET {"not_wrapped", "overlap", "error"}]
       /\ \A x \in CacheKeys : x # k => excuse'[x] = excuse[x]
       /\ ~(val = row[k] /\ Filling(k) = {r}) => excuse' = excuse
  BY <1>2, <1>3 DEF GwInv, GwTyped
<1> HIDE DEF k, val
<1>13. GwTyped'
  BY <1>2, <1>4, <1>10, <1>11, <1>12 DEF GwInv, GwTyped
<1>14. StaleHasExcuse'
  <2> SUFFICES ASSUME NEW x \in CacheKeys, cache'[x] \notin {NoEntry, row[x]}
               PROVE  x \in op.drop \/ excuse'[x] # {}
    BY <1>2 DEF StaleHasExcuse
  <2>1. CASE x = k
    BY <1>4, <1>11, <1>12, <2>1
  <2>2. CASE x # k
    BY <1>11, <1>12, <2>2 DEF GwInv, StaleHasExcuse
  <2> QED
    BY <2>1, <2>2
<1>15. RequestsFit'
  <2> SUFFICES ASSUME NEW x \in GwRequests
               PROVE  (RequestFits(reqs[x]) /\ FillFits(reqs[x]))'
    BY DEF RequestsFit
  <2>1. RequestFits(reqs'[x])
    BY <1>9, <1>10 DEF GwInv, RequestsFit
  <2>2. RequestFits(reqs[x])'
    BY <1>2, <2>1 DEF RequestFits, OffFits, KeyFits, Archived
  <2>3. FillFits(reqs[x])'
    <3>1. CASE x = r
      BY <1>9, <1>10, <3>1 DEF FillFits
    <3>2. CASE x # r
      <4>1. reqs'[x] = reqs[x] /\ FillFits(reqs[x]) /\ reqs[x].key \in CacheKeys
        BY <1>10, <3>2 DEF GwInv, GwTyped, RequestsFit, Request
      <4>2. reqs[x].at = "fill" => excuse'[reqs[x].key] = excuse[reqs[x].key]
        BY <1>12, <3>2, <4>1 DEF Filling
      <4> QED
        BY <1>2, <4>1, <4>2 DEF FillFits
    <3> QED
      BY <3>1, <3>2
  <2> QED
    BY <2>2, <2>3
<1>16. OpFits' /\ SleepersOff' /\ ProdAwake'
  BY <1>2 DEF GwInv, OpFits, SleepersOff, Asleep, ProdAwake, Archived
<1> QED
  BY <1>8, <1>13, <1>14, <1>15, <1>16 DEF GwInv

LEMMA ReadFailsInv ==
  ASSUME GwInv, NEW r \in GwRequests, ReadFails(r)
  PROVE  GwInv'
<1> DEFINE q == reqs[r]
           k == q.key
           p == [q EXCEPT !.at = "fill", !.val = "none"]
<1>1. /\ q \in Request /\ RequestFits(q) /\ k \in CacheKeys /\ q.at = "read" /\ UNCHANGED <<row, state, cache, op, snap>>
  BY DEF GwInv, GwTyped, RequestsFit, Request, ReadFails
<1>2. CASE Becomes(r, Served(q)) /\ UNCHANGED excuse
  BY <1>1, <1>2, ServedFits, RequestMoves
<1>3. CASE Becomes(r, p) /\ excuse' = [excuse EXCEPT ![k] = @ \cup {"error"}]
  <2>1. /\ p \in Request /\ p.at = "fill" /\ p.key = k /\ p.ver = q.ver
        /\ p.sent = q.sent /\ p.off = q.off /\ p.val = "none"
    BY <1>1, KeyFacts, ValueFacts DEF Request, Steps, Values
  <2>2. /\ excuse' \in [CacheKeys -> SUBSET {"not_wrapped", "overlap", "error"}]
        /\ \A x \in CacheKeys : excuse[x] \subseteq excuse'[x]
        /\ excuse'[k] # {}
    BY <1>1, <1>3 DEF GwInv, GwTyped
  <2> HIDE DEF p
  <2>3. RequestFits(p)
    BY <1>1, <2>1 DEF RequestFits, OffFits, KeyFits
  <2>4. /\ reqs' \in [GwRequests -> Request] /\ \A x \in GwRequests : reqs'[x] = IF x = r THEN p ELSE reqs[x]
    BY <1>3, <2>1 DEF GwInv, GwTyped, Becomes
  <2>5. GwTyped' /\ StaleHasExcuse' /\ TablesFit'
    <3>1. GwTyped'
      BY <1>1, <2>2, <2>4 DEF GwInv, GwTyped
    <3>2. StaleHasExcuse'
      BY <1>1, <2>2 DEF GwInv, StaleHasExcuse
    <3>3. TablesFit'
      BY <1>1 DEF GwInv, TablesFit, Held
    <3> QED
      BY <3>1, <3>2, <3>3
  <2>6. RequestsFit'
    <3> SUFFICES ASSUME NEW x \in GwRequests
                 PROVE  (RequestFits(reqs[x]) /\ FillFits(reqs[x]))'
      BY DEF RequestsFit
    <3>1. RequestFits(reqs'[x])
      BY <2>3, <2>4 DEF GwInv, RequestsFit
    <3>2. RequestFits(reqs[x])'
      BY <1>1, <3>1 DEF RequestFits, OffFits, KeyFits, Archived
    <3>3. FillFits(reqs[x])'
      <4>1. CASE x = r
        <5>1. "none" \in Fits(k)
          BY <1>1, ValueFacts
        <5> QED
          BY <2>1, <2>2, <2>4, <4>1, <5>1 DEF FillFits
      <4>2. CASE x # r
        <5>1. reqs'[x] = reqs[x] /\ FillFits(reqs[x]) /\ reqs[x].key \in CacheKeys
          BY <2>4, <4>2 DEF GwInv, GwTyped, RequestsFit, Request
        <5> QED
          BY <1>1, <2>2, <5>1 DEF FillFits
      <4> QED
        BY <4>1, <4>2
    <3> QED
      BY <3>2, <3>3
  <2>7. OpFits' /\ SleepersOff' /\ ProdAwake'
    BY <1>1 DEF GwInv, OpFits, SleepersOff, Asleep, ProdAwake, Archived
  <2> QED
    BY <2>5, <2>6, <2>7 DEF GwInv
<1> QED
  BY <1>2, <1>3 DEF ReadFails

-----------------------------------------------------------------------------
(* The operations.                                                           *)

Kinds == {"none", "deploy", "undo", "promote", "archive", "wake", "destroy"}

Operation == [kind : Kinds, v : GwVersions \cup {"none"}, todo : Seq(GoodWrites), drop : SUBSET CacheKeys]

LEMMA NoOperationFacts ==
  /\ NoOperation \in Operation /\ NoOperation.kind = "none" /\ NoOperation.v = "none"
  /\ NoOperation.todo = <<>> /\ NoOperation.drop = {}
<1>1. <<>> \in Seq(GoodWrites)
  BY ShortSeqs
<1> QED
  BY <1>1 DEF NoOperation, Operation, Kinds

LEMMA InvalidateInv ==
  ASSUME GwInv, NEW k \in CacheKeys, Invalidate(k)
  PROVE  GwInv'
<1>1. /\ k \in op.drop /\ cache' = [cache EXCEPT ![k] = NoEntry] /\ UNCHANGED <<row, state, snap, reqs>>
      /\ op' = IF op.drop = {k} /\ op.todo = <<>> THEN NoOperation ELSE [op EXCEPT !.drop = @ \ {k}]
      /\ excuse' = [excuse EXCEPT ![k] = IF Filling(k) = {} THEN {} ELSE {"overlap"}]
  BY DEF Invalidate
<1>2. op \in Operation
  BY DEF GwInv, GwTyped, Operation, Kinds
<1>3. op' \in Operation /\ op'.drop = op.drop \ {k}
      /\ \/ op' = NoOperation /\ op.todo = <<>>
         \/ op'.kind = op.kind /\ op'.v = op.v /\ op'.todo = op.todo
  <2>1. CASE op.drop = {k} /\ op.todo = <<>>
    BY <1>1, <2>1, NoOperationFacts
  <2>2. CASE ~(op.drop = {k} /\ op.todo = <<>>)
    BY <1>1, <1>2, <2>2 DEF Operation
  <2> QED
    BY <2>1, <2>2
<1>4. TablesFit' /\ cache' \in [CacheKeys -> Values \cup {NoEntry}]
      /\ \A m \in CacheKeys : cache'[m] = IF m = k THEN NoEntry ELSE cache[m]
  BY <1>1, DropMakesRoom
<1>5. /\ excuse' \in [CacheKeys -> SUBSET {"not_wrapped", "overlap", "error"}]
      /\ \A x \in CacheKeys : x # k => excuse'[x] = excuse[x]
      /\ Filling(k) # {} => excuse'[k] # {}
  BY <1>1 DEF GwInv, GwTyped
<1>6. GwTyped'
  BY <1>1, <1>3, <1>4, <1>5 DEF GwInv, GwTyped, Operation, Kinds
<1>7. StaleHasExcuse'
  <2> SUFFICES ASSUME NEW x \in CacheKeys, cache'[x] \notin {NoEntry, row[x]}
               PROVE  x \in op'.drop \/ excuse'[x] # {}
    BY <1>1 DEF StaleHasExcuse
  <2> QED
    BY <1>3, <1>4, <1>5 DEF GwInv, StaleHasExcuse
<1>8. RequestsFit'
  <2> SUFFICES ASSUME NEW x \in GwRequests
               PROVE  (RequestFits(reqs[x]) /\ FillFits(reqs[x]))'
    BY DEF RequestsFit
  <2>1. reqs'[x] = reqs[x] /\ reqs[x] \in Request /\ RequestFits(reqs[x]) /\ FillFits(reqs[x])
    BY <1>1 DEF GwInv, GwTyped, RequestsFit
  <2>2. RequestFits(reqs[x])'
    BY <1>1, <1>3, <2>1 DEF RequestFits, OffFits, KeyFits, Archived
  <2>3. FillFits(reqs[x])'
    <3>1. CASE reqs[x].at = "fill" /\ reqs[x].key = k
      <4>1. Filling(k) # {}
        BY <3>1 DEF Filling
      <4> QED
        BY <1>1, <1>5, <2>1, <3>1, <4>1 DEF FillFits
    <3>2. CASE reqs[x].at # "fill" \/ reqs[x].key # k
      <4>1. reqs[x].key \in CacheKeys
        BY <2>1 DEF Request
      <4> QED
        BY <1>1, <1>3, <1>5, <2>1, <3>2, <4>1 DEF FillFits
    <3> QED
      BY <3>1, <3>2
  <2> QED
    BY <2>2, <2>3
<1>9. OpFits'
  <2>1. CASE op' = NoOperation
    BY <2>1, NoOperationFacts DEF OpFits
  <2>2. CASE op' # NoOperation
    <3>1. op'.kind = op.kind /\ op'.v = op.v /\ op'.todo = op.todo /\ op.kind # "none" /\ op.drop # {}
      BY <1>1, <1>3, <2>2, NoOperationFacts DEF GwInv, OpFits
    <3> QED
      BY <1>1, <3>1 DEF GwInv, OpFits, Archived, DestroySteps, ArchiveSteps, Status, SetRouteOff, Write
  <2> QED
    BY <2>1, <2>2
<1>10. \A u \in GwVersions : Asleep(u)' => Asleep(u)
  <2> SUFFICES ASSUME NEW u \in GwVersions, Asleep(u)', ~Asleep(u)
               PROVE  FALSE
    OBVIOUS
  <2>1. u \in Archived /\ op.kind = "wake" /\ op.v = u /\ op.todo = <<>>
    BY <1>1, <1>3 DEF Asleep, Archived
  <2>2. PICK i \in 1 .. Len(op.todo) : TRUE
    BY <2>1 DEF GwInv, OpFits
  <2> QED
    BY <2>1, <2>2
<1>11. SleepersOff' /\ ProdAwake'
  BY <1>1, <1>3, <1>10 DEF GwInv, SleepersOff, ProdAwake, Archived
<1> QED
  BY <1>4, <1>6, <1>7, <1>8, <1>9, <1>11 DEF GwInv

\* An operation that begins, and one that turns to undoing what it has done.
LEMMA OpStarts ==
  ASSUME GwInv, NEW o \in Operation, op' = o, op.drop = {}, o.drop = {},
         UNCHANGED <<row, state, cache, snap, reqs, excuse>>,
         OpFits', op.kind # "wake"
  PROVE  GwInv'
<1>1. GwTyped' /\ TablesFit' /\ StaleHasExcuse' /\ ProdAwake'
  <2>1. GwTyped'
    BY DEF GwInv, GwTyped, Operation, Kinds
  <2>2. TablesFit' /\ StaleHasExcuse' /\ ProdAwake'
    BY DEF GwInv, TablesFit, Held, StaleHasExcuse, ProdAwake, Archived
  <2> QED
    BY <2>1, <2>2
<1>2. SleepersOff'
  <2> SUFFICES ASSUME NEW u \in GwVersions, Asleep(u)'
               PROVE  row[R(u)] # "on"
    BY DEF SleepersOff
  <2>1. Asleep(u)
    BY DEF Asleep
  <2> QED
    BY <2>1 DEF GwInv, SleepersOff
<1>3. RequestsFit'
  <2> SUFFICES ASSUME NEW x \in GwRequests
               PROVE  (RequestFits(reqs[x]) /\ FillFits(reqs[x]))'
    BY DEF RequestsFit
  <2>1. reqs[x] \in Request /\ RequestFits(reqs[x]) /\ FillFits(reqs[x])
    BY DEF GwInv, GwTyped, RequestsFit
  <2> QED
    BY <2>1 DEF RequestFits, FillFits, OffFits, KeyFits, Archived
<1> QED
  BY <1>1, <1>2, <1>3 DEF GwInv

LEMMA BeginOpInv ==
  ASSUME GwInv, NEW v \in GwVersions, BeginOp(v)
  PROVE  GwInv'
<1>1. PICK kind \in Kinds \ {"none", "undo"}, steps \in {DeploySteps(v), PromoteSteps(v), ArchiveSteps(v), WakeSteps(v), DestroySteps(v)} :
        /\ Begin(kind, v, steps)
        /\ \/ kind = "deploy" /\ steps = DeploySteps(v) /\ v \notin Archived
           \/ kind = "promote" /\ steps = PromoteSteps(v) /\ v \notin Archived
           \/ kind = "archive" /\ steps = ArchiveSteps(v) /\ v \notin Archived /\ row[PROD] # v
           \/ kind = "wake" /\ steps = WakeSteps(v)
           \/ kind = "destroy" /\ steps = DestroySteps(v)
  BY DEF BeginOp, Kinds, Archived
<1> DEFINE o == [kind |-> kind, v |-> v, todo |-> steps, drop |-> {}]
<1>2. op = NoOperation /\ op' = o /\ UNCHANGED <<row, state, cache, snap, reqs, excuse>>
  BY <1>1 DEF Begin
<1>3. o.kind = kind /\ o.v = v /\ o.todo = steps /\ o.drop = {}
  OBVIOUS
<1>4. Archived \in SUBSET GwVersions /\ row[PROD] \in (GwVersions \ Archived) \cup {"none"}
  BY KeyFacts, ValueFacts DEF GwInv, GwTyped, ProdAwake, Archived
<1>5. kind \in {"deploy", "promote"} => steps \in Seq(CalmWrites(v, Archived))
  BY <1>1, <1>4, OperationsCalm
<1>6. steps \in Seq(GoodWrites)
  BY <1>1, <1>5, WakeCalm, CalmIsGood, WakeIsGood, ArchiveGood
<1>7. o \in Operation
  BY <1>1, <1>6 DEF Operation, Kinds
<1> HIDE DEF o
<1>8. Archived' = Archived
  BY <1>2 DEF Archived
<1>9. OpFits'
  <2>1. CASE kind \in {"deploy", "promote"}
    BY <1>1, <1>2, <1>3, <1>5, <1>8, <2>1 DEF OpFits
  <2>2. CASE kind = "archive"
    <3>1. steps = ArchiveSteps(v) /\ v \notin Archived /\ row[PROD] # v
      BY <1>1, <2>2
    <3>2. op'.kind = "archive" /\ op'.v = v /\ op'.todo = ArchiveSteps(op'.v) /\ op'.drop = {}
      BY <1>2, <1>3, <2>2, <3>1
    <3>3. op'.v \notin Archived' /\ row'[PROD] # op'.v
      BY <1>2, <1>8, <3>1, <3>2
    <3> QED
      BY <3>2, <3>3 DEF OpFits, ArchiveSteps, Status, SetRouteOff, Write
  <2>3. CASE kind = "wake"
    <3>1. steps = WakeSteps(v)
      BY <1>1, <2>3
    <3>2. op'.kind = "wake" /\ op'.v = v /\ op'.todo = WakeSteps(v)
      BY <1>2, <1>3, <2>3, <3>1
    <3>3. /\ op'.todo \in Seq(WakeWrites(op'.v))
          /\ \E i \in 1 .. Len(op'.todo) : op'.todo[i].status = <<op'.v, "ready">>
      BY <3>2, WakeCalm
    <3> QED
      BY <3>2, <3>3 DEF OpFits
  <2>4. CASE kind = "destroy"
    <3>1. steps = DestroySteps(v)
      BY <1>1, <2>4
    <3> QED
      BY <1>2, <1>3, <2>4, <3>1 DEF OpFits, DestroySteps, Status, SetRouteOff, Write
  <2> QED
    BY <1>1, <2>1, <2>2, <2>3, <2>4
<1> QED
  BY <1>2, <1>3, <1>7, <1>9, NoOperationFacts, OpStarts

LEMMA DeployFailsInv ==
  ASSUME GwInv, DeployFails
  PROVE  GwInv'
<1> DEFINE v == op.v
           o == [op EXCEPT !.kind = "undo", !.todo = FailSteps(v)]
<1>1. /\ op.kind = "deploy" /\ op.drop = {} /\ op' = o /\ UNCHANGED <<row, state, cache, snap, reqs, excuse>>
  BY DEF DeployFails
<1>2. op \in Operation /\ v \in GwVersions /\ v \notin Archived
  BY <1>1 DEF GwInv, GwTyped, Operation, Kinds, OpFits
<1>3. Archived \in SUBSET GwVersions /\ row[PROD] \in (GwVersions \ Archived) \cup {"none"}
  BY KeyFacts, ValueFacts DEF GwInv, GwTyped, ProdAwake, Archived
<1>4. FailSteps(v) \in Seq(CalmWrites(v, Archived))
  BY <1>2, <1>3, OperationsCalm
<1>5. FailSteps(v) \in Seq(GoodWrites)
  BY <1>4, CalmIsGood
<1>6. o \in Operation /\ o.kind = "undo" /\ o.v = v /\ o.todo = FailSteps(v) /\ o.drop = {}
  BY <1>1, <1>2, <1>5 DEF Operation, Kinds
<1> HIDE DEF o, v
<1>7. Archived' = Archived
  BY <1>1 DEF Archived
<1>8. OpFits'
  BY <1>1, <1>2, <1>4, <1>6, <1>7 DEF OpFits
<1> QED
  BY <1>1, <1>6, <1>8, OpStarts

-----------------------------------------------------------------------------
(* The next write of an operation.                                           *)

NextWrite == Head(op.todo)

RowsAfter(w) ==
  \A k \in CacheKeys : row'[k] # row[k] => <<k, row'[k]>> \in w.rows /\ (w.past \/ k \in w.drop)

StateAfter(w) ==
  /\ w.status = <<>> => state' = state
  /\ w.status # <<>> => state' = [state EXCEPT ![w.status[1]] = w.status[2]]

\* What a commit does to the operation, the rows and the states.
LEMMA CommitFacts ==
  ASSUME GwInv, GwCommit
  PROVE  /\ op \in Operation /\ op.kind # "none" /\ op.v \in GwVersions
         /\ op.todo # <<>> /\ op.drop = {} /\ NextWrite \in GoodWrites
         /\ op' \in Operation /\ op'.drop = NextWrite.drop
         /\ \/ op' = NoOperation /\ Len(op.todo) = 1
            \/ op' # NoOperation /\ op'.kind = op.kind /\ op'.v = op.v /\ op'.todo = Tail(op.todo)
         /\ row' \in [CacheKeys -> Values]
         /\ RowsAfter(NextWrite) /\ \A k \in CacheKeys : row'[k] \in Fits(k)
         /\ StateAfter(NextWrite)
<1>1. /\ op.todo # <<>> /\ op.drop = {} /\ row' = NewRows(NextWrite.rows)
      /\ op' = IF Len(op.todo) = 1 /\ NextWrite.drop = {} THEN NoOperation ELSE [op EXCEPT !.todo = Tail(@), !.drop = NextWrite.drop]
      /\ state' = IF NextWrite.status = <<>> THEN state ELSE [state EXCEPT ![NextWrite.status[1]] = NextWrite.status[2]]
  BY DEF GwCommit, NextWrite
<1>2. op \in Operation /\ op.todo \in Seq(GoodWrites)
  BY DEF GwInv, GwTyped, Operation, Kinds
<1>3. op.kind # "none" /\ op.v \in GwVersions
  BY <1>1, NoOperationFacts DEF GwInv, OpFits
<1>4. NextWrite \in GoodWrites /\ Tail(op.todo) \in Seq(GoodWrites)
  BY <1>1, <1>2, HeadTailProperties DEF NextWrite
<1>5. NextWrite.drop \in SUBSET CacheKeys /\ NextWrite.rows \in SUBSET (CacheKeys \X Values)
      /\ \A p \in NextWrite.rows : p[2] \in Fits(p[1]) /\ (NextWrite.past \/ p[1] \in NextWrite.drop)
  BY <1>4 DEF GoodWrites
<1>6. /\ op' \in Operation /\ op'.drop = NextWrite.drop
      /\ \/ op' = NoOperation /\ Len(op.todo) = 1
         \/ op' # NoOperation /\ op'.kind = op.kind /\ op'.v = op.v /\ op'.todo = Tail(op.todo)
  <2>1. CASE Len(op.todo) = 1 /\ NextWrite.drop = {}
    BY <1>1, <2>1, NoOperationFacts
  <2>2. CASE ~(Len(op.todo) = 1 /\ NextWrite.drop = {})
    <3>1. op' = [op EXCEPT !.todo = Tail(@), !.drop = NextWrite.drop]
      BY <1>1, <2>2
    <3>2. op' \in Operation /\ op'.kind = op.kind /\ op'.v = op.v /\ op'.todo = Tail(op.todo) /\ op'.drop = NextWrite.drop
      BY <1>2, <1>4, <1>5, <3>1 DEF Operation
    <3> QED
      BY <1>3, <3>2, NoOperationFacts
  <2> QED
    BY <2>1, <2>2
<1>7. ASSUME NEW k \in CacheKeys
      PROVE  row'[k] = row[k] \/ \E p \in NextWrite.rows : p[1] = k /\ p[2] = row'[k]
  <2>1. row'[k] = IF \E p \in NextWrite.rows : p[1] = k THEN (CHOOSE p \in NextWrite.rows : p[1] = k)[2] ELSE row[k]
    BY <1>1 DEF NewRows
  <2>2. CASE \E p \in NextWrite.rows : p[1] = k
    <3> DEFINE c == CHOOSE p \in NextWrite.rows : p[1] = k
    <3>1. c \in NextWrite.rows /\ c[1] = k
      BY <2>2
    <3>2. row'[k] = c[2]
      BY <2>1, <2>2
    <3> QED
      BY <3>1, <3>2
  <2> QED
    BY <2>1, <2>2
<1>8. ASSUME NEW k \in CacheKeys
      PROVE  /\ row'[k] \in Fits(k)
             /\ row'[k] # row[k] => <<k, row'[k]>> \in NextWrite.rows /\ (NextWrite.past \/ k \in NextWrite.drop)
  <2>1. CASE row'[k] = row[k]
    BY <2>1 DEF GwInv, GwTyped
  <2>2. CASE row'[k] # row[k]
    <3>1. PICK p \in NextWrite.rows : p[1] = k /\ p[2] = row'[k]
      BY <1>7, <2>2
    <3>2. p = <<k, row'[k]>>
      BY <1>5, <3>1
    <3> QED
      BY <1>5, <3>1, <3>2
  <2> QED
    BY <2>1, <2>2
<1>9. row' \in [CacheKeys -> Values]
  <2>1. row' = [k \in CacheKeys |-> row'[k]]
    BY <1>1 DEF NewRows
  <2> QED
    BY <1>8, <2>1, ValueFacts
<1>10. StateAfter(NextWrite)
  BY <1>1 DEF StateAfter
<1>11. RowsAfter(NextWrite)
  BY <1>8 DEF RowsAfter
<1> QED
  BY <1>1, <1>2, <1>3, <1>4, <1>6, <1>8, <1>9, <1>10, <1>11

\* A write that is calm wakes or leaves alone what it finds archived.
LEMMA CalmCommit ==
  ASSUME GwInv, GwCommit, NEW S \in SUBSET GwVersions, NextWrite \in CalmWrites(op.v, S)
  PROVE  /\ Archived' \subseteq Archived /\ Archived \ {op.v} \subseteq Archived'
         /\ op.v \notin Archived => op.v \notin Archived'
         /\ \A u \in S : (row'[R(u)] = "on" => row[R(u)] = "on") /\ R(u) \notin op'.drop
         /\ row'[PROD] \in S => row'[PROD] = row[PROD]
<1>1. /\ NextWrite.status = <<>> \/ (NextWrite.status[1] = op.v /\ NextWrite.status[2] # "archived")
      /\ \A u \in S : R(u) \notin NextWrite.drop /\ <<R(u), "on">> \notin NextWrite.rows /\ <<PROD, u>> \notin NextWrite.rows
  BY DEF CalmWrites
<1>2. /\ op.v \in GwVersions /\ op'.drop = NextWrite.drop
      /\ StateAfter(NextWrite) /\ RowsAfter(NextWrite)
  BY CommitFacts
<1>3. state \in [GwVersions -> Statuses]
  BY DEF GwInv, GwTyped
<1>4. /\ Archived' \subseteq Archived /\ Archived \ {op.v} \subseteq Archived'
      /\ op.v \notin Archived => op.v \notin Archived'
  BY <1>1, <1>2, <1>3 DEF Archived, StateAfter
<1>5. \A u \in S : R(u) \in CacheKeys
  BY KeyFacts
<1>6. PROD \in CacheKeys
  BY KeyFacts
<1> QED
  BY <1>1, <1>2, <1>4, <1>5, <1>6 DEF RowsAfter

\* An operation on a version that is not archived.
LEMMA CalmOpCommits ==
  ASSUME GwInv, GwCommit, op.kind \in {"deploy", "undo", "promote", "destroy"},
         op.v \notin Archived, op.todo \in Seq(CalmWrites(op.v, Archived))
  PROVE  OpFits' /\ SleepersOff' /\ ProdAwake'
<1> DEFINE C == CalmWrites(op.v, Archived)
<1>1. op.todo # <<>>
  BY DEF GwCommit
<1>2. NextWrite \in C /\ Tail(op.todo) \in Seq(C)
  BY <1>1, HeadTailProperties DEF NextWrite
<1>3. Archived \in SUBSET GwVersions
  BY DEF Archived
<1>4. /\ Archived' = Archived
      /\ \A u \in Archived : (row'[R(u)] = "on" => row[R(u)] = "on") /\ R(u) \notin op'.drop
      /\ row'[PROD] \in Archived => row'[PROD] = row[PROD]
  BY <1>2, <1>3, CalmCommit
<1>5. /\ op.v \in GwVersions
      /\ \/ op' = NoOperation
         \/ op' # NoOperation /\ op'.kind = op.kind /\ op'.v = op.v /\ op'.todo = Tail(op.todo)
  BY CommitFacts
<1>6. OpFits'
  <2>1. CASE op' = NoOperation
    BY <2>1, NoOperationFacts DEF OpFits
  <2>2. CASE op' # NoOperation
    BY <1>2, <1>4, <1>5, <2>2 DEF OpFits
  <2> QED
    BY <2>1, <2>2
<1>7. SleepersOff'
  <2> SUFFICES ASSUME NEW u \in GwVersions, Asleep(u)'
               PROVE  (row[R(u)] # "on" /\ R(u) \notin op.drop)'
    BY DEF SleepersOff
  <2>1. u \in Archived
    BY <1>4 DEF Asleep, Archived
  <2>2. Asleep(u)
    BY <2>1 DEF Asleep, Archived
  <2> QED
    BY <1>4, <2>1, <2>2 DEF GwInv, SleepersOff
<1>8. ProdAwake'
  BY <1>4 DEF GwInv, ProdAwake
<1> QED
  BY <1>6, <1>7, <1>8

LEMMA WakeCommits ==
  ASSUME GwInv, GwCommit, op.kind = "wake"
  PROVE  OpFits' /\ SleepersOff' /\ ProdAwake'
<1> DEFINE v == op.v
           S == GwVersions \ {v}
<1>1. op.todo # <<>>
  BY DEF GwCommit
<1>2. op.todo \in Seq(WakeWrites(v)) /\ (v \in Archived => \E i \in 1 .. Len(op.todo) : op.todo[i].status = <<v, "ready">>)
  BY DEF GwInv, OpFits
<1>3. /\ NextWrite \in WakeWrites(v) /\ Tail(op.todo) \in Seq(WakeWrites(v)) /\ Len(Tail(op.todo)) = Len(op.todo) - 1
      /\ \A i \in 1 .. Len(Tail(op.todo)) : Tail(op.todo)[i] = op.todo[i + 1]
      /\ Len(op.todo) \in Nat
  BY <1>1, <1>2, HeadTailProperties, LenProperties DEF NextWrite
<1>4. NextWrite \in CalmWrites(v, S) /\ \A p \in NextWrite.rows : p[1] # PROD
  BY <1>3 DEF WakeWrites
<1>5. /\ Archived' \subseteq Archived /\ Archived \ {v} \subseteq Archived'
      /\ \A u \in S : (row'[R(u)] = "on" => row[R(u)] = "on") /\ R(u) \notin op'.drop
  BY <1>4, CalmCommit
<1>6. /\ v \in GwVersions /\ PROD \in CacheKeys
      /\ \/ op' = NoOperation /\ Len(op.todo) = 1
         \/ op' # NoOperation /\ op'.kind = "wake" /\ op'.v = v /\ op'.todo = Tail(op.todo)
      /\ StateAfter(NextWrite) /\ RowsAfter(NextWrite)
  BY CommitFacts, KeyFacts
<1>7. NextWrite.status = <<v, "ready">> => v \notin Archived'
  <2>1. ASSUME NextWrite.status = <<v, "ready">>
        PROVE  state' = [state EXCEPT ![v] = "ready"]
    <3>1. NextWrite.status # <<>> /\ NextWrite.status[1] = v /\ NextWrite.status[2] = "ready"
      BY <2>1, PairNotEmpty
    <3>2. StateAfter(NextWrite)
      BY CommitFacts
    <3> QED
      BY <3>1, <3>2 DEF StateAfter
  <2> QED
    BY <1>6, <2>1 DEF Archived, GwInv, GwTyped
<1>8. v \in Archived' => \E i \in 1 .. Len(Tail(op.todo)) : Tail(op.todo)[i].status = <<v, "ready">>
  <2> SUFFICES ASSUME v \in Archived'
               PROVE  \E i \in 1 .. Len(Tail(op.todo)) : Tail(op.todo)[i].status = <<v, "ready">>
    OBVIOUS
  <2>1. PICK i \in 1 .. Len(op.todo) : op.todo[i].status = <<v, "ready">>
    BY <1>2, <1>5
  <2>2. i # 1
    <3>1. NextWrite = op.todo[1]
      BY <1>1, <1>2 DEF NextWrite
    <3> QED
      BY <1>7, <2>1, <3>1
  <2>3. i - 1 \in 1 .. Len(Tail(op.todo)) /\ (i - 1) + 1 = i
    BY <1>3, <2>1, <2>2
  <2> QED
    BY <1>3, <2>1, <2>3
<1>9. op' = NoOperation => v \notin Archived'
  <2> SUFFICES ASSUME op' = NoOperation, v \in Archived'
               PROVE  FALSE
    OBVIOUS
  <2>1. Len(Tail(op.todo)) = 0
    BY <1>3, <1>6
  <2> QED
    BY <1>8, <2>1
<1> HIDE DEF v
<1>10. OpFits'
  <2>1. CASE op' = NoOperation
    BY <2>1, NoOperationFacts DEF OpFits
  <2>2. CASE op' # NoOperation
    BY <1>3, <1>6, <1>8, <2>2 DEF OpFits
  <2> QED
    BY <2>1, <2>2
<1>11. SleepersOff'
  <2> SUFFICES ASSUME NEW u \in GwVersions, Asleep(u)'
               PROVE  (row[R(u)] # "on" /\ R(u) \notin op.drop)'
    BY DEF SleepersOff
  <2>1. u \in Archived'
    BY DEF Asleep, Archived
  <2>2. u # v
    BY <1>6, <1>9, <2>1 DEF Asleep
  <2>3. Asleep(u) /\ u \in S
    BY <1>5, <2>1, <2>2 DEF Asleep, Archived, v
  <2> QED
    BY <1>5, <2>3 DEF GwInv, SleepersOff
<1>12. ProdAwake'
  <2>1. row'[PROD] = row[PROD]
    <3>1. row'[PROD] # row[PROD] => <<PROD, row'[PROD]>> \in NextWrite.rows
      BY <1>6 DEF RowsAfter
    <3> QED
      BY <1>4, <3>1
  <2> QED
    BY <1>5, <2>1 DEF GwInv, ProdAwake
<1> QED
  BY <1>10, <1>11, <1>12

\* A write that only records a state.
LEMMA StatusCommits ==
  ASSUME GwInv, GwCommit, NEW st, NextWrite = Status(op.v, st)
  PROVE  /\ row'[PROD] = row[PROD] /\ (\A u \in GwVersions : row'[R(u)] = row[R(u)]) /\ op'.drop = {}
         /\ Archived' = IF st = "archived" THEN Archived \cup {op.v} ELSE Archived \ {op.v}
<1>1. NextWrite.rows = {} /\ NextWrite.drop = {} /\ NextWrite.status = <<op.v, st>>
  BY WriteFacts
<1>2. op.v \in GwVersions /\ op'.drop = NextWrite.drop /\ StateAfter(NextWrite) /\ RowsAfter(NextWrite)
  BY CommitFacts
<1>3. \A k \in CacheKeys : row'[k] = row[k]
  BY <1>1, <1>2 DEF RowsAfter
<1>4. state' = [state EXCEPT ![op.v] = st]
  <2>1. NextWrite.status # <<>> /\ NextWrite.status[1] = op.v /\ NextWrite.status[2] = st
    BY <1>1, PairNotEmpty
  <2> QED
    BY <1>2, <2>1 DEF StateAfter
<1>5. state \in [GwVersions -> Statuses]
  BY DEF GwInv, GwTyped
<1>6. Archived' = IF st = "archived" THEN Archived \cup {op.v} ELSE Archived \ {op.v}
  BY <1>2, <1>4, <1>5 DEF Archived
<1> QED
  BY <1>1, <1>2, <1>3, <1>6, KeyFacts

\* What an operation of another kind than wake leaves asleep was asleep, or is its version.
LEMMA SleepersStay ==
  ASSUME GwInv, GwCommit, op.kind # "wake", Archived' \subseteq Archived \cup {op.v},
         op.v \in Archived' => row'[R(op.v)] # "on" /\ R(op.v) \notin op'.drop,
         \A u \in Archived : u # op.v => (row'[R(u)] = row[R(u)] /\ R(u) \notin op'.drop)
  PROVE  SleepersOff'
<1> SUFFICES ASSUME NEW u \in GwVersions, Asleep(u)'
             PROVE  (row[R(u)] # "on" /\ R(u) \notin op.drop)'
  BY DEF SleepersOff
<1>1. u \in Archived'
  BY DEF Asleep, Archived
<1>2. CASE u # op.v
  <2>1. u \in Archived
    BY <1>1, <1>2
  <2>2. Asleep(u)
    BY <2>1 DEF Asleep, Archived
  <2> QED
    BY <1>2, <2>1, <2>2 DEF GwInv, SleepersOff
<1> QED
  BY <1>1, <1>2

LEMMA DestroyStarts ==
  ASSUME GwInv, GwCommit, op.kind = "destroy", op.todo = DestroySteps(op.v)
  PROVE  OpFits' /\ SleepersOff' /\ ProdAwake'
<1> DEFINE v == op.v
<1>1. op.todo = <<Status(v, "draining"), SetRouteOff(v), Status(v, "destroyed")>>
  BY DEF DestroySteps
<1>2. /\ NextWrite = Status(v, "draining") /\ Tail(op.todo) = <<SetRouteOff(v), Status(v, "destroyed")>>
      /\ Len(op.todo) # 1
  BY <1>1, TailFacts DEF NextWrite
<1>3. v \in GwVersions /\ op' # NoOperation /\ op'.kind = "destroy" /\ op'.v = v /\ op'.todo = Tail(op.todo)
  BY <1>2, CommitFacts
<1>4. /\ row'[PROD] = row[PROD] /\ (\A u \in GwVersions : row'[R(u)] = row[R(u)]) /\ op'.drop = {}
      /\ Archived' = Archived \ {v}
  BY <1>2, StatusCommits
<1> HIDE DEF v
<1>5. Tail(op.todo) \in Seq(CalmWrites(v, Archived'))
  <2>1. Archived' \in SUBSET GwVersions /\ v \notin Archived'
    BY <1>4 DEF Archived
  <2>2. SetRouteOff(v) \in CalmWrites(v, Archived') /\ Status(v, "destroyed") \in CalmWrites(v, Archived')
    BY <1>3, <2>1, CalmSteps DEF Statuses
  <2> QED
    BY <1>2, <2>2, ShortSeqs
<1>6. OpFits'
  BY <1>3, <1>4, <1>5 DEF OpFits
<1>7. SleepersOff'
  <2>1. \A u \in Archived : u \in GwVersions
    BY DEF Archived
  <2> QED
    BY <1>4, <2>1, SleepersStay DEF v
<1>8. ProdAwake'
  BY <1>4 DEF GwInv, ProdAwake
<1> QED
  BY <1>6, <1>7, <1>8

LEMMA ArchiveCommits ==
  ASSUME GwInv, GwCommit, op.kind = "archive"
  PROVE  OpFits' /\ SleepersOff' /\ ProdAwake'
<1> DEFINE v == op.v
<1>1. /\ v \notin Archived /\ row[PROD] # v
      /\ \/ op.todo = ArchiveSteps(v)
         \/ op.todo = <<SetRouteOff(v), Status(v, "archived")>>
         \/ op.todo = <<Status(v, "archived")>> /\ row[R(v)] # "on"
  BY DEF GwInv, OpFits
<1>2. /\ v \in GwVersions /\ op'.drop = NextWrite.drop /\ RowsAfter(NextWrite) /\ StateAfter(NextWrite)
      /\ \/ op' = NoOperation /\ Len(op.todo) = 1
         \/ op' # NoOperation /\ op'.kind = "archive" /\ op'.v = v /\ op'.todo = Tail(op.todo)
  BY CommitFacts
<1>3. \A u \in Archived : u \in GwVersions
  BY DEF Archived
<1> HIDE DEF v
<1>4. CASE op.todo = ArchiveSteps(v)
  <2>1. op.todo = <<Status(v, "draining"), SetRouteOff(v), Status(v, "archived")>>
    BY <1>4 DEF ArchiveSteps
  <2>2. /\ NextWrite = Status(v, "draining") /\ Tail(op.todo) = <<SetRouteOff(v), Status(v, "archived")>>
        /\ Len(op.todo) # 1
    BY <2>1, TailFacts DEF NextWrite
  <2>3. /\ row'[PROD] = row[PROD] /\ (\A u \in GwVersions : row'[R(u)] = row[R(u)]) /\ op'.drop = {}
        /\ Archived' = Archived \ {v}
    BY <2>2, StatusCommits DEF v
  <2>4. OpFits'
    BY <1>1, <1>2, <2>2, <2>3 DEF OpFits
  <2>5. SleepersOff'
    BY <1>3, <2>3, SleepersStay DEF v
  <2>6. ProdAwake'
    BY <2>3 DEF GwInv, ProdAwake
  <2> QED
    BY <2>4, <2>5, <2>6
<1>5. CASE op.todo = <<SetRouteOff(v), Status(v, "archived")>>
  <2>1. /\ NextWrite = SetRouteOff(v) /\ Tail(op.todo) = <<Status(v, "archived")>> /\ Len(op.todo) # 1
    BY <1>5, TailFacts DEF NextWrite
  <2>2. /\ NextWrite.rows = {<<R(v), "off">>} /\ NextWrite.drop = {R(v)} /\ NextWrite.status = <<>>
    BY <2>1, WriteFacts DEF SetRouteOff
  <2>3. Archived' = Archived
    BY <1>2, <2>2 DEF StateAfter, Archived
  <2>4. \A k \in CacheKeys : row'[k] # row[k] => k = R(v) /\ row'[k] = "off"
    BY <1>2, <2>2 DEF RowsAfter
  <2>5. /\ row'[PROD] = row[PROD] /\ row'[R(v)] \in {row[R(v)], "off"}
        /\ \A u \in GwVersions : u # v => row'[R(u)] = row[R(u)] /\ R(u) \notin op'.drop
    BY <1>2, <2>2, <2>4, KeyFacts
  <2>6. op'.kind = "archive" /\ op'.v = v /\ op'.todo = <<Status(v, "archived")>>
    BY <1>2, <2>1
  <2>7. row'[R(v)] # "on"
    <3>1. R(v) \in CacheKeys /\ <<R(v), "off">> \in NextWrite.rows /\ row' = NewRows(NextWrite.rows)
      BY <1>2, <2>2, KeyFacts DEF GwCommit, NextWrite
    <3>2. row'[R(v)] = (CHOOSE p \in NextWrite.rows : p[1] = R(v))[2]
      BY <2>2, <3>1 DEF NewRows
    <3>3. (CHOOSE p \in NextWrite.rows : p[1] = R(v)) = <<R(v), "off">>
      BY <2>2
    <3>4. row'[R(v)] = <<R(v), "off">>[2]
      BY <3>2, <3>3
    <3> QED
      BY <3>4
  <2>8. OpFits'
    <3>1. op'.v \in GwVersions /\ op'.v \notin Archived' /\ row'[PROD] # op'.v /\ row'[R(op'.v)] # "on"
      BY <1>1, <1>2, <2>3, <2>5, <2>6, <2>7
    <3>2. op'.todo = <<Status(op'.v, "archived")>>
      BY <2>6
    <3> QED
      BY <2>6, <3>1, <3>2 DEF OpFits
  <2>9. SleepersOff'
    BY <1>1, <1>3, <2>3, <2>5, SleepersStay DEF v
  <2>10. ProdAwake'
    BY <2>3, <2>5 DEF GwInv, ProdAwake
  <2> QED
    BY <2>8, <2>9, <2>10
<1>6. CASE op.todo = <<Status(v, "archived")>> /\ row[R(v)] # "on"
  <2>1. NextWrite = Status(v, "archived") /\ Len(op.todo) = 1
    BY <1>6, TailFacts DEF NextWrite
  <2>2. /\ row'[PROD] = row[PROD] /\ (\A u \in GwVersions : row'[R(u)] = row[R(u)]) /\ op'.drop = {}
        /\ Archived' = Archived \cup {v}
    BY <2>1, StatusCommits DEF v
  <2>3. op' = NoOperation
    <3>1. NextWrite.drop = {}
      BY <2>1, WriteFacts
    <3> QED
      BY <2>1, <3>1 DEF GwCommit, NextWrite
  <2>4. OpFits'
    BY <2>3, NoOperationFacts DEF OpFits
  <2>5. SleepersOff'
    BY <1>2, <1>3, <1>6, <2>2, SleepersStay DEF v
  <2>6. ProdAwake'
    BY <1>1, <2>2 DEF GwInv, ProdAwake
  <2> QED
    BY <2>4, <2>5, <2>6
<1> QED
  BY <1>1, <1>4, <1>5, <1>6 DEF v

LEMMA CommitInv ==
  ASSUME GwInv, GwCommit
  PROVE  GwInv'
<1>1. OpFits' /\ SleepersOff' /\ ProdAwake'
  <2>1. op.kind \in Kinds /\ op.kind # "none"
    BY CommitFacts DEF Operation
  <2>2. CASE op.kind \in {"deploy", "undo", "promote"}
    BY <2>2, CalmOpCommits DEF GwInv, OpFits
  <2>3. CASE op.kind = "destroy"
    BY <2>3, CalmOpCommits, DestroyStarts DEF GwInv, OpFits
  <2> QED
    BY <2>1, <2>2, <2>3, ArchiveCommits, WakeCommits DEF Kinds
<1>2. /\ op' \in Operation /\ row' \in [CacheKeys -> Values] /\ op.drop = {} /\ op'.drop = NextWrite.drop
      /\ RowsAfter(NextWrite) /\ StateAfter(NextWrite) /\ NextWrite \in GoodWrites
      /\ \A k \in CacheKeys : row'[k] \in Fits(k)
  BY CommitFacts
<1>3. /\ excuse' = [k \in CacheKeys |->
                      IF row'[k] # row[k] /\ NextWrite.past THEN excuse[k] \cup {"not_wrapped"} ELSE excuse[k]]
      /\ reqs' = [r \in GwRequests |-> [reqs[r] EXCEPT !.off = {v \in @ : Asleep(v)'}]]
      /\ UNCHANGED <<cache, snap>>
  BY DEF GwCommit, NextWrite
<1>4. \A r \in GwRequests : reqs[r] \in Request
  BY DEF GwInv, GwTyped
<1>5. ASSUME NEW r \in GwRequests
      PROVE  /\ reqs'[r] \in Request /\ reqs'[r].at = reqs[r].at /\ reqs'[r].key = reqs[r].key
             /\ reqs'[r].ver = reqs[r].ver /\ reqs'[r].val = reqs[r].val /\ reqs'[r].sent = reqs[r].sent
             /\ reqs'[r].via = reqs[r].via /\ reqs'[r].off = {v \in reqs[r].off : Asleep(v)'}
  <2> DEFINE off == {v \in reqs[r].off : Asleep(v)'}
  <2>1. reqs[r] \in Request /\ off \in SUBSET GwVersions
    BY <1>4 DEF Request
  <2>2. reqs'[r] = [reqs[r] EXCEPT !.off = off]
    BY <1>3
  <2> HIDE DEF off
  <2>3. /\ reqs'[r] \in Request /\ reqs'[r].at = reqs[r].at /\ reqs'[r].key = reqs[r].key
        /\ reqs'[r].ver = reqs[r].ver /\ reqs'[r].val = reqs[r].val /\ reqs'[r].sent = reqs[r].sent
        /\ reqs'[r].via = reqs[r].via /\ reqs'[r].off = off
    BY <2>1, <2>2 DEF Request
  <2> QED
    BY <2>3 DEF off
<1>6. state' \in [GwVersions -> Statuses]
  <2>1. state \in [GwVersions -> Statuses]
    BY DEF GwInv, GwTyped
  <2>2. NextWrite.status = <<>> \/ NextWrite.status \in GwVersions \X Statuses
    BY <1>2 DEF GoodWrites
  <2>3. CASE NextWrite.status = <<>>
    BY <1>2, <2>1, <2>3 DEF StateAfter
  <2>4. CASE NextWrite.status # <<>>
    <3>1. NextWrite.status[1] \in GwVersions /\ NextWrite.status[2] \in Statuses
      BY <2>2, <2>4
    <3>2. state' = [state EXCEPT ![NextWrite.status[1]] = NextWrite.status[2]]
      BY <1>2, <2>4 DEF StateAfter
    <3> QED
      BY <2>1, <3>1, <3>2
  <2> QED
    BY <2>3, <2>4
<1>7. /\ excuse' \in [CacheKeys -> SUBSET {"not_wrapped", "overlap", "error"}]
      /\ \A k \in CacheKeys : excuse[k] \subseteq excuse'[k]
      /\ \A k \in CacheKeys : row'[k] # row[k] => k \in op'.drop \/ excuse'[k] # {}
  <2>1. excuse \in [CacheKeys -> SUBSET {"not_wrapped", "overlap", "error"}]
    BY DEF GwInv, GwTyped
  <2>2. /\ excuse' \in [CacheKeys -> SUBSET {"not_wrapped", "overlap", "error"}]
        /\ \A k \in CacheKeys : excuse[k] \subseteq excuse'[k]
    BY <1>3, <2>1
  <2>3. ASSUME NEW k \in CacheKeys, row'[k] # row[k]
        PROVE  k \in op'.drop \/ excuse'[k] # {}
    <3>1. NextWrite.past \/ k \in op'.drop
      BY <1>2, <2>3 DEF RowsAfter
    <3>2. CASE NextWrite.past
      BY <1>3, <2>3, <3>2
    <3> QED
      BY <3>1, <3>2
  <2> QED
    BY <2>2, <2>3
<1>8. GwTyped'
  <2>1. reqs' \in [GwRequests -> Request]
    BY <1>3, <1>5
  <2> QED
    BY <1>2, <1>3, <1>6, <1>7, <2>1 DEF GwInv, GwTyped, Operation, Kinds
<1>9. TablesFit'
  BY <1>3 DEF GwInv, TablesFit, Held
<1>10. StaleHasExcuse'
  <2> SUFFICES ASSUME NEW k \in CacheKeys, cache'[k] \notin {NoEntry, row'[k]}
               PROVE  k \in op'.drop \/ excuse'[k] # {}
    BY DEF StaleHasExcuse
  <2> QED
    BY <1>2, <1>3, <1>7 DEF GwInv, StaleHasExcuse
<1>11. RequestsFit'
  <2> SUFFICES ASSUME NEW r \in GwRequests
               PROVE  (RequestFits(reqs[r]) /\ FillFits(reqs[r]))'
    BY DEF RequestsFit
  <2>1. RequestFits(reqs[r]) /\ FillFits(reqs[r])
    BY DEF GwInv, RequestsFit
  <2>2. OffFits(reqs[r])'
    <3>1. \A u \in reqs'[r].off : u \in GwVersions /\ Asleep(u)'
      BY <1>4, <1>5 DEF Request
    <3> QED
      BY <1>1, <3>1 DEF OffFits, SleepersOff, Asleep, Archived
  <2>3. RequestFits(reqs[r])'
    <3>1. reqs'[r].off \subseteq reqs[r].off
      BY <1>5
    <3> QED
      BY <1>5, <2>1, <2>2, <3>1 DEF RequestFits, KeyFits
  <2>4. FillFits(reqs[r])'
    <3>1. reqs[r].key \in CacheKeys
      BY <1>4 DEF Request
    <3> QED
      BY <1>2, <1>5, <1>7, <2>1, <3>1 DEF FillFits
  <2> QED
    BY <2>3, <2>4
<1> QED
  BY <1>1, <1>8, <1>9, <1>10, <1>11 DEF GwInv

-----------------------------------------------------------------------------
LEMMA NextInv == GwInv /\ [GwNext]_gwVars => GwInv'
<1> SUFFICES ASSUME GwInv, [GwNext]_gwVars
             PROVE  GwInv'
  OBVIOUS
<1>1. CASE \E v \in GwVersions : BeginOp(v) \/ SnapMoves(v)
  BY <1>1, BeginOpInv, SnapMovesInv
<1>2. CASE DeployFails \/ GwCommit
  BY <1>2, DeployFailsInv, CommitInv
<1>3. CASE \E k \in CacheKeys : Invalidate(k) \/ Expire(k)
  BY <1>3, InvalidateInv, ExpireInv
<1>4. ASSUME NEW r \in GwRequests,
             \/ \E h \in Hosts : GwArrive(r, h)
             \/ LookHits(r) \/ LookMisses(r) \/ ReadRow(r) \/ ReadFails(r) \/ Fill(r)
             \/ ReadStatus(r) \/ ReadSnapshot(r) \/ ReadAgain(r) \/ ColdWake(r) \/ Admitted(r) \/ Send(r) \/ Leave(r)
      PROVE  GwInv'
  BY <1>4, ArriveInv, LookHitsInv, LookMissesInv, ReadRowInv, ReadFailsInv, FillInv, ReadStatusInv, ColdPathInv, LeaveInv
<1>5. CASE UNCHANGED gwVars
  <2>1. UNCHANGED <<row, state, cache, op, snap, reqs, excuse>>
    BY <1>5 DEF gwVars
  <2>2. GwTyped' /\ TablesFit' /\ StaleHasExcuse' /\ SleepersOff' /\ ProdAwake'
    BY <2>1 DEF GwInv, GwTyped, TablesFit, Held, StaleHasExcuse, SleepersOff, Asleep, ProdAwake, Archived
  <2>3. OpFits' /\ RequestsFit'
    BY <2>1 DEF GwInv, OpFits, RequestsFit, RequestFits, FillFits, OffFits, KeyFits, Archived
  <2> QED
    BY <2>2, <2>3 DEF GwInv
<1> QED
  BY <1>1, <1>2, <1>3, <1>4, <1>5 DEF GwNext

LEMMA Invariance == GwSpec => []GwInv
  BY InitInv, NextInv, PTL DEF GwSpec

LEMMA InvImpliesExcused == GwInv => RoutesExcused
<1> SUFFICES ASSUME GwInv
             PROVE  RoutesExcused
  OBVIOUS
<1>1. ArchivedNotProxied
  BY DEF GwInv, RequestsFit, RequestFits, ArchivedNotProxied
<1>2. \A t \in {"prod", "route", "host"} :
        Cardinality({k \in CacheKeys : k[1] = t /\ cache[k] # NoEntry}) <= GwCap
  BY DEF GwInv, TablesFit, Held, Tables
<1>3. \A r \in GwRequests : reqs[r].sent <= 1
  <2>1. \A r \in GwRequests : reqs[r].sent \in {0, 1}
    BY DEF GwInv, GwTyped, Request
  <2> QED
    BY <2>1
<1>4. GwTypeOK
  BY <1>2, <1>3 DEF GwInv, GwTyped, GwTypeOK
<1> QED
  BY <1>1, <1>4 DEF GwInv, RoutesExcused

(* An entry of the gateway's cache differs from its row only while its       *)
(* invalidation is on the way or for a reason that is known, and a version    *)
(* that has slept since the request came is not proxied to: for any number   *)
(* of versions, requests, operations and failed reads, any size of the cache. *)
THEOREM RoutesCorrect == GwSpec => []RoutesExcused
  BY Invariance, InvImpliesExcused, PTL
=============================================================================
