--------------------------- MODULE GatewayMemory_proofs ---------------------------
(***************************************************************************)
(* Proofs about what a gateway keeps in memory.                              *)
(*                                                                         *)
(* RouteSnapshot: for any number of versions, of pollers and of revisions,   *)
(* the copy a gateway routes by is what the registry would publish at its    *)
(* revision.                                                                 *)
(*                                                                         *)
(* Activator: for any number of requests and versions and any limits, the    *)
(* budget, the slots and the flights fit together.  A sum over the versions  *)
(* or the requests is the cardinality of the set of its units; what a step   *)
(* adds to it or takes from it is one pair per unit (TotalMore, TotalLess).  *)
(***************************************************************************)
EXTENDS RouteSnapshot, Activator, TLAPS, FiniteSetTheorems

Endpoint == [v : SnVersions, until : Times]

Rows == [status : {"deploy_ready", "ready"}, until : Times, route : BOOLEAN]

Polls == [at : {"rest", "compare", "build", "apply"}, rev : Nat, last : Nat, eps : SUBSET Endpoint]

Waits == [at : {"qualify", "poll", "look", "build", "again", "done", "gave up"}, rev : Nat]

\* SnTypeOK with the fields it leaves open.
Typed ==
    /\ clock \in 1 .. MaxClock /\ rev \in 0 .. MaxRev /\ cordon \in BOOLEAN
    /\ table \in [SnVersions -> Rows]
    /\ held \in [rev : 0 .. rev, eps : SUBSET Endpoint]
    /\ poll \in [Pollers -> Polls]
    /\ wait \in Waits

\* What a set of endpoints owes the tables when it carries their revision.
Faithful(r, eps) ==
    r = rev =>
        /\ PublicSets \subseteq Live(eps)
        /\ ~cordon => Live(eps) = PublicSets

\* A build waits to be applied while the tables change under it: it stays true
\* to the revision it was made at, as the copy does.
BuildsCurrent ==
    \A p \in Pollers :
        poll[p].at = "apply" => poll[p].rev \in 0 .. rev /\ Faithful(poll[p].rev, poll[p].eps)

SnInv == Typed /\ Faithful(held.rev, held.eps) /\ BuildsCurrent

-----------------------------------------------------------------------------
\* The invariant holds at first.
LEMMA CopyInitially == SnInit => SnInv
<1> SUFFICES ASSUME SnInit PROVE SnInv
  OBVIOUS
<1>1. Typed
  <2> MaxClock \in Nat \ {0} /\ EndpointTtl \in Nat /\ MaxRev \in Nat
    BY SnAssumption
  <2>1. 0 \in Times
    BY DEF Times
  <2>2. NoPoll \in Polls
    BY DEF NoPoll, Polls
  <2>3. clock \in 1 .. MaxClock /\ rev \in 0 .. MaxRev
    BY DEF SnInit
  <2>4. cordon \in BOOLEAN
    BY DEF SnInit
  <2>5. table \in [SnVersions -> Rows]
    <3>1. ASSUME NEW v \in SnVersions PROVE table[v] \in Rows
      BY <2>1 DEF SnInit, Rows
    <3>2. QED BY <3>1 DEF SnInit
  <2>6. held \in [rev : 0 .. rev, eps : SUBSET Endpoint]
    BY DEF SnInit
  <2>7. poll \in [Pollers -> Polls] /\ wait \in Waits
    BY <2>2 DEF SnInit, Waits
  <2>8. QED BY <2>3, <2>4, <2>5, <2>6, <2>7 DEF Typed
<1>2. PublicSets = {}
  BY DEF SnInit, PublicSets, Published, Routable
<1>3. Faithful(held.rev, held.eps)
  BY <1>2 DEF SnInit, Faithful, Live
<1>4. BuildsCurrent
  BY DEF SnInit, BuildsCurrent, NoPoll
<1>5. QED BY <1>1, <1>3, <1>4 DEF SnInv

\* It implies the property the runs check.
LEMMA CopySuffices == SnInv => CopyCurrent
<1> SUFFICES ASSUME SnInv PROVE CopyCurrent
  OBVIOUS
<1>1. SnTypeOK
  BY DEF SnInv, Typed, SnTypeOK, Rows, Endpoint, Polls, Waits
<1>2. HeldIsCurrent
  BY DEF SnInv, Faithful, HeldIsCurrent
<1>3. QED BY <1>1, <1>2 DEF CopyCurrent

\* A build has the type of a copy.
LEMMA PublicTyped == ASSUME Typed PROVE PublicSets \subseteq Endpoint
<1>1. 0 \in Times
  BY SnAssumption DEF Times
<1>2. ASSUME NEW v \in SnVersions PROVE table[v].until \in Times
  BY DEF Typed, Rows
<1>3. QED BY <1>1, <1>2 DEF PublicSets, Ep, Endpoint

\* A build read in one transaction is faithful to the revision it read.
LEMMA BuildFaithful == ASSUME Typed PROVE Live(PublicSets) = PublicSets
<1>1. ASSUME NEW v \in SnVersions, Published(v), v \in SnElastic
      PROVE  table[v].until > clock
  BY <1>1 DEF Published, Routable
<1>2. ASSUME NEW e \in PublicSets, e.v \in SnElastic PROVE e.until > clock
  BY <1>1, <1>2 DEF PublicSets, Ep
<1>3. QED BY <1>2 DEF Live

-----------------------------------------------------------------------------
\* A write of the tables that moves the revision: whatever was built before is of
\* an earlier one.
LEMMA RevisionMoves ==
  ASSUME SnInv, Bump, table' \in [SnVersions -> Rows], wait' \in Waits,
         UNCHANGED <<clock, cordon, held, poll>>
  PROVE  SnInv'
<1>1. rev' = rev + 1 /\ rev' \in 0 .. MaxRev /\ held.rev \in 0 .. rev /\ rev \in Nat
  BY SnAssumption DEF SnInv, Typed, Bump
<1>2. Typed'
  BY <1>1 DEF SnInv, Typed
<1>3. Faithful(held.rev, held.eps)'
  BY <1>1 DEF Faithful
<1>4. BuildsCurrent'
  <2> SUFFICES ASSUME NEW p \in Pollers, poll[p].at = "apply"
               PROVE  poll[p].rev \in 0 .. rev' /\ poll[p].rev # rev'
    BY DEF BuildsCurrent, Faithful
  <2> QED BY <1>1 DEF SnInv, BuildsCurrent
<1>5. QED BY <1>2, <1>3, <1>4 DEF SnInv

LEMMA TableStepKeeps == ASSUME SnInv, NEW v \in SnVersions, TableStep(v) PROVE SnInv'
<1>1. clock + EndpointTtl \in Times /\ 0 \in Times
  BY SnAssumption DEF SnInv, Typed, Times
<1>2. table[v] \in Rows
  BY DEF SnInv, Typed
<1>3. \E row \in Rows : table' = [table EXCEPT ![v] = row] /\ Bump /\ TablesOnly
  <2>1. CASE EndpointAppears(v)
    <3>1. [table[v] EXCEPT !.until = clock + EndpointTtl] \in Rows
      BY <1>1, <1>2 DEF Rows
    <3>2. QED BY <2>1, <3>1 DEF EndpointAppears
  <2>2. CASE EndpointRenewed(v)
    <3>1. [table[v] EXCEPT !.until = clock + EndpointTtl] \in Rows
      BY <1>1, <1>2 DEF Rows
    <3>2. QED BY <2>2, <3>1 DEF EndpointRenewed
  <2>3. CASE EndpointLeaves(v)
    <3>1. [table[v] EXCEPT !.until = 0] \in Rows
      BY <1>1, <1>2 DEF Rows
    <3>2. QED BY <2>3, <3>1 DEF EndpointLeaves
  <2>4. CASE StatusMoves(v)
    <3>1. [table[v] EXCEPT !.status = IF @ = "ready" THEN "deploy_ready" ELSE "ready"] \in Rows
      BY <1>2 DEF Rows
    <3>2. QED BY <2>4, <3>1 DEF StatusMoves
  <2>5. CASE RouteSwitched(v)
    <3>1. [table[v] EXCEPT !.route = ~@] \in Rows
      BY <1>2 DEF Rows
    <3>2. QED BY <2>5, <3>1 DEF RouteSwitched
  <2>6. QED BY <2>1, <2>2, <2>3, <2>4, <2>5 DEF TableStep
<1>4. table' \in [SnVersions -> Rows]
  BY <1>3 DEF SnInv, Typed
<1>5. wait' \in Waits
  BY <1>3 DEF SnInv, Typed, TablesOnly
<1>6. QED BY <1>3, <1>4, <1>5, RevisionMoves DEF TablesOnly

\* A tick and a cordon take routes away without moving the revision.  What goes
\* with a tick goes from every copy; a cordon excuses what stays.
LEMMA RoutesEnd ==
  ASSUME SnInv, UNCHANGED <<table, rev>>,
         \/ clock' = clock + 1 /\ cordon' = cordon
         \/ clock' = clock /\ cordon' = TRUE
  PROVE  \A r, eps : eps \subseteq Endpoint /\ Faithful(r, eps) => Faithful(r, eps)'
<1> SUFFICES ASSUME NEW r, NEW eps, eps \subseteq Endpoint, Faithful(r, eps), r = rev
             PROVE  /\ PublicSets' \subseteq Live(eps)'
                    /\ ~cordon' => Live(eps)' = PublicSets'
  BY DEF Faithful
<1>1. PublicSets \subseteq Live(eps) /\ (~cordon => Live(eps) = PublicSets)
  BY DEF Faithful
<1>2. clock \in Nat /\ clock' \in Nat /\ clock <= clock'
  BY DEF SnInv, Typed
<1>3. ASSUME NEW v \in SnVersions
      PROVE  /\ table[v].until \in Nat
             /\ Published(v)' => Published(v)
             /\ v \in SnElastic /\ Published(v)' => table[v].until > clock'
             /\ ~cordon' /\ Published(v) /\ (v \in SnElastic => table[v].until > clock') => Published(v)'
  BY <1>2, SnAssumption DEF SnInv, Typed, Rows, Times, Published, Routable
<1>4. ASSUME NEW e \in PublicSets' PROVE e \in Live(eps)'
  <2>1. PICK v \in SnVersions : Published(v)' /\ e = Ep(v, IF v \in SnElastic THEN table[v].until ELSE 0)
    BY <1>4 DEF PublicSets
  <2>2. e \in Live(eps)
    BY <2>1, <1>3, <1>1 DEF PublicSets
  <2>3. QED BY <2>1, <2>2, <1>3 DEF Live, Ep
<1>5. ASSUME ~cordon', NEW e \in Live(eps)' PROVE e \in PublicSets'
  <2>1. ~cordon
    BY <1>5, SnAssumption DEF SnInv, Typed
  <2>2. e \in Endpoint /\ (e.v \in SnElastic => e.until > clock')
    BY <1>5 DEF Live
  <2>3. e.until \in Nat
    BY <2>2, SnAssumption DEF Endpoint, Times
  <2>4. e \in Live(eps)
    BY <1>5, <1>2, <2>2, <2>3 DEF Live
  <2>5. PICK v \in SnVersions : Published(v) /\ e = Ep(v, IF v \in SnElastic THEN table[v].until ELSE 0)
    BY <2>1, <2>4, <1>1 DEF PublicSets
  <2>6. Published(v)'
    BY <2>5, <2>2, <1>3, <1>5 DEF Ep
  <2>7. QED BY <2>5, <2>6 DEF PublicSets
<1>6. QED BY <1>4, <1>5

LEMMA RoutesEndKeeps ==
  ASSUME SnInv, UNCHANGED <<table, rev, held, poll, wait>>, clock' \in 1 .. MaxClock,
         \/ clock' = clock + 1 /\ cordon' = cordon
         \/ clock' = clock /\ cordon' = TRUE
  PROVE  SnInv'
<1>1. Typed'
  BY DEF SnInv, Typed
<1>2. held.eps \subseteq Endpoint /\ \A p \in Pollers : poll[p].eps \subseteq Endpoint
  BY DEF SnInv, Typed, Polls
<1>3. Faithful(held.rev, held.eps)'
  BY <1>2, RoutesEnd DEF SnInv, Faithful
<1>4. BuildsCurrent'
  <2> SUFFICES ASSUME NEW p \in Pollers, poll[p].at = "apply"
               PROVE  poll[p].rev \in 0 .. rev /\ Faithful(poll[p].rev, poll[p].eps)'
    BY DEF BuildsCurrent, Faithful
  <2> DEFINE r == poll[p].rev
             eps == poll[p].eps
  <2>1. r \in 0 .. rev /\ Faithful(r, eps)
    BY DEF SnInv, BuildsCurrent
  <2>2. QED BY <2>1, <1>2, RoutesEnd DEF Faithful
<1>5. QED BY <1>1, <1>3, <1>4 DEF SnInv

-----------------------------------------------------------------------------
\* A poller moves, and the copy becomes what it was or what the poller built.
LEMMA PollMoves ==
  ASSUME SnInv, NEW p \in Pollers, NEW q \in Polls, SetPoll(p, q), wait' \in Waits,
         UNCHANGED <<clock, table, cordon, rev>>,
         q.at = "apply" => q.rev \in 0 .. rev /\ Faithful(q.rev, q.eps),
         \/ held' = held
         \/ poll[p].at = "apply" /\ held' = [rev |-> poll[p].rev, eps |-> poll[p].eps]
  PROVE  SnInv'
<1>1. PublicSets' = PublicSets
  BY DEF PublicSets, Published, Routable
<1>2. \A r, eps : Faithful(r, eps) => (r = rev' =>
          /\ PublicSets' \subseteq Live(eps)'
          /\ ~cordon' => Live(eps)' = PublicSets')
  BY <1>1 DEF Faithful, Live
<1>3. poll[p] \in Polls /\ (poll[p].at = "apply" =>
          poll[p].rev \in 0 .. rev /\ Faithful(poll[p].rev, poll[p].eps))
  BY DEF SnInv, Typed, BuildsCurrent
<1>4. held' \in [rev : 0 .. rev, eps : SUBSET Endpoint] /\ Faithful(held'.rev, held'.eps)
  BY <1>3 DEF SnInv, Typed, Polls
<1>5. poll' \in [Pollers -> Polls] /\ poll'[p] = q /\ \A o \in Pollers \ {p} : poll'[o] = poll[o]
  BY DEF SnInv, Typed, SetPoll
<1>6. Typed'
  BY <1>4, <1>5 DEF SnInv, Typed
<1>7. Faithful(held.rev, held.eps)'
  BY <1>4, <1>2 DEF Faithful
<1>8. BuildsCurrent'
  <2> SUFFICES ASSUME NEW o \in Pollers, poll'[o].at = "apply"
               PROVE  poll'[o].rev \in 0 .. rev' /\ Faithful(poll[o].rev, poll[o].eps)'
    BY DEF BuildsCurrent
  <2>1. poll'[o].rev \in 0 .. rev /\ Faithful(poll'[o].rev, poll'[o].eps)
    BY <1>5 DEF SnInv, BuildsCurrent
  <2>2. QED BY <2>1, <1>2 DEF Faithful
<1>9. QED BY <1>6, <1>7, <1>8 DEF SnInv

LEMMA PollOverKeeps ==
  ASSUME SnInv, NEW p \in Pollers, PollOver(p), UNCHANGED <<clock, table, cordon, rev>>,
         \/ held' = held
         \/ poll[p].at = "apply" /\ held' = [rev |-> poll[p].rev, eps |-> poll[p].eps]
  PROVE  SnInv'
<1>1. NoPoll \in Polls /\ NoPoll.at # "apply"
  BY DEF NoPoll, Polls
<1>2. SetPoll(p, NoPoll) /\ wait' \in Waits
  BY DEF PollOver, SnInv, Typed, Waits
<1>3. QED BY <1>1, <1>2, PollMoves

LEMMA PollStepKeeps == ASSUME SnInv, NEW p \in Pollers, PollStep(p) \/ PollFails(p) PROVE SnInv'
<1> rev \in Nat /\ held.rev \in Nat /\ poll[p] \in Polls /\ wait \in Waits
  BY SnAssumption DEF SnInv, Typed
<1>1. CASE PollReads(p)
  <2>1. [NoPoll EXCEPT !.at = "compare", !.rev = rev] \in Polls
    BY DEF NoPoll, Polls
  <2>2. QED BY <1>1, <2>1, PollMoves DEF PollReads, NoPoll
<1>2. CASE PollCompares(p)
  <2>1. CASE poll[p].rev <= held.rev
    BY <1>2, <2>1, PollOverKeeps DEF PollCompares
  <2>2. CASE ~(poll[p].rev <= held.rev)
    <3> DEFINE q == [poll[p] EXCEPT !.at = "build", !.last = held.rev]
    <3>1. q \in Polls /\ q.at # "apply"
      BY DEF Polls
    <3>2. SetPoll(p, q) /\ UNCHANGED <<clock, table, cordon, rev, held, wait>>
      BY <1>2, <2>2 DEF PollCompares
    <3>3. QED BY <3>1, <3>2, PollMoves
  <2>3. QED BY <2>1, <2>2
<1>3. CASE PollBuilds(p)
  <2> DEFINE q == [poll[p] EXCEPT !.at = "apply", !.rev = rev, !.eps = PublicSets]
  <2>1. PublicSets \subseteq Endpoint /\ Live(PublicSets) = PublicSets
    BY PublicTyped, BuildFaithful DEF SnInv
  <2>2. q \in Polls /\ q.rev = rev /\ q.eps = PublicSets
    BY <2>1 DEF Polls
  <2>3. q.rev \in 0 .. rev /\ Faithful(q.rev, q.eps)
    BY <2>1, <2>2 DEF Faithful
  <2>4. QED BY <1>3, <2>2, <2>3, PollMoves DEF PollBuilds
<1>4. CASE PollApplies(p)
  BY <1>4, PollOverKeeps DEF PollApplies
<1>5. CASE PollFails(p)
  BY <1>5, PollOverKeeps DEF PollFails
<1>6. QED BY <1>1, <1>2, <1>3, <1>4, <1>5 DEF PollStep

-----------------------------------------------------------------------------
LEMMA WaitKeeps ==
  ASSUME SnInv, wait' \in Waits, UNCHANGED <<clock, table, cordon, rev, held, poll>>
  PROVE  SnInv'
<1>1. PublicSets' = PublicSets
  BY DEF PublicSets, Published, Routable
<1>2. QED BY <1>1 DEF SnInv, Typed, Faithful, BuildsCurrent, Live

\* Every step keeps it.
LEMMA SnInvStep == ASSUME SnInv, [SnNext]_snVars PROVE SnInv'
<1> rev \in Nat /\ wait \in Waits /\ clock \in Nat
  BY SnAssumption DEF SnInv, Typed
<1>1. ASSUME NEW v \in SnVersions, TableStep(v) PROVE SnInv'
  BY <1>1, TableStepKeeps
<1>2. CASE Cordoned
  BY <1>2, RoutesEndKeeps DEF Cordoned, SnInv, Typed
<1>3. CASE SnTick
  <2>1. clock' \in 1 .. MaxClock
    BY <1>3, SnAssumption DEF SnTick
  <2>2. QED BY <1>3, <2>1, RoutesEndKeeps DEF SnTick
<1>4. ASSUME NEW p \in Pollers, PollStep(p) \/ PollFails(p) PROVE SnInv'
  BY <1>4, PollStepKeeps
<1>5. CASE QualifyEnds
  <2>1. [at |-> "poll", rev |-> rev] \in Waits
    BY DEF Waits
  <2>2. table' \in [SnVersions -> Rows]
    <3>1. [table[Fresh] EXCEPT !.status = "ready"] \in Rows
      BY SnAssumption DEF SnInv, Typed, Rows
    <3>2. QED BY <1>5, <3>1 DEF QualifyEnds, SnInv, Typed
  <2>3. QED BY <1>5, <2>1, <2>2, RevisionMoves DEF QualifyEnds, WaitsOnly
<1>6. CASE Looks \/ WaitBuilds \/ WaitGivesUp
  <2>1. wait' \in Waits /\ UNCHANGED <<clock, table, cordon, rev, held, poll>>
    BY <1>6 DEF Looks, WaitBuilds, WaitGivesUp, WaitsOnly, Waits
  <2>2. QED BY <2>1, WaitKeeps
<1>7. CASE UNCHANGED snVars
  BY <1>7, WaitKeeps DEF snVars
<1>8. QED BY <1>1, <1>2, <1>3, <1>4, <1>5, <1>6, <1>7 DEF SnNext

\* The gateway's copy is the registry's routing table of its revision, but for the
\* endpoints of a node that was cordoned since (CopyCurrent), whichever polls are
\* under way and however slow they are.
THEOREM CopyCorrect == SnSpec => []CopyCurrent
<1>1. SnSpec => []SnInv
  BY CopyInitially, SnInvStep, PTL DEF SnSpec
<1>2. QED BY <1>1, CopySuffices, PTL

-----------------------------------------------------------------------------
(* The activator: the sums of a function. *)

LEMMA UnitsOf ==
  ASSUME NEW S, NEW f \in [S -> Nat]
  PROVE  \A z : z \in Units(f) <=> \E x \in S : \E i \in 1 .. f[x] : z = <<x, i>>
  BY DEF Units

LEMMA TotalMore ==
  ASSUME NEW S, NEW f \in [S -> Nat], NEW g \in [S -> Nat], NEW x \in S, NEW n \in Nat,
         g[x] = f[x] + n, \A y \in S : y # x => g[y] = f[y], IsFiniteSet(Units(f))
  PROVE  IsFiniteSet(Units(g)) /\ Total(g) = Total(f) + n
<1> DEFINE more == {x} \X ((f[x] + 1) .. (f[x] + n))
<1>1. f[x] \in Nat /\ f[x] + n \in Nat /\ \A y \in S : f[y] \in Nat /\ g[y] \in Nat
  OBVIOUS
<1>2. Units(g) = Units(f) \cup more
  <2>1. ASSUME NEW y \in S, NEW i \in 1 .. g[y] PROVE <<y, i>> \in Units(f) \cup more
    <3>1. CASE y # x
      BY <1>1, <2>1, <3>1, UnitsOf
    <3>2. CASE y = x /\ i <= f[x]
      <4>1. i \in 1 .. f[x]
        BY <2>1, <3>2
      <4> QED BY <3>2, <4>1, UnitsOf
    <3>3. CASE y = x /\ ~(i <= f[x])
      <4>1. i \in (f[x] + 1) .. (f[x] + n)
        BY <1>1, <2>1, <3>3
      <4> QED BY <3>3, <4>1
    <3> QED BY <3>1, <3>2, <3>3
  <2>2. ASSUME NEW y \in S, NEW i \in 1 .. f[y] PROVE i \in 1 .. g[y]
    BY <1>1
  <2>3. ASSUME NEW i \in (f[x] + 1) .. (f[x] + n) PROVE i \in 1 .. g[x]
    BY <1>1
  <2>4. Units(g) \subseteq Units(f) \cup more
    BY <2>1, UnitsOf
  <2>5. Units(f) \subseteq Units(g)
    BY <2>2, UnitsOf
  <2>6. more \subseteq Units(g)
    BY <2>3, UnitsOf
  <2> QED BY <2>4, <2>5, <2>6
<1>3. Units(f) \cap more = {}
  <2>1. ASSUME NEW z \in Units(f), z \in more PROVE FALSE
    <3>0. PICK y \in S : \E k \in 1 .. f[y] : z = <<y, k>>
      BY UnitsOf
    <3>1. PICK i \in 1 .. f[y] : z = <<y, i>>
      BY <3>0
    <3>2. PICK j \in (f[x] + 1) .. (f[x] + n) : z = <<x, j>>
      BY <2>1
    <3>3. y = x /\ i = j
      BY <3>1, <3>2
    <3> QED BY <1>1, <3>3
  <2> QED BY <2>1
<1>4. IsFiniteSet(more) /\ Cardinality(more) = n
  <2>1. IsFiniteSet({x}) /\ Cardinality({x}) = 1
    BY FS_Singleton
  <2>2. IsFiniteSet((f[x] + 1) .. (f[x] + n)) /\ Cardinality((f[x] + 1) .. (f[x] + n)) = n
    <3>1. PICK a \in Int, b \in Int : a = f[x] + 1 /\ b = f[x] + n
      BY <1>1
    <3>2. IsFiniteSet(a .. b) /\ Cardinality(a .. b) = IF a > b THEN 0 ELSE b - a + 1
      BY FS_Interval
    <3>3. (IF a > b THEN 0 ELSE b - a + 1) = n
      BY <1>1, <3>1
    <3> QED BY <3>1, <3>2, <3>3
  <2>3. IsFiniteSet(more) /\ Cardinality(more) = Cardinality({x}) * Cardinality((f[x] + 1) .. (f[x] + n))
    BY <2>1, <2>2, FS_Product
  <2> QED BY <2>1, <2>2, <2>3
<1>5. /\ IsFiniteSet(Units(f) \cup more)
      /\ Cardinality(Units(f) \cup more) = Cardinality(Units(f)) + Cardinality(more) - Cardinality({})
  <2>1. PICK M : M = more
    OBVIOUS
  <2>2. IsFiniteSet(M)
    BY <1>4, <2>1
  <2>3. /\ IsFiniteSet(Units(f) \cup M)
        /\ Cardinality(Units(f) \cup M) = Cardinality(Units(f)) + Cardinality(M) - Cardinality(Units(f) \cap M)
    BY <2>2, FS_Union
  <2> QED BY <1>3, <2>1, <2>3
<1>6. Cardinality({}) = 0 /\ Cardinality(Units(f)) \in Nat
  BY FS_EmptySet, FS_CardinalityType
<1>7. Cardinality(Units(g)) = Cardinality(Units(f)) + n
  <2>1. Cardinality(Units(g)) = Cardinality(Units(f)) + n - 0
    BY <1>2, <1>4, <1>5, <1>6
  <2> QED BY <2>1, <1>6
<1> QED
  BY <1>2, <1>5, <1>7 DEF Total

LEMMA TotalAtLeast ==
  ASSUME NEW S, NEW f \in [S -> Nat], NEW x \in S, IsFiniteSet(Units(f))
  PROVE  Total(f) \in Nat /\ f[x] <= Total(f)
<1> DEFINE own == {x} \X (1 .. f[x])
<1>1. own \subseteq Units(f)
  BY DEF Units
<1>2. IsFiniteSet({x}) /\ Cardinality({x}) = 1 /\ IsFiniteSet(1 .. f[x]) /\ Cardinality(1 .. f[x]) = f[x]
  <2>1. PICK b \in Nat : b = f[x]
    OBVIOUS
  <2>2. IsFiniteSet(1 .. b) /\ Cardinality(1 .. b) = IF 1 > b THEN 0 ELSE b - 1 + 1
    BY FS_Interval
  <2>3. (IF 1 > b THEN 0 ELSE b - 1 + 1) = b
    OBVIOUS
  <2> QED BY <2>1, <2>2, <2>3, FS_Singleton
<1>3. Cardinality(own) = Cardinality({x}) * Cardinality(1 .. f[x])
  BY <1>2, FS_Product
<1>4. Cardinality(own) <= Cardinality(Units(f)) /\ Cardinality(Units(f)) \in Nat
  BY <1>1, FS_Subset, FS_CardinalityType
<1>5. Cardinality(own) = f[x]
  BY <1>2, <1>3
<1> QED
  BY <1>4, <1>5 DEF Total

LEMMA TotalLess ==
  ASSUME NEW S, NEW f \in [S -> Nat], NEW g \in [S -> Nat], NEW x \in S, NEW n \in Nat,
         f[x] = g[x] + n, \A y \in S : y # x => g[y] = f[y], IsFiniteSet(Units(f))
  PROVE  IsFiniteSet(Units(g)) /\ Total(g) = Total(f) - n /\ n <= Total(f)
<1>1. \A y \in S : f[y] \in Nat /\ g[y] \in Nat
  OBVIOUS
<1>2. ASSUME NEW y \in S, NEW i \in 1 .. g[y] PROVE i \in 1 .. f[y]
  BY <1>1
<1>3. Units(g) \subseteq Units(f)
  BY <1>2, UnitsOf
<1>4. IsFiniteSet(Units(g))
  BY <1>3, FS_Subset
<1>5. \A y \in S : y # x => f[y] = g[y]
  OBVIOUS
<1>6. Total(f) = Total(g) + n
  BY <1>4, <1>5, TotalMore
<1>7. Total(g) \in Nat
  BY <1>4, TotalAtLeast
<1> QED
  BY <1>4, <1>6, <1>7

LEMMA TotalNone ==
  ASSUME NEW S, NEW f, f = [x \in S |-> 0]
  PROVE  IsFiniteSet(Units(f)) /\ Total(f) = 0
<1>1. Units(f) = {}
  BY DEF Units
<1> QED
  BY <1>1, FS_EmptySet DEF Total

-----------------------------------------------------------------------------
(* The invariant. *)

Waiting == {"start", "wait"}

BudgetFits ==
  /\ BudgetIsWaiters
  /\ IsFiniteSet(Units(budget.ver)) /\ IsFiniteSet(Units(budget.verBytes))
  /\ \A v \in ActVersions : IsFiniteSet(Units(BytesHeld(v)))

SlotsFit == SlotsCoverFlights /\ IsFiniteSet(Units(slots.ver))

\* Only a request that found no flight reserves a slot for the one it will start.
NewKnown == \A r \in ActRequests : asks[r].new => asks[r].at \in {"acquire", "begin"}

\* A flight that returned has its result.
ResultKnown == \A k \in Keys : flights[k].at = "return" => flights[k].got # "none"

ActInv ==
  ActTypeOK /\ BudgetFits /\ SlotsFit /\ QuietHasNoFlight /\ WaiterHasFlight /\ NewKnown /\ ResultKnown

BudgetType == [all : Nat, bytes : Nat, ver : [ActVersions -> Nat], verBytes : [ActVersions -> Nat]]
SlotsType == [all : Nat, ver : [ActVersions -> Nat]]

LEMMA KeysFinite == IsFiniteSet(Keys)
<1>1. IsFiniteSet(0 .. MaxGen)
  BY ActivatorAssumption, FS_Interval
<1> QED
  BY <1>1, ActivatorAssumption, FS_Product DEF Keys

LEMMA Counted ==
  \A v : /\ IsFiniteSet(Holding(v)) /\ IsFiniteSet(HeldBy(v)) /\ IsFiniteSet(Reserving(v))
         /\ Cardinality(Holding(v)) \in Nat /\ Cardinality(HeldBy(v)) \in Nat /\ Cardinality(Reserving(v)) \in Nat
<1> SUFFICES ASSUME NEW v
             PROVE  /\ IsFiniteSet(Holding(v)) /\ IsFiniteSet(HeldBy(v)) /\ IsFiniteSet(Reserving(v))
                    /\ Cardinality(Holding(v)) \in Nat /\ Cardinality(HeldBy(v)) \in Nat
                    /\ Cardinality(Reserving(v)) \in Nat
  OBVIOUS
<1>1. Holding(v) \subseteq ActRequests /\ Reserving(v) \subseteq ActRequests /\ HeldBy(v) \subseteq Keys
  BY DEF Holding, Reserving, HeldBy, Flying
<1>2. IsFiniteSet(Holding(v)) /\ IsFiniteSet(HeldBy(v)) /\ IsFiniteSet(Reserving(v))
  BY <1>1, KeysFinite, ActivatorAssumption, FS_Subset
<1> QED
  BY <1>2, FS_CardinalityType

LEMMA CountedNext ==
  \A v : /\ IsFiniteSet(Holding(v)') /\ IsFiniteSet(HeldBy(v)') /\ IsFiniteSet(Reserving(v)')
         /\ Cardinality(Holding(v)') \in Nat /\ Cardinality(HeldBy(v)') \in Nat
         /\ Cardinality(Reserving(v)') \in Nat
<1> SUFFICES ASSUME NEW v
             PROVE  /\ IsFiniteSet(Holding(v)') /\ IsFiniteSet(HeldBy(v)') /\ IsFiniteSet(Reserving(v)')
                    /\ Cardinality(Holding(v)') \in Nat /\ Cardinality(HeldBy(v)') \in Nat
                    /\ Cardinality(Reserving(v)') \in Nat
  OBVIOUS
<1>1. Holding(v)' \subseteq ActRequests /\ Reserving(v)' \subseteq ActRequests /\ HeldBy(v)' \subseteq Keys
  BY DEF Holding, Reserving, HeldBy, Flying
<1>2. IsFiniteSet(Holding(v)') /\ IsFiniteSet(HeldBy(v)') /\ IsFiniteSet(Reserving(v)')
  BY <1>1, KeysFinite, ActivatorAssumption, FS_Subset
<1> QED
  BY <1>2, FS_CardinalityType

-----------------------------------------------------------------------------
(* The budget. *)

LEMMA BudgetKept ==
  ASSUME BudgetFits, UNCHANGED budget,
         \A r \in ActRequests :
           /\ asks'[r].at \in Waiting <=> asks[r].at \in Waiting
           /\ asks[r].at \in Waiting => asks'[r].ver = asks[r].ver /\ asks'[r].body = asks[r].body
  PROVE  BudgetFits'
<1>1. \A v : Holding(v)' = Holding(v)
  BY DEF Holding, Waiting
<1>2. \A v : BytesHeld(v)' = BytesHeld(v)
  BY <1>1 DEF BytesHeld, Holding, Waiting
<1> QED
  BY <1>1, <1>2 DEF BudgetFits, BudgetIsWaiters, Total

\* What the request r adds to the count of its version.
LEMMA HoldingChanges ==
  ASSUME ActTypeOK, NEW r \in ActRequests, NEW j \in Ask, asks' = [asks EXCEPT ![r] = j],
         NEW w \in ActVersions
  PROVE  /\ BytesHeld(w) \in [ActRequests -> Nat] /\ BytesHeld(w)' \in [ActRequests -> Nat]
         /\ \A q \in ActRequests : q # r => BytesHeld(w)'[q] = BytesHeld(w)[q]
         /\ r \in Holding(w) <=> asks[r].ver = w /\ asks[r].at \in Waiting
         /\ r \in Holding(w)' <=> j.ver = w /\ j.at \in Waiting
         /\ BytesHeld(w)[r] = IF r \in Holding(w) THEN asks[r].body ELSE 0
         /\ BytesHeld(w)'[r] = IF r \in Holding(w)' THEN j.body ELSE 0
         /\ r \in Holding(w) /\ r \notin Holding(w)' => Holding(w)' = Holding(w) \ {r}
         /\ r \notin Holding(w) /\ r \in Holding(w)' => Holding(w)' = Holding(w) \cup {r}
         /\ r \notin Holding(w) /\ r \notin Holding(w)' =>
              Holding(w)' = Holding(w) /\ BytesHeld(w)' = BytesHeld(w)
<1>1. asks' \in [ActRequests -> Ask] /\ asks'[r] = j /\ \A q \in ActRequests : q # r => asks'[q] = asks[q]
  BY DEF ActTypeOK
<1>2. asks \in [ActRequests -> Ask] /\ \A q \in ActRequests : asks[q].body \in Nat /\ asks'[q].body \in Nat
  BY <1>1 DEF ActTypeOK, Ask
<1>3. /\ r \in Holding(w) <=> asks[r].ver = w /\ asks[r].at \in Waiting
      /\ r \in Holding(w)' <=> j.ver = w /\ j.at \in Waiting
  BY <1>1 DEF Holding, Waiting
<1>4. \A q \in ActRequests : q # r => (q \in Holding(w)' <=> q \in Holding(w))
  BY <1>1 DEF Holding
<1>5. Holding(w) \subseteq ActRequests /\ Holding(w)' \subseteq ActRequests
  BY DEF Holding
<1>6. BytesHeld(w) \in [ActRequests -> Nat]
  BY <1>2 DEF BytesHeld
<1>7. BytesHeld(w)' \in [ActRequests -> Nat]
  BY <1>2 DEF BytesHeld
<1>8. /\ \A q \in ActRequests : q # r => BytesHeld(w)'[q] = BytesHeld(w)[q]
      /\ BytesHeld(w)[r] = IF r \in Holding(w) THEN asks[r].body ELSE 0
      /\ BytesHeld(w)'[r] = IF r \in Holding(w)' THEN j.body ELSE 0
  BY <1>1, <1>4 DEF BytesHeld
<1>9. /\ r \in Holding(w) /\ r \notin Holding(w)' => Holding(w)' = Holding(w) \ {r}
      /\ r \notin Holding(w) /\ r \in Holding(w)' => Holding(w)' = Holding(w) \cup {r}
      /\ r \notin Holding(w) /\ r \notin Holding(w)' => Holding(w)' = Holding(w)
  BY <1>4, <1>5
<1>10. ASSUME r \notin Holding(w), r \notin Holding(w)' PROVE BytesHeld(w)' = BytesHeld(w)
  <2>1. \A q \in ActRequests : BytesHeld(w)'[q] = BytesHeld(w)[q]
    BY <1>8, <1>10
  <2> QED
    BY <1>6, <1>7, <2>1
<1> QED
  BY <1>3, <1>6, <1>7, <1>8, <1>9, <1>10

LEMMA ReservedIs ==
  ASSUME budget \in BudgetType, NEW v \in ActVersions, NEW n \in Nat, NEW B, B = Reserved(v, n)
  PROVE  /\ B \in BudgetType
         /\ B.all = budget.all + 1 /\ B.bytes = budget.bytes + n
         /\ B.ver[v] = budget.ver[v] + 1 /\ B.verBytes[v] = budget.verBytes[v] + n
         /\ \A w \in ActVersions : w # v => B.ver[w] = budget.ver[w] /\ B.verBytes[w] = budget.verBytes[w]
<1>1. /\ budget.all \in Nat /\ budget.bytes \in Nat /\ budget.ver \in [ActVersions -> Nat]
      /\ budget.verBytes \in [ActVersions -> Nat] /\ budget.ver[v] \in Nat /\ budget.verBytes[v] \in Nat
  BY DEF BudgetType
<1>2. PICK f : f = [budget.ver EXCEPT ![v] = @ + 1]
  OBVIOUS
<1>3. PICK g : g = [budget.verBytes EXCEPT ![v] = @ + n]
  OBVIOUS
<1>4. f \in [ActVersions -> Nat] /\ f[v] = budget.ver[v] + 1 /\ \A w \in ActVersions : w # v => f[w] = budget.ver[w]
  BY <1>1, <1>2
<1>5. /\ g \in [ActVersions -> Nat] /\ g[v] = budget.verBytes[v] + n
      /\ \A w \in ActVersions : w # v => g[w] = budget.verBytes[w]
  BY <1>1, <1>3
<1>6. B.all = budget.all + 1 /\ B.bytes = budget.bytes + n /\ B.ver = f /\ B.verBytes = g
  BY <1>1, <1>2, <1>3 DEF Reserved, BudgetType
<1>7. B = [all |-> budget.all + 1, bytes |-> budget.bytes + n, ver |-> f, verBytes |-> g]
  BY <1>1, <1>2, <1>3 DEF Reserved, BudgetType
<1>8. B \in BudgetType
  BY <1>1, <1>4, <1>5, <1>7 DEF BudgetType
<1> QED
  BY <1>4, <1>5, <1>6, <1>8

LEMMA BackIs ==
  ASSUME budget \in BudgetType, NEW v \in ActVersions, NEW n \in Nat, NEW B, B = BudgetBack(v, n),
         1 <= budget.all, 1 <= budget.ver[v], n <= budget.bytes, n <= budget.verBytes[v]
  PROVE  /\ B \in BudgetType
         /\ budget.all = B.all + 1 /\ budget.bytes = B.bytes + n
         /\ budget.ver[v] = B.ver[v] + 1 /\ budget.verBytes[v] = B.verBytes[v] + n
         /\ \A w \in ActVersions : w # v => B.ver[w] = budget.ver[w] /\ B.verBytes[w] = budget.verBytes[w]
<1>1. /\ budget.all \in Nat /\ budget.bytes \in Nat /\ budget.ver \in [ActVersions -> Nat]
      /\ budget.verBytes \in [ActVersions -> Nat] /\ budget.ver[v] \in Nat /\ budget.verBytes[v] \in Nat
  BY DEF BudgetType
<1>2. ASSUME NEW a \in Nat, NEW b \in Nat, b <= a PROVE Less(a, b) \in Nat /\ a = Less(a, b) + b
  <2>1. CASE a > b
    BY <1>2, <2>1 DEF Less
  <2>2. CASE ~(a > b)
    BY <1>2, <2>2 DEF Less
  <2> QED BY <2>1, <2>2
<1>3. PICK f : f = [budget.ver EXCEPT ![v] = Less(@, 1)]
  OBVIOUS
<1>4. PICK g : g = [budget.verBytes EXCEPT ![v] = Less(@, n)]
  OBVIOUS
<1>5. /\ Less(budget.ver[v], 1) \in Nat /\ budget.ver[v] = Less(budget.ver[v], 1) + 1
      /\ Less(budget.verBytes[v], n) \in Nat /\ budget.verBytes[v] = Less(budget.verBytes[v], n) + n
      /\ Less(budget.all, 1) \in Nat /\ budget.all = Less(budget.all, 1) + 1
      /\ Less(budget.bytes, n) \in Nat /\ budget.bytes = Less(budget.bytes, n) + n
  BY <1>1, <1>2
<1>6. f \in [ActVersions -> Nat] /\ f[v] = Less(budget.ver[v], 1) /\ \A w \in ActVersions : w # v => f[w] = budget.ver[w]
  BY <1>1, <1>3, <1>5
<1>7. /\ g \in [ActVersions -> Nat] /\ g[v] = Less(budget.verBytes[v], n)
      /\ \A w \in ActVersions : w # v => g[w] = budget.verBytes[w]
  BY <1>1, <1>4, <1>5
<1>8. B.all = Less(budget.all, 1) /\ B.bytes = Less(budget.bytes, n) /\ B.ver = f /\ B.verBytes = g
  BY <1>1, <1>3, <1>4 DEF BudgetBack, BudgetType
<1>9. B = [all |-> Less(budget.all, 1), bytes |-> Less(budget.bytes, n), ver |-> f, verBytes |-> g]
  BY <1>1, <1>3, <1>4 DEF BudgetBack, BudgetType
<1>10. B \in BudgetType
  BY <1>5, <1>6, <1>7, <1>9 DEF BudgetType
<1> QED
  BY <1>5, <1>6, <1>7, <1>8, <1>10

\* A request takes a place and its bytes, where there is room for them.
LEMMA BudgetTaken ==
  ASSUME ActTypeOK, BudgetFits, NEW r \in ActRequests, NEW j \in Ask, asks' = [asks EXCEPT ![r] = j],
         asks[r].at \notin Waiting, j.at \in Waiting, Room(j.ver, j.body), budget' = Reserved(j.ver, j.body)
  PROVE  BudgetFits' /\ budget' \in BudgetType
<1>0. j.ver \in ActVersions /\ j.body \in Nat /\ budget \in BudgetType
  BY DEF Ask, ActTypeOK, BudgetType
<1>1. PICK v \in ActVersions, n \in Nat : v = j.ver /\ n = j.body
  BY <1>0
<1>2. /\ budget' \in BudgetType
      /\ budget'.all = budget.all + 1 /\ budget'.bytes = budget.bytes + n
      /\ budget'.ver[v] = budget.ver[v] + 1 /\ budget'.verBytes[v] = budget.verBytes[v] + n
      /\ \A w \in ActVersions : w # v => budget'.ver[w] = budget.ver[w] /\ budget'.verBytes[w] = budget.verBytes[w]
  BY <1>0, <1>1, ReservedIs
<1>3. /\ budget.ver \in [ActVersions -> Nat] /\ budget'.ver \in [ActVersions -> Nat]
      /\ budget.verBytes \in [ActVersions -> Nat] /\ budget'.verBytes \in [ActVersions -> Nat]
  BY <1>0, <1>2 DEF BudgetType
<1>4. /\ budget.all < WaitMax /\ budget.ver[v] < VersionWaitMax
      /\ budget.bytes + n <= BytesMax /\ budget.verBytes[v] + n <= VersionBytesMax
  BY <1>1 DEF Room
<1>5. /\ budget.all = Total(budget.ver) /\ budget.bytes = Total(budget.verBytes)
      /\ IsFiniteSet(Units(budget.ver)) /\ IsFiniteSet(Units(budget.verBytes))
      /\ \A w \in ActVersions :
           /\ budget.ver[w] = Cardinality(Holding(w)) /\ budget.ver[w] <= VersionWaitMax
           /\ budget.verBytes[w] = Total(BytesHeld(w)) /\ budget.verBytes[w] <= VersionBytesMax
           /\ IsFiniteSet(Units(BytesHeld(w)))
  BY DEF BudgetFits, BudgetIsWaiters
<1>6. IsFiniteSet(Units(budget'.ver)) /\ Total(budget'.ver) = Total(budget.ver) + 1
  <2>1. PICK f, g : f = budget.ver /\ g = budget'.ver
    OBVIOUS
  <2>2. IsFiniteSet(Units(g)) /\ Total(g) = Total(f) + 1
    BY <1>2, <1>3, <1>5, <2>1, TotalMore
  <2> QED BY <2>1, <2>2
<1>7. IsFiniteSet(Units(budget'.verBytes)) /\ Total(budget'.verBytes) = Total(budget.verBytes) + n
  <2>1. PICK f, g : f = budget.verBytes /\ g = budget'.verBytes
    OBVIOUS
  <2>2. /\ f \in [ActVersions -> Nat] /\ g \in [ActVersions -> Nat]
        /\ \A w \in ActVersions : w # v => g[w] = f[w]
        /\ g[v] = f[v] + n /\ IsFiniteSet(Units(f))
    BY <1>2, <1>3, <1>5, <2>1
  <2>3. IsFiniteSet(Units(g)) /\ Total(g) = Total(f) + n
    BY <2>2, TotalMore
  <2> QED BY <2>1, <2>3
<1>8. ASSUME NEW w \in ActVersions
      PROVE  /\ budget'.ver[w] = Cardinality(Holding(w)') /\ budget'.ver[w] <= VersionWaitMax
             /\ budget'.verBytes[w] = Total(BytesHeld(w)') /\ budget'.verBytes[w] <= VersionBytesMax
             /\ IsFiniteSet(Units(BytesHeld(w)'))
  <2>h. /\ BytesHeld(w) \in [ActRequests -> Nat] /\ BytesHeld(w)' \in [ActRequests -> Nat]
        /\ \A q \in ActRequests : q # r => BytesHeld(w)'[q] = BytesHeld(w)[q]
        /\ r \in Holding(w) <=> asks[r].ver = w /\ asks[r].at \in Waiting
        /\ r \in Holding(w)' <=> j.ver = w /\ j.at \in Waiting
        /\ BytesHeld(w)[r] = IF r \in Holding(w) THEN asks[r].body ELSE 0
        /\ BytesHeld(w)'[r] = IF r \in Holding(w)' THEN j.body ELSE 0
        /\ r \in Holding(w) /\ r \notin Holding(w)' => Holding(w)' = Holding(w) \ {r}
        /\ r \notin Holding(w) /\ r \in Holding(w)' => Holding(w)' = Holding(w) \cup {r}
        /\ r \notin Holding(w) /\ r \notin Holding(w)' =>
             Holding(w)' = Holding(w) /\ BytesHeld(w)' = BytesHeld(w)
    BY HoldingChanges
  <2>0. r \notin Holding(w)
    BY <2>h
  <2>1. CASE w # v
    <3>1. Holding(w)' = Holding(w) /\ BytesHeld(w)' = BytesHeld(w)
      BY <1>1, <2>0, <2>1, <2>h
    <3> QED BY <1>2, <1>5, <2>1, <3>1
  <2>2. CASE w = v
    <3>1. /\ r \in Holding(w)' /\ Holding(w)' = Holding(w) \cup {r}
          /\ BytesHeld(w) \in [ActRequests -> Nat] /\ BytesHeld(w)' \in [ActRequests -> Nat]
          /\ \A q \in ActRequests : q # r => BytesHeld(w)'[q] = BytesHeld(w)[q]
          /\ BytesHeld(w)[r] = 0 /\ BytesHeld(w)'[r] = n
      BY <1>1, <2>0, <2>2, <2>h
    <3>2. BytesHeld(w)'[r] = BytesHeld(w)[r] + n
      BY <3>1
    <3>3. IsFiniteSet(Units(BytesHeld(w)')) /\ Total(BytesHeld(w)') = Total(BytesHeld(w)) + n
      <4>1. PICK f, g : f = BytesHeld(w) /\ g = BytesHeld(w)'
        OBVIOUS
      <4>2. /\ f \in [ActRequests -> Nat] /\ g \in [ActRequests -> Nat]
            /\ \A q \in ActRequests : q # r => g[q] = f[q]
            /\ g[r] = f[r] + n /\ IsFiniteSet(Units(f))
        BY <1>5, <3>1, <3>2, <4>1
      <4>3. IsFiniteSet(Units(g)) /\ Total(g) = Total(f) + n
        BY <4>2, TotalMore
      <4> QED BY <4>1, <4>3
    <3>4. Cardinality(Holding(w)') = Cardinality(Holding(w)) + 1
      BY <2>0, <3>1, Counted, FS_AddElement
    <3>5. budget.ver[v] \in Nat /\ VersionWaitMax \in Nat
      BY <1>3, ActivatorAssumption
    <3>6. budget'.ver[w] = Cardinality(Holding(w)') /\ budget'.verBytes[w] = Total(BytesHeld(w)')
      BY <1>2, <1>5, <2>2, <3>3, <3>4
    <3>7. budget'.ver[w] <= VersionWaitMax /\ budget'.verBytes[w] <= VersionBytesMax
      BY <1>2, <1>4, <2>2, <3>5
    <3> QED BY <3>3, <3>6, <3>7
  <2> QED BY <2>1, <2>2
<1>9. budget'.all <= WaitMax /\ budget'.bytes <= BytesMax
  BY <1>0, <1>2, <1>4, ActivatorAssumption DEF BudgetType
<1> QED
  BY <1>2, <1>5, <1>6, <1>7, <1>8, <1>9 DEF BudgetFits, BudgetIsWaiters

\* A request that waits leaves and gives back what it took.
LEMMA BudgetGiven ==
  ASSUME ActTypeOK, BudgetFits, NEW r \in ActRequests, NEW j \in Ask, asks' = [asks EXCEPT ![r] = j],
         asks[r].at \in Waiting, j.at \notin Waiting, budget' = BudgetBack(asks[r].ver, asks[r].body)
  PROVE  BudgetFits' /\ budget' \in BudgetType
<1>0. asks[r].ver \in ActVersions /\ asks[r].body \in Nat /\ budget \in BudgetType
  BY DEF Ask, ActTypeOK, BudgetType
<1>1. PICK v \in ActVersions, n \in Nat : v = asks[r].ver /\ n = asks[r].body
  BY <1>0
<1>2. /\ budget.all \in Nat /\ budget.bytes \in Nat
      /\ budget.ver \in [ActVersions -> Nat] /\ budget.verBytes \in [ActVersions -> Nat]
  BY <1>0 DEF BudgetType
<1>3. /\ budget.all = Total(budget.ver) /\ budget.bytes = Total(budget.verBytes)
      /\ budget.all <= WaitMax /\ budget.bytes <= BytesMax
      /\ IsFiniteSet(Units(budget.ver)) /\ IsFiniteSet(Units(budget.verBytes))
      /\ \A w \in ActVersions :
           /\ budget.ver[w] = Cardinality(Holding(w)) /\ budget.ver[w] <= VersionWaitMax
           /\ budget.verBytes[w] = Total(BytesHeld(w)) /\ budget.verBytes[w] <= VersionBytesMax
           /\ IsFiniteSet(Units(BytesHeld(w)))
  BY DEF BudgetFits, BudgetIsWaiters
<1>4. /\ r \in Holding(v) /\ r \notin Holding(v)' /\ Holding(v)' = Holding(v) \ {r}
      /\ BytesHeld(v) \in [ActRequests -> Nat] /\ BytesHeld(v)' \in [ActRequests -> Nat]
      /\ \A q \in ActRequests : q # r => BytesHeld(v)'[q] = BytesHeld(v)[q]
      /\ BytesHeld(v)[r] = n /\ BytesHeld(v)'[r] = 0
  <2>1. /\ BytesHeld(v) \in [ActRequests -> Nat] /\ BytesHeld(v)' \in [ActRequests -> Nat]
        /\ \A q \in ActRequests : q # r => BytesHeld(v)'[q] = BytesHeld(v)[q]
        /\ r \in Holding(v) <=> asks[r].ver = v /\ asks[r].at \in Waiting
        /\ r \in Holding(v)' <=> j.ver = v /\ j.at \in Waiting
        /\ BytesHeld(v)[r] = IF r \in Holding(v) THEN asks[r].body ELSE 0
        /\ BytesHeld(v)'[r] = IF r \in Holding(v)' THEN j.body ELSE 0
        /\ r \in Holding(v) /\ r \notin Holding(v)' => Holding(v)' = Holding(v) \ {r}
        /\ r \notin Holding(v) /\ r \in Holding(v)' => Holding(v)' = Holding(v) \cup {r}
        /\ r \notin Holding(v) /\ r \notin Holding(v)' =>
             Holding(v)' = Holding(v) /\ BytesHeld(v)' = BytesHeld(v)
    BY HoldingChanges
  <2> QED BY <1>1, <2>1
<1>5. Cardinality(Holding(v)') = Cardinality(Holding(v)) - 1 /\ Cardinality(Holding(v)) >= 1
  <2>1. Cardinality(Holding(v)') = Cardinality(Holding(v)) - 1
    BY <1>4, Counted, FS_RemoveElement
  <2> QED BY <2>1, Counted, CountedNext
<1>6. /\ IsFiniteSet(Units(BytesHeld(v)')) /\ Total(BytesHeld(v)') = Total(BytesHeld(v)) - n
      /\ n <= Total(BytesHeld(v)) /\ Total(BytesHeld(v)) \in Nat
  <2>1. PICK f, g : f = BytesHeld(v) /\ g = BytesHeld(v)'
    OBVIOUS
  <2>2. /\ f \in [ActRequests -> Nat] /\ g \in [ActRequests -> Nat]
        /\ \A q \in ActRequests : q # r => g[q] = f[q]
        /\ f[r] = g[r] + n /\ IsFiniteSet(Units(f))
    BY <1>3, <1>4, <2>1
  <2>3. IsFiniteSet(Units(g)) /\ Total(g) = Total(f) - n /\ n <= Total(f) /\ Total(f) \in Nat
    BY <2>2, TotalLess, TotalAtLeast
  <2> QED BY <2>1, <2>3
<1>7. 1 <= budget.ver[v] /\ n <= budget.verBytes[v] /\ budget.ver[v] \in Nat /\ budget.verBytes[v] \in Nat
  BY <1>2, <1>3, <1>5, <1>6
<1>8. budget.ver[v] <= budget.all /\ budget.verBytes[v] <= budget.bytes
  <2>1. PICK f, g : f = budget.ver /\ g = budget.verBytes
    OBVIOUS
  <2>2. f[v] <= Total(f) /\ g[v] <= Total(g)
    BY <1>2, <1>3, <2>1, TotalAtLeast
  <2> QED BY <1>3, <2>1, <2>2
<1>9. 1 <= budget.all /\ n <= budget.bytes
  BY <1>2, <1>7, <1>8
<1>10. /\ budget' \in BudgetType
       /\ budget.all = budget'.all + 1 /\ budget.bytes = budget'.bytes + n
       /\ budget.ver[v] = budget'.ver[v] + 1 /\ budget.verBytes[v] = budget'.verBytes[v] + n
       /\ \A w \in ActVersions : w # v => budget'.ver[w] = budget.ver[w] /\ budget'.verBytes[w] = budget.verBytes[w]
  BY <1>0, <1>1, <1>7, <1>9, BackIs
<1>11. /\ budget'.all \in Nat /\ budget'.bytes \in Nat
       /\ budget'.ver \in [ActVersions -> Nat] /\ budget'.verBytes \in [ActVersions -> Nat]
  BY <1>10 DEF BudgetType
<1>12. IsFiniteSet(Units(budget'.ver)) /\ Total(budget'.ver) = Total(budget.ver) - 1
  <2>1. PICK f, g : f = budget.ver /\ g = budget'.ver
    OBVIOUS
  <2>2. /\ f \in [ActVersions -> Nat] /\ g \in [ActVersions -> Nat]
        /\ \A w \in ActVersions : w # v => g[w] = f[w]
        /\ f[v] = g[v] + 1 /\ IsFiniteSet(Units(f))
    BY <1>2, <1>3, <1>10, <1>11, <2>1
  <2>3. IsFiniteSet(Units(g)) /\ Total(g) = Total(f) - 1
    BY <2>2, TotalLess
  <2> QED BY <2>1, <2>3
<1>13. IsFiniteSet(Units(budget'.verBytes)) /\ Total(budget'.verBytes) = Total(budget.verBytes) - n
  <2>1. PICK f, g : f = budget.verBytes /\ g = budget'.verBytes
    OBVIOUS
  <2>2. /\ f \in [ActVersions -> Nat] /\ g \in [ActVersions -> Nat]
        /\ \A w \in ActVersions : w # v => g[w] = f[w]
        /\ f[v] = g[v] + n /\ IsFiniteSet(Units(f))
    BY <1>2, <1>3, <1>10, <1>11, <2>1
  <2>3. IsFiniteSet(Units(g)) /\ Total(g) = Total(f) - n
    BY <2>2, TotalLess
  <2> QED BY <2>1, <2>3
<1>14. /\ budget'.all = Total(budget'.ver) /\ budget'.bytes = Total(budget'.verBytes)
       /\ budget'.all <= WaitMax /\ budget'.bytes <= BytesMax
  <2>1. WaitMax \in Nat /\ BytesMax \in Nat
    BY ActivatorAssumption
  <2>2. budget'.all = budget.all - 1 /\ budget'.bytes = budget.bytes - n
    BY <1>2, <1>10, <1>11
  <2> QED BY <1>2, <1>3, <1>11, <1>12, <1>13, <2>1, <2>2
<1>15. ASSUME NEW w \in ActVersions
       PROVE  /\ budget'.ver[w] = Cardinality(Holding(w)') /\ budget'.ver[w] <= VersionWaitMax
              /\ budget'.verBytes[w] = Total(BytesHeld(w)') /\ budget'.verBytes[w] <= VersionBytesMax
              /\ IsFiniteSet(Units(BytesHeld(w)'))
  <2>1. CASE w # v
    <3>1. /\ BytesHeld(w) \in [ActRequests -> Nat] /\ BytesHeld(w)' \in [ActRequests -> Nat]
          /\ \A q \in ActRequests : q # r => BytesHeld(w)'[q] = BytesHeld(w)[q]
          /\ r \in Holding(w) <=> asks[r].ver = w /\ asks[r].at \in Waiting
          /\ r \in Holding(w)' <=> j.ver = w /\ j.at \in Waiting
          /\ BytesHeld(w)[r] = IF r \in Holding(w) THEN asks[r].body ELSE 0
          /\ BytesHeld(w)'[r] = IF r \in Holding(w)' THEN j.body ELSE 0
          /\ r \in Holding(w) /\ r \notin Holding(w)' => Holding(w)' = Holding(w) \ {r}
          /\ r \notin Holding(w) /\ r \in Holding(w)' => Holding(w)' = Holding(w) \cup {r}
          /\ r \notin Holding(w) /\ r \notin Holding(w)' =>
               Holding(w)' = Holding(w) /\ BytesHeld(w)' = BytesHeld(w)
      BY HoldingChanges
    <3>2. Holding(w)' = Holding(w) /\ BytesHeld(w)' = BytesHeld(w)
      BY <1>1, <2>1, <3>1
    <3> QED BY <1>3, <1>10, <2>1, <3>2
  <2>2. CASE w = v
    <3>1. budget'.ver[v] \in Nat /\ budget'.verBytes[v] \in Nat /\ VersionWaitMax \in Nat /\ VersionBytesMax \in Nat
      BY <1>11, ActivatorAssumption
    <3>2. budget'.ver[v] = budget.ver[v] - 1 /\ budget'.verBytes[v] = budget.verBytes[v] - n
      BY <1>7, <1>10, <3>1
    <3>3. budget'.ver[v] = Cardinality(Holding(v)') /\ budget'.verBytes[v] = Total(BytesHeld(v)')
      BY <1>3, <1>5, <1>6, <3>2
    <3>4. budget'.ver[v] <= VersionWaitMax /\ budget'.verBytes[v] <= VersionBytesMax
      BY <1>3, <1>7, <3>1, <3>2
    <3> QED BY <1>6, <2>2, <3>3, <3>4
  <2> QED BY <2>1, <2>2
<1> QED
  BY <1>10, <1>12, <1>13, <1>14, <1>15 DEF BudgetFits, BudgetIsWaiters

-----------------------------------------------------------------------------
(* The slots. *)

\* The sum on which the slots of a version must be enough.
Claimed(v) == Cardinality(HeldBy(v)) + Cardinality(Reserving(v))

LEMMA ClaimedType == \A v : Claimed(v) \in Nat /\ Claimed(v)' \in Nat
  BY Counted, CountedNext DEF Claimed

LEMMA WithSlotIs ==
  ASSUME slots \in SlotsType, NEW v \in ActVersions, NEW B, B = WithSlot(v)
  PROVE  /\ B \in SlotsType /\ B.all = slots.all + 1 /\ B.ver[v] = slots.ver[v] + 1
         /\ \A w \in ActVersions : w # v => B.ver[w] = slots.ver[w]
<1>1. slots.all \in Nat /\ slots.ver \in [ActVersions -> Nat] /\ slots.ver[v] \in Nat
  BY DEF SlotsType
<1>2. PICK f : f = [slots.ver EXCEPT ![v] = @ + 1]
  OBVIOUS
<1>3. f \in [ActVersions -> Nat] /\ f[v] = slots.ver[v] + 1 /\ \A w \in ActVersions : w # v => f[w] = slots.ver[w]
  BY <1>1, <1>2
<1>4. B = [all |-> slots.all + 1, ver |-> f]
  BY <1>1, <1>2 DEF WithSlot, SlotsType
<1>5. B \in SlotsType
  BY <1>1, <1>3, <1>4 DEF SlotsType
<1> QED
  BY <1>3, <1>4, <1>5

LEMMA WithoutSlotIs ==
  ASSUME slots \in SlotsType, NEW v \in ActVersions, NEW B, B = WithoutSlot(v), 1 <= slots.all, 1 <= slots.ver[v]
  PROVE  /\ B \in SlotsType /\ slots.all = B.all + 1 /\ slots.ver[v] = B.ver[v] + 1
         /\ \A w \in ActVersions : w # v => B.ver[w] = slots.ver[w]
<1>1. slots.all \in Nat /\ slots.ver \in [ActVersions -> Nat] /\ slots.ver[v] \in Nat
  BY DEF SlotsType
<1>2. PICK f : f = [slots.ver EXCEPT ![v] = Less(@, 1)]
  OBVIOUS
<1>3. ASSUME NEW a \in Nat, 1 <= a PROVE Less(a, 1) \in Nat /\ a = Less(a, 1) + 1
  <2>1. CASE a > 1
    BY <1>3, <2>1 DEF Less
  <2>2. CASE ~(a > 1)
    BY <1>3, <2>2 DEF Less
  <2> QED BY <2>1, <2>2
<1>4. /\ Less(slots.ver[v], 1) \in Nat /\ slots.ver[v] = Less(slots.ver[v], 1) + 1
      /\ Less(slots.all, 1) \in Nat /\ slots.all = Less(slots.all, 1) + 1
  BY <1>1, <1>3
<1>5. /\ f \in [ActVersions -> Nat] /\ f[v] = Less(slots.ver[v], 1)
      /\ \A w \in ActVersions : w # v => f[w] = slots.ver[w]
  BY <1>1, <1>2, <1>4
<1>6. B = [all |-> Less(slots.all, 1), ver |-> f]
  BY <1>1, <1>2 DEF WithoutSlot, SlotsType
<1>7. B \in SlotsType
  BY <1>4, <1>5, <1>6 DEF SlotsType
<1> QED
  BY <1>4, <1>5, <1>6, <1>7

LEMMA SlotsKept ==
  ASSUME ActTypeOK, SlotsFit, UNCHANGED slots, \A v \in ActVersions : Claimed(v)' <= Claimed(v)
  PROVE  SlotsFit'
<1>1. \A v \in ActVersions : slots.ver[v] \in Nat /\ slots.ver[v] >= Claimed(v)
  BY DEF ActTypeOK, SlotsFit, SlotsCoverFlights, Claimed
<1>2. \A v \in ActVersions : slots'.ver[v] >= Claimed(v)'
  BY <1>1, ClaimedType
<1>3. slots'.all = Total(slots'.ver) /\ IsFiniteSet(Units(slots'.ver))
  BY DEF SlotsFit, SlotsCoverFlights
<1> QED
  BY <1>2, <1>3 DEF SlotsFit, SlotsCoverFlights, Claimed

LEMMA SlotTaken ==
  ASSUME ActTypeOK, SlotsFit, NEW v \in ActVersions, slots' = WithSlot(v), Claimed(v)' <= Claimed(v) + 1,
         \A w \in ActVersions : w # v => Claimed(w)' <= Claimed(w)
  PROVE  SlotsFit' /\ slots' \in SlotsType
<1>0. slots \in SlotsType
  BY DEF ActTypeOK, SlotsType
<1>1. /\ slots' \in SlotsType /\ slots'.all = slots.all + 1 /\ slots'.ver[v] = slots.ver[v] + 1
      /\ \A w \in ActVersions : w # v => slots'.ver[w] = slots.ver[w]
  BY <1>0, WithSlotIs
<1>2. slots.ver \in [ActVersions -> Nat] /\ slots'.ver \in [ActVersions -> Nat]
  BY <1>0, <1>1 DEF SlotsType
<1>3. /\ slots.all = Total(slots.ver) /\ IsFiniteSet(Units(slots.ver))
      /\ \A w \in ActVersions : slots.ver[w] >= Claimed(w)
  BY DEF SlotsFit, SlotsCoverFlights, Claimed
<1>4. IsFiniteSet(Units(slots'.ver)) /\ Total(slots'.ver) = Total(slots.ver) + 1
  <2>1. PICK f, g : f = slots.ver /\ g = slots'.ver
    OBVIOUS
  <2>2. /\ f \in [ActVersions -> Nat] /\ g \in [ActVersions -> Nat]
        /\ \A w \in ActVersions : w # v => g[w] = f[w]
        /\ g[v] = f[v] + 1 /\ IsFiniteSet(Units(f))
    BY <1>1, <1>2, <1>3, <2>1
  <2>3. IsFiniteSet(Units(g)) /\ Total(g) = Total(f) + 1
    BY <2>2, TotalMore
  <2> QED BY <2>1, <2>3
<1>5. ASSUME NEW w \in ActVersions PROVE slots'.ver[w] >= Claimed(w)'
  <2>1. slots.ver[w] \in Nat /\ slots'.ver[w] \in Nat /\ Claimed(w) \in Nat /\ Claimed(w)' \in Nat
    BY <1>2, ClaimedType
  <2>2. CASE w = v
    <3>1. slots'.ver[w] = slots.ver[w] + 1 /\ slots.ver[w] >= Claimed(w) /\ Claimed(w)' <= Claimed(w) + 1
      BY <1>1, <1>3, <2>2
    <3> QED BY <2>1, <3>1
  <2>3. CASE w # v
    <3>1. slots'.ver[w] = slots.ver[w] /\ slots.ver[w] >= Claimed(w) /\ Claimed(w)' <= Claimed(w)
      BY <1>1, <1>3, <2>3
    <3> QED BY <2>1, <3>1
  <2> QED BY <2>2, <2>3
<1> QED
  BY <1>1, <1>3, <1>4, <1>5 DEF SlotsFit, SlotsCoverFlights, Claimed

LEMMA SlotGiven ==
  ASSUME ActTypeOK, SlotsFit, NEW v \in ActVersions, slots' = WithoutSlot(v), Claimed(v)' + 1 <= Claimed(v),
         \A w \in ActVersions : w # v => Claimed(w)' <= Claimed(w)
  PROVE  SlotsFit' /\ slots' \in SlotsType
<1>0. slots \in SlotsType
  BY DEF ActTypeOK, SlotsType
<1>1. slots.ver \in [ActVersions -> Nat] /\ slots.ver[v] \in Nat /\ slots.all \in Nat
  BY <1>0 DEF SlotsType
<1>2. /\ slots.all = Total(slots.ver) /\ IsFiniteSet(Units(slots.ver))
      /\ \A w \in ActVersions : slots.ver[w] >= Claimed(w)
  BY DEF SlotsFit, SlotsCoverFlights, Claimed
<1>3. slots.ver[v] <= slots.all
  <2>1. PICK f : f = slots.ver
    OBVIOUS
  <2>2. f[v] <= Total(f)
    BY <1>1, <1>2, <2>1, TotalAtLeast
  <2> QED BY <1>2, <2>1, <2>2
<1>4. 1 <= slots.ver[v]
  BY <1>1, <1>2, ClaimedType
<1>5. 1 <= slots.all
  BY <1>1, <1>3, <1>4
<1>6. /\ slots' \in SlotsType /\ slots.all = slots'.all + 1 /\ slots.ver[v] = slots'.ver[v] + 1
      /\ \A w \in ActVersions : w # v => slots'.ver[w] = slots.ver[w]
  BY <1>0, <1>4, <1>5, WithoutSlotIs
<1>7. slots'.ver \in [ActVersions -> Nat] /\ slots'.all \in Nat
  BY <1>6 DEF SlotsType
<1>8. IsFiniteSet(Units(slots'.ver)) /\ Total(slots'.ver) = Total(slots.ver) - 1
  <2>1. PICK f, g : f = slots.ver /\ g = slots'.ver
    OBVIOUS
  <2>2. /\ f \in [ActVersions -> Nat] /\ g \in [ActVersions -> Nat]
        /\ \A w \in ActVersions : w # v => g[w] = f[w]
        /\ f[v] = g[v] + 1 /\ IsFiniteSet(Units(f))
    BY <1>1, <1>2, <1>6, <1>7, <2>1
  <2>3. IsFiniteSet(Units(g)) /\ Total(g) = Total(f) - 1
    BY <2>2, TotalLess
  <2> QED BY <2>1, <2>3
<1>9. slots'.all = Total(slots'.ver)
  <2>1. slots'.all = slots.all - 1
    BY <1>1, <1>6, <1>7
  <2> QED BY <1>2, <1>8, <2>1
<1>10. ASSUME NEW w \in ActVersions PROVE slots'.ver[w] >= Claimed(w)'
  <2>1. slots.ver[w] \in Nat /\ slots'.ver[w] \in Nat /\ Claimed(w) \in Nat /\ Claimed(w)' \in Nat
    BY <1>1, <1>7, ClaimedType
  <2>2. CASE w = v
    <3>1. slots.ver[w] = slots'.ver[w] + 1 /\ slots.ver[w] >= Claimed(w) /\ Claimed(w)' + 1 <= Claimed(w)
      BY <1>2, <1>6, <2>2
    <3> QED BY <2>1, <3>1
  <2>3. CASE w # v
    <3>1. slots'.ver[w] = slots.ver[w] /\ slots.ver[w] >= Claimed(w) /\ Claimed(w)' <= Claimed(w)
      BY <1>2, <1>6, <2>3
    <3> QED BY <2>1, <3>1
  <2> QED BY <2>2, <2>3
<1> QED
  BY <1>6, <1>8, <1>9, <1>10 DEF SlotsFit, SlotsCoverFlights, Claimed

\* Whether the request j reserves a slot of w, and whether the flight f of k holds one.
Reserves(j, w) == j.ver = w /\ j.at = "begin" /\ j.new
Holds(k, f, w) == k[1] = w /\ f.at \in {"ensure", "poll"} /\ f.holds

LEMMA ReservingChanges ==
  ASSUME NEW r \in ActRequests, \A q \in ActRequests : q # r => asks'[q] = asks[q], NEW w
  PROVE  /\ Reserves(asks[r], w) /\ ~Reserves(asks'[r], w) =>
              Cardinality(Reserving(w)') + 1 = Cardinality(Reserving(w))
         /\ Reserves(asks'[r], w) /\ ~Reserves(asks[r], w) =>
              Cardinality(Reserving(w)') = Cardinality(Reserving(w)) + 1
         /\ (Reserves(asks[r], w) <=> Reserves(asks'[r], w)) =>
              Cardinality(Reserving(w)') = Cardinality(Reserving(w))
<1>1. /\ r \in Reserving(w) <=> Reserves(asks[r], w)
      /\ r \in Reserving(w)' <=> Reserves(asks'[r], w)
  BY DEF Reserving, Reserves
<1>2. \A q \in ActRequests : q # r => (q \in Reserving(w)' <=> q \in Reserving(w))
  BY DEF Reserving
<1>3. Reserving(w) \subseteq ActRequests /\ Reserving(w)' \subseteq ActRequests
  BY DEF Reserving
<1>4. IsFiniteSet(Reserving(w)) /\ Cardinality(Reserving(w)) \in Nat /\ Cardinality(Reserving(w)') \in Nat
  BY Counted, CountedNext
<1>5. ASSUME Reserves(asks[r], w), ~Reserves(asks'[r], w)
      PROVE  Cardinality(Reserving(w)') + 1 = Cardinality(Reserving(w))
  <2>1. Reserving(w)' = Reserving(w) \ {r} /\ r \in Reserving(w)
    BY <1>1, <1>2, <1>3, <1>5
  <2>2. Cardinality(Reserving(w)') = Cardinality(Reserving(w)) - 1
    BY <1>4, <2>1, FS_RemoveElement
  <2> QED BY <1>4, <2>2
<1>6. ASSUME ~Reserves(asks[r], w), Reserves(asks'[r], w)
      PROVE  Cardinality(Reserving(w)') = Cardinality(Reserving(w)) + 1
  <2>1. Reserving(w)' = Reserving(w) \cup {r} /\ r \notin Reserving(w)
    BY <1>1, <1>2, <1>3, <1>6
  <2> QED BY <1>4, <2>1, FS_AddElement
<1>7. ASSUME Reserves(asks[r], w) <=> Reserves(asks'[r], w)
      PROVE  Cardinality(Reserving(w)') = Cardinality(Reserving(w))
  <2>1. Reserving(w)' = Reserving(w)
    BY <1>1, <1>2, <1>3, <1>7
  <2> QED BY <2>1
<1> QED
  BY <1>5, <1>6, <1>7

LEMMA HeldChanges ==
  ASSUME NEW k \in Keys, \A q \in Keys : q # k => flights'[q] = flights[q], NEW w
  PROVE  /\ Holds(k, flights[k], w) /\ ~Holds(k, flights'[k], w) =>
              Cardinality(HeldBy(w)') + 1 = Cardinality(HeldBy(w))
         /\ Holds(k, flights'[k], w) /\ ~Holds(k, flights[k], w) =>
              Cardinality(HeldBy(w)') = Cardinality(HeldBy(w)) + 1
         /\ (Holds(k, flights[k], w) <=> Holds(k, flights'[k], w)) =>
              Cardinality(HeldBy(w)') = Cardinality(HeldBy(w))
<1>1. /\ k \in HeldBy(w) <=> Holds(k, flights[k], w)
      /\ k \in HeldBy(w)' <=> Holds(k, flights'[k], w)
  BY DEF HeldBy, Flying, Holds
<1>2. \A q \in Keys : q # k => (q \in HeldBy(w)' <=> q \in HeldBy(w))
  BY DEF HeldBy, Flying
<1>3. HeldBy(w) \subseteq Keys /\ HeldBy(w)' \subseteq Keys
  BY DEF HeldBy, Flying
<1>4. IsFiniteSet(HeldBy(w)) /\ Cardinality(HeldBy(w)) \in Nat /\ Cardinality(HeldBy(w)') \in Nat
  BY Counted, CountedNext
<1>5. ASSUME Holds(k, flights[k], w), ~Holds(k, flights'[k], w)
      PROVE  Cardinality(HeldBy(w)') + 1 = Cardinality(HeldBy(w))
  <2>1. HeldBy(w)' = HeldBy(w) \ {k} /\ k \in HeldBy(w)
    BY <1>1, <1>2, <1>3, <1>5
  <2>2. Cardinality(HeldBy(w)') = Cardinality(HeldBy(w)) - 1
    BY <1>4, <2>1, FS_RemoveElement
  <2> QED BY <1>4, <2>2
<1>6. ASSUME ~Holds(k, flights[k], w), Holds(k, flights'[k], w)
      PROVE  Cardinality(HeldBy(w)') = Cardinality(HeldBy(w)) + 1
  <2>1. HeldBy(w)' = HeldBy(w) \cup {k} /\ k \notin HeldBy(w)
    BY <1>1, <1>2, <1>3, <1>6
  <2> QED BY <1>4, <2>1, FS_AddElement
<1>7. ASSUME Holds(k, flights[k], w) <=> Holds(k, flights'[k], w)
      PROVE  Cardinality(HeldBy(w)') = Cardinality(HeldBy(w))
  <2>1. HeldBy(w)' = HeldBy(w)
    BY <1>1, <1>2, <1>3, <1>7
  <2> QED BY <2>1
<1> QED
  BY <1>5, <1>6, <1>7

LEMMA HeldKept ==
  ASSUME UNCHANGED flights PROVE \A w : Cardinality(HeldBy(w)') = Cardinality(HeldBy(w))
<1>1. \A w : HeldBy(w)' = HeldBy(w)
  BY DEF HeldBy, Flying
<1> QED
  BY <1>1

LEMMA ReservingKept ==
  ASSUME \A r \in ActRequests : asks'[r].ver = asks[r].ver /\ asks'[r].at = asks[r].at /\ asks'[r].new = asks[r].new
  PROVE  \A w : Cardinality(Reserving(w)') = Cardinality(Reserving(w))
<1>1. \A w : Reserving(w)' = Reserving(w)
  BY DEF Reserving
<1> QED
  BY <1>1

-----------------------------------------------------------------------------
(* The steps of a request. *)

LEMMA Asking ==
  ASSUME ActTypeOK, NEW r \in ActRequests
  PROVE  /\ asks[r] \in Ask /\ asks[r].ver \in ActVersions /\ asks[r].gen \in 0 .. MaxGen
         /\ asks[r].body \in Nat /\ asks[r].new \in BOOLEAN /\ asks[r].got \in Answers /\ KeyOf(r) \in Keys
  BY DEF ActTypeOK, Ask, KeyOf, Keys

\* The request is answered.
LEMMA Answered ==
  ASSUME ActTypeOK, NEW r \in ActRequests, NEW a \in Answers, Answer(r, a)
  PROVE  \E j \in Ask : asks' = [asks EXCEPT ![r] = j] /\ j.at = "done" /\ ~j.new
<1>1. PICK v \in ActVersions : v = asks[r].ver
  BY Asking
<1>2. PICK j : j = [NoAsk(v) EXCEPT !.at = "done", !.got = a]
  OBVIOUS
<1>3. j = [at |-> "done", ver |-> v, gen |-> 0, body |-> 0, new |-> FALSE, got |-> a]
  BY <1>2 DEF NoAsk
<1>4. 0 \in 0 .. MaxGen /\ 0 \in Nat
  BY ActivatorAssumption
<1>5. j \in Ask /\ j.at = "done" /\ ~j.new
  BY <1>3, <1>4 DEF Ask
<1>6. asks' = [asks EXCEPT ![r] = j]
  BY <1>1, <1>2 DEF Answer, ActTypeOK
<1> QED
  BY <1>5, <1>6

Places == {"idle", "read", "admit", "start", "wait", "has", "acquire", "begin", "done"}

\* The request goes on to p.
LEMMA Moved ==
  ASSUME ActTypeOK, NEW r \in ActRequests, NEW p \in Places, NEW j, j = [asks[r] EXCEPT !.at = p]
  PROVE  /\ j \in Ask /\ j.at = p /\ j.new = asks[r].new
         /\ j.ver = asks[r].ver /\ j.gen = asks[r].gen /\ j.body = asks[r].body /\ j.got = asks[r].got
  BY Asking DEF Ask, Places

LEMMA AskStep ==
  ASSUME ActInv, NEW r \in ActRequests, NEW j \in Ask, asks' = [asks EXCEPT ![r] = j],
         BudgetFits', budget' \in BudgetType, SlotsFit', slots' \in SlotsType,
         flights' \in [Keys -> Flight], \A k \in Keys : flights[k] # NoFlight => flights'[k] # NoFlight,
         group = "quiet" => flights' = flights, UNCHANGED <<cold, group>>,
         j.at = "wait" => j.got # "none" \/ flights'[<<j.ver, j.gen>>] # NoFlight,
         j.new => j.at \in {"acquire", "begin"},
         \A k \in Keys : flights'[k] = flights[k] \/ flights'[k].at # "return"
  PROVE  ActInv'
<1>1. asks' \in [ActRequests -> Ask] /\ asks'[r] = j /\ \A q \in ActRequests : q # r => asks'[q] = asks[q]
  BY DEF ActInv, ActTypeOK
<1>2. ActTypeOK'
  BY <1>1 DEF ActInv, ActTypeOK, BudgetType, SlotsType
<1>3. QuietHasNoFlight'
  BY DEF ActInv, QuietHasNoFlight
<1>4. ASSUME NEW q \in ActRequests, asks'[q].at = "wait"
      PROVE  asks'[q].got # "none" \/ flights'[<<asks'[q].ver, asks'[q].gen>>] # NoFlight
  <2>1. CASE q = r
    BY <1>1, <1>4, <2>1
  <2>2. CASE q # r
    <3>1. asks'[q] = asks[q] /\ asks[q].at = "wait"
      BY <1>1, <1>4, <2>2
    <3>2. KeyOf(q) \in Keys
      BY Asking DEF ActInv
    <3>3. asks[q].got # "none" \/ flights[KeyOf(q)] # NoFlight
      BY <3>1 DEF ActInv, WaiterHasFlight
    <3> QED BY <3>1, <3>2, <3>3 DEF KeyOf
  <2> QED BY <2>1, <2>2
<1>5. WaiterHasFlight'
  BY <1>4 DEF WaiterHasFlight, KeyOf
<1>6. NewKnown'
  BY <1>1 DEF ActInv, NewKnown
<1>7. ResultKnown'
  BY DEF ActInv, ResultKnown
<1> QED
  BY <1>2, <1>3, <1>5, <1>6, <1>7 DEF ActInv

\* The slots are as they were, and the request reserves none or the same.
LEMMA SlotsAside ==
  ASSUME ActInv, NEW r \in ActRequests, \A q \in ActRequests : q # r => asks'[q] = asks[q],
         UNCHANGED <<flights, slots>>, \A w \in ActVersions : Reserves(asks'[r], w) => Reserves(asks[r], w)
  PROVE  SlotsFit'
<1>1. ASSUME NEW w \in ActVersions PROVE Claimed(w)' <= Claimed(w)
  <2>1. Cardinality(HeldBy(w)') = Cardinality(HeldBy(w))
    BY HeldKept
  <2>2. \/ Cardinality(Reserving(w)') + 1 = Cardinality(Reserving(w))
        \/ Cardinality(Reserving(w)') = Cardinality(Reserving(w))
    BY ReservingChanges
  <2> QED BY <2>1, <2>2, Counted, CountedNext DEF Claimed
<1> QED
  BY <1>1, SlotsKept DEF ActInv

\* The request holds nothing, neither before the step nor after it.
LEMMA AsideStep ==
  ASSUME ActInv, NEW r \in ActRequests, NEW j \in Ask, asks' = [asks EXCEPT ![r] = j],
         asks[r].at \notin Waiting, j.at \notin Waiting, j.at = "begin" => ~j.new,
         j.new => j.at \in {"acquire", "begin"}, UNCHANGED <<flights, slots, budget, cold, group>>
  PROVE  ActInv'
<1>1. asks'[r] = j /\ \A q \in ActRequests : q # r => asks'[q] = asks[q]
  BY DEF ActInv, ActTypeOK
<1>2. \A w \in ActVersions : ~Reserves(asks'[r], w)
  BY <1>1 DEF Reserves
<1>3. SlotsFit'
  BY <1>1, <1>2, SlotsAside
<1>4. ASSUME NEW q \in ActRequests
      PROVE  /\ asks'[q].at \in Waiting <=> asks[q].at \in Waiting
             /\ asks[q].at \in Waiting => asks'[q].ver = asks[q].ver /\ asks'[q].body = asks[q].body
  BY <1>1
<1>5. BudgetFits'
  BY <1>4, BudgetKept DEF ActInv
<1>6. j.at # "wait"
  BY DEF Waiting
<1>7. budget' \in BudgetType /\ slots' \in SlotsType /\ flights' \in [Keys -> Flight]
  BY DEF ActInv, ActTypeOK, BudgetType, SlotsType
<1> QED
  BY <1>3, <1>5, <1>6, <1>7, AskStep

\* The request leaves the wait.
LEMMA LeaveStep ==
  ASSUME ActInv, NEW r \in ActRequests, NEW a \in Answers, Answer(r, a), asks[r].at \in Waiting,
         budget' = BudgetBack(asks[r].ver, asks[r].body), UNCHANGED <<flights, slots, cold, group>>
  PROVE  ActInv' 
<1>0. ActTypeOK /\ BudgetFits
  BY DEF ActInv
<1>1. PICK j \in Ask : asks' = [asks EXCEPT ![r] = j] /\ j.at = "done" /\ ~j.new
  BY <1>0, Answered
<1>2. asks'[r] = j /\ \A q \in ActRequests : q # r => asks'[q] = asks[q]
  BY <1>0, <1>1 DEF ActTypeOK
<1>3. j.at \notin Waiting
  BY <1>1 DEF Waiting
<1>4. BudgetFits' /\ budget' \in BudgetType
  BY <1>0, <1>1, <1>3, BudgetGiven
<1>5. \A w \in ActVersions : ~Reserves(asks'[r], w)
  BY <1>1, <1>2 DEF Reserves
<1>6. SlotsFit'
  BY <1>2, <1>5, SlotsAside
<1>7. slots' \in SlotsType /\ flights' \in [Keys -> Flight] /\ j.at # "wait"
  BY <1>0, <1>1 DEF ActTypeOK, SlotsType
<1> QED
  BY <1>1, <1>4, <1>6, <1>7, AskStep

LEMMA ArrivesFits ==
  ASSUME ActInv, NEW r \in ActRequests, NEW v \in ActVersions, NEW n \in Bodies, Arrive(r, v, n)
  PROVE  ActInv'
<1>1. PICK j : j = [NoAsk(v) EXCEPT !.at = "read", !.body = n]
  OBVIOUS
<1>2. j = [at |-> "read", ver |-> v, gen |-> 0, body |-> n, new |-> FALSE, got |-> "none"]
  BY <1>1 DEF NoAsk
<1>3. n \in Nat /\ 0 \in 0 .. MaxGen
  BY ActivatorAssumption
<1>4. j \in Ask
  BY <1>2, <1>3 DEF Ask, Answers
<1>5. asks' = [asks EXCEPT ![r] = j]
  BY <1>1 DEF Arrive
<1>6. asks[r].at \notin Waiting /\ j.at \notin Waiting /\ j.at # "begin" /\ ~j.new
  BY <1>2 DEF Arrive, Waiting
<1>7. UNCHANGED <<flights, slots, budget, cold, group>>
  BY DEF Arrive
<1> QED
  BY <1>4, <1>5, <1>6, <1>7, AsideStep

LEMMA ArrivesDeadFits ==
  ASSUME ActInv, NEW r \in ActRequests, NEW v \in ActVersions, ArriveDead(r, v)
  PROVE  ActInv'
<1>0. PICK g \in 0 .. MaxGen : g = cold[v].gen
  BY DEF ActInv, ActTypeOK, Cold
<1>1. PICK j : j = [NoAsk(v) EXCEPT !.at = "has", !.gen = g]
  OBVIOUS
<1>2. j = [at |-> "has", ver |-> v, gen |-> g, body |-> 0, new |-> FALSE, got |-> "none"]
  BY <1>1 DEF NoAsk
<1>3. 0 \in Nat
  OBVIOUS
<1>4. j \in Ask
  BY <1>2, <1>3 DEF Ask, Answers
<1>5. asks' = [asks EXCEPT ![r] = j]
  BY <1>0, <1>1 DEF ArriveDead
<1>6. asks[r].at \notin Waiting /\ j.at \notin Waiting /\ j.at # "begin" /\ ~j.new
  BY <1>2 DEF ArriveDead, Waiting
<1>7. UNCHANGED <<flights, slots, budget, cold, group>>
  BY DEF ArriveDead
<1> QED
  BY <1>4, <1>5, <1>6, <1>7, AsideStep

LEMMA ReadsFits ==
  ASSUME ActInv, NEW r \in ActRequests, ReadDesire(r) PROVE ActInv'
<1>0. PICK g \in 0 .. MaxGen : g = cold[asks[r].ver].gen
  BY Asking DEF ActInv, ActTypeOK, Cold
<1>1. PICK j : j = [asks[r] EXCEPT !.at = "admit", !.gen = g]
  OBVIOUS
<1>2. ActTypeOK /\ asks[r] \in Ask
  BY Asking DEF ActInv
<1>3. ~asks[r].new
  BY DEF ActInv, NewKnown, ReadDesire
<1>4. j \in Ask /\ j.at = "admit" /\ ~j.new
  BY <1>1, <1>2, <1>3 DEF Ask
<1>5. asks' = [asks EXCEPT ![r] = j]
  BY <1>0, <1>1, <1>2 DEF ReadDesire, ActTypeOK
<1>6. asks[r].at \notin Waiting /\ j.at \notin Waiting
  BY <1>4 DEF ReadDesire, Waiting
<1>7. UNCHANGED <<flights, slots, budget, cold, group>>
  BY DEF ReadDesire
<1> QED
  BY <1>4, <1>5, <1>6, <1>7, AsideStep

\* An answer to a request that holds nothing.
LEMMA AnswerAside ==
  ASSUME ActInv, NEW r \in ActRequests, NEW a \in Answers, Answer(r, a), asks[r].at \notin Waiting,
         UNCHANGED <<flights, slots, budget, cold, group>>
  PROVE  ActInv'
<1>1. PICK j \in Ask : asks' = [asks EXCEPT ![r] = j] /\ j.at = "done" /\ ~j.new
  BY Answered DEF ActInv
<1>2. j.at \notin Waiting
  BY <1>1 DEF Waiting
<1> QED
  BY <1>1, <1>2, AsideStep

LEMMA AdmitsFits ==
  ASSUME ActInv, NEW r \in ActRequests, Admit(r) PROVE ActInv'
<1>0. ActTypeOK /\ BudgetFits /\ asks[r].at = "admit" /\ ~asks[r].new /\ UNCHANGED <<flights, slots, cold, group>>
  BY DEF ActInv, NewKnown, Admit
<1>1. asks[r].at \notin Waiting
  BY <1>0 DEF Waiting
<1>2. \/ \E a \in {"proxy", "control", "queue_full"} : Answer(r, a) /\ UNCHANGED budget
      \/ asks' = [asks EXCEPT ![r].at = "has"] /\ UNCHANGED budget
      \/ /\ Room(asks[r].ver, asks[r].body) /\ group = "open"
         /\ asks' = [asks EXCEPT ![r].at = "start"] /\ budget' = Reserved(asks[r].ver, asks[r].body)
  BY DEF Admit
<1>3. ASSUME NEW a \in {"proxy", "control", "queue_full"}, Answer(r, a), UNCHANGED budget PROVE ActInv'
  BY <1>0, <1>1, <1>3, AnswerAside DEF Answers
<1>4. CASE asks' = [asks EXCEPT ![r].at = "has"] /\ UNCHANGED budget
  <2>1. PICK j : j = [asks[r] EXCEPT !.at = "has"]
    OBVIOUS
  <2>2. j \in Ask /\ j.at = "has" /\ ~j.new
    BY <1>0, <2>1, Moved DEF Places
  <2>3. asks' = [asks EXCEPT ![r] = j]
    BY <1>0, <1>4, <2>1 DEF ActTypeOK
  <2>4. j.at \notin Waiting
    BY <2>2 DEF Waiting
  <2> QED BY <1>0, <1>1, <1>4, <2>2, <2>3, <2>4, AsideStep
<1>5. CASE /\ Room(asks[r].ver, asks[r].body) /\ group = "open"
           /\ asks' = [asks EXCEPT ![r].at = "start"] /\ budget' = Reserved(asks[r].ver, asks[r].body)
  <2>1. PICK j : j = [asks[r] EXCEPT !.at = "start"]
    OBVIOUS
  <2>2. j \in Ask /\ j.at = "start" /\ ~j.new /\ j.ver = asks[r].ver /\ j.body = asks[r].body
    BY <1>0, <2>1, Moved DEF Places
  <2>3. asks' = [asks EXCEPT ![r] = j]
    BY <1>0, <1>5, <2>1 DEF ActTypeOK
  <2>4. j.at \in Waiting
    BY <2>2 DEF Waiting
  <2>5. BudgetFits' /\ budget' \in BudgetType
    BY <1>0, <1>1, <1>5, <2>2, <2>3, <2>4, BudgetTaken
  <2>6. asks'[r] = j /\ \A q \in ActRequests : q # r => asks'[q] = asks[q]
    BY <1>0, <2>3 DEF ActTypeOK
  <2>7. \A w \in ActVersions : ~Reserves(asks'[r], w)
    BY <2>2, <2>6 DEF Reserves
  <2>8. SlotsFit'
    BY <1>0, <2>6, <2>7, SlotsAside
  <2>9. slots' \in SlotsType /\ flights' \in [Keys -> Flight]
    BY <1>0 DEF ActTypeOK, SlotsType
  <2> QED BY <1>0, <2>2, <2>3, <2>5, <2>8, <2>9, AskStep
<1> QED
  BY <1>2, <1>3, <1>4, <1>5

LEMMA LeavesFits ==
  ASSUME ActInv, NEW r \in ActRequests, GiveUp(r) \/ TakeAnswer(r) PROVE ActInv'
<1>1. CASE GiveUp(r)
  <2>1. /\ "timeout" \in Answers /\ Answer(r, "timeout") /\ asks[r].at \in Waiting
        /\ budget' = BudgetBack(asks[r].ver, asks[r].body) /\ UNCHANGED <<flights, slots, cold, group>>
    BY <1>1 DEF GiveUp, Waiting, Answers
  <2> QED BY <2>1, LeaveStep
<1>2. CASE TakeAnswer(r)
  <2>1. PICK a \in Answers : a = asks[r].got
    BY Asking DEF ActInv
  <2>2. /\ Answer(r, a) /\ asks[r].at \in Waiting
        /\ budget' = BudgetBack(asks[r].ver, asks[r].body) /\ UNCHANGED <<flights, slots, cold, group>>
    BY <1>2, <2>1 DEF TakeAnswer, Waiting
  <2> QED BY <2>2, LeaveStep
<1> QED
  BY <1>1, <1>2

\* A flight is entered where there was none.
LEMMA Entered ==
  ASSUME ActTypeOK, NEW k \in Keys, NEW f \in Flight, f # NoFlight, flights' = Enter(k, f)
  PROVE  /\ flights' \in [Keys -> Flight] /\ flights'[k] # NoFlight
         /\ \A q \in Keys : q # k => flights'[q] = flights[q]
         /\ flights[k] # NoFlight => flights' = flights
         /\ flights[k] = NoFlight => flights'[k] = f
         /\ \A q \in Keys : flights[q] # NoFlight => flights'[q] # NoFlight
<1>1. CASE flights[k] = NoFlight
  <2>1. flights' = [flights EXCEPT ![k] = f]
    BY <1>1 DEF Enter
  <2>2. flights' \in [Keys -> Flight] /\ flights'[k] = f /\ \A q \in Keys : q # k => flights'[q] = flights[q]
    BY <2>1 DEF ActTypeOK
  <2> QED BY <1>1, <2>2
<1>2. CASE flights[k] # NoFlight
  <2>1. flights' = flights
    BY <1>2 DEF Enter
  <2> QED BY <1>2, <2>1 DEF ActTypeOK
<1> QED
  BY <1>1, <1>2

LEMMA WaitsFits ==
  ASSUME ActInv, NEW r \in ActRequests, StartWaiting(r) PROVE ActInv'
<1>0. ActTypeOK /\ BudgetFits /\ asks[r].at = "start" /\ ~asks[r].new /\ UNCHANGED <<slots, cold, group>>
  BY DEF ActInv, NewKnown, StartWaiting
<1>1. CASE Closed /\ Answer(r, "control") /\ budget' = BudgetBack(asks[r].ver, asks[r].body) /\ UNCHANGED flights
  <2>1. asks[r].at \in Waiting /\ "control" \in Answers
    BY <1>0 DEF Waiting, Answers
  <2> QED BY <1>0, <1>1, <2>1, LeaveStep
<1>2. CASE /\ ~Closed /\ flights' = Enter(KeyOf(r), [NoFlight EXCEPT !.at = "begin"])
           /\ asks' = [asks EXCEPT ![r].at = "wait"] /\ UNCHANGED budget
  <2>1. PICK f : f = [NoFlight EXCEPT !.at = "begin"]
    OBVIOUS
  <2>2. f \in Flight /\ f # NoFlight /\ f.at = "begin"
    BY <2>1 DEF NoFlight, Flight, Answers
  <2>3. PICK k \in Keys : k = KeyOf(r)
    BY <1>0, Asking
  <2>4. flights' = Enter(k, f)
    BY <1>2, <2>1, <2>3
  <2>5. /\ flights' \in [Keys -> Flight] /\ flights'[k] # NoFlight
        /\ \A q \in Keys : q # k => flights'[q] = flights[q]
        /\ flights[k] # NoFlight => flights' = flights
        /\ flights[k] = NoFlight => flights'[k] = f
        /\ \A q \in Keys : flights[q] # NoFlight => flights'[q] # NoFlight
    BY <1>0, <2>2, <2>4, Entered
  <2>6. PICK j : j = [asks[r] EXCEPT !.at = "wait"]
    OBVIOUS
  <2>7. /\ j \in Ask /\ j.at = "wait" /\ ~j.new /\ j.ver = asks[r].ver /\ j.gen = asks[r].gen
        /\ j.body = asks[r].body
    BY <1>0, <2>6, Moved DEF Places
  <2>8. asks' = [asks EXCEPT ![r] = j]
    BY <1>0, <1>2, <2>6 DEF ActTypeOK
  <2>9. asks'[r] = j /\ \A q \in ActRequests : q # r => asks'[q] = asks[q]
    BY <1>0, <2>8 DEF ActTypeOK
  <2>10. BudgetFits' /\ budget' \in BudgetType
    <3>1. ASSUME NEW q \in ActRequests
          PROVE  /\ asks'[q].at \in Waiting <=> asks[q].at \in Waiting
                 /\ asks[q].at \in Waiting => asks'[q].ver = asks[q].ver /\ asks'[q].body = asks[q].body
      <4>1. asks[r].at \in Waiting /\ j.at \in Waiting
        BY <1>0, <2>7 DEF Waiting
      <4> QED BY <2>7, <2>9, <4>1
    <3>2. budget' \in BudgetType
      BY <1>0, <1>2 DEF ActTypeOK, BudgetType
    <3> QED BY <1>0, <1>2, <3>1, <3>2, BudgetKept
  <2>11. ASSUME NEW w \in ActVersions PROVE Claimed(w)' <= Claimed(w)
    <3>1. ~Reserves(asks[r], w) /\ ~Reserves(asks'[r], w)
      BY <1>0, <2>7, <2>9 DEF Reserves
    <3>2. Cardinality(Reserving(w)') = Cardinality(Reserving(w))
      BY <2>9, <3>1, ReservingChanges
    <3>3. Holds(k, flights[k], w) <=> Holds(k, flights'[k], w)
      <4>1. CASE flights[k] = NoFlight
        BY <2>2, <2>5, <4>1 DEF Holds, NoFlight
      <4>2. CASE flights[k] # NoFlight
        BY <2>5, <4>2
      <4> QED BY <4>1, <4>2
    <3>4. Cardinality(HeldBy(w)') = Cardinality(HeldBy(w))
      BY <2>5, <3>3, HeldChanges
    <3> QED BY <3>2, <3>4, Counted DEF Claimed
  <2>12. SlotsFit' /\ slots' \in SlotsType
    BY <1>0, <2>11, SlotsKept DEF ActInv, ActTypeOK, SlotsType
  <2>13. /\ flights'[<<j.ver, j.gen>>] # NoFlight
         /\ \A q \in Keys : flights'[q] = flights[q] \/ flights'[q].at # "return"
    BY <2>2, <2>3, <2>5, <2>7 DEF KeyOf
  <2>14. group # "quiet"
    BY <1>2 DEF Closed
  <2> QED BY <1>0, <2>5, <2>7, <2>8, <2>10, <2>12, <2>13, <2>14, AskStep
<1> QED
  BY <1>1, <1>2 DEF StartWaiting

LEMMA HasFits ==
  ASSUME ActInv, NEW r \in ActRequests, Has(r) PROVE ActInv'
<1>0. ActTypeOK /\ asks[r].at = "has" /\ ~asks[r].new /\ UNCHANGED <<flights, slots, budget, cold, group>>
  BY DEF ActInv, NewKnown, Has
<1>1. asks[r].at \notin Waiting
  BY <1>0 DEF Waiting
<1>2. \/ Answer(r, "control")
      \/ asks' = [asks EXCEPT ![r].at = "acquire", ![r].new = TRUE]
      \/ asks' = [asks EXCEPT ![r].at = "begin"]
  BY DEF Has
<1>3. CASE Answer(r, "control")
  <2>1. "control" \in Answers
    BY DEF Answers
  <2> QED BY <1>0, <1>1, <1>3, <2>1, AnswerAside
<1>4. CASE asks' = [asks EXCEPT ![r].at = "acquire", ![r].new = TRUE]
  <2>1. PICK j : j = [asks[r] EXCEPT !.at = "acquire", !.new = TRUE]
    OBVIOUS
  <2>2. j \in Ask /\ j.at = "acquire"
    BY <1>0, <2>1, Asking DEF Ask
  <2>3. asks' = [asks EXCEPT ![r] = j]
    BY <1>0, <1>4, <2>1 DEF ActTypeOK
  <2>4. j.at \notin Waiting
    BY <2>2 DEF Waiting
  <2> QED BY <1>0, <1>1, <2>2, <2>3, <2>4, AsideStep
<1>5. CASE asks' = [asks EXCEPT ![r].at = "begin"]
  <2>1. PICK j : j = [asks[r] EXCEPT !.at = "begin"]
    OBVIOUS
  <2>2. j \in Ask /\ j.at = "begin" /\ ~j.new
    BY <1>0, <2>1, Moved DEF Places
  <2>3. asks' = [asks EXCEPT ![r] = j]
    BY <1>0, <1>5, <2>1 DEF ActTypeOK
  <2>4. j.at \notin Waiting
    BY <2>2 DEF Waiting
  <2> QED BY <1>0, <1>1, <2>2, <2>3, <2>4, AsideStep
<1> QED
  BY <1>2, <1>3, <1>4, <1>5

\* The budget of a step whose request holds no place, neither before nor after it.
LEMMA BudgetAside ==
  ASSUME ActInv, NEW r \in ActRequests, \A q \in ActRequests : q # r => asks'[q] = asks[q],
         asks[r].at \notin Waiting, asks'[r].at \notin Waiting, UNCHANGED budget
  PROVE  BudgetFits' /\ budget' \in BudgetType
<1>1. ASSUME NEW q \in ActRequests
      PROVE  /\ asks'[q].at \in Waiting <=> asks[q].at \in Waiting
             /\ asks[q].at \in Waiting => asks'[q].ver = asks[q].ver /\ asks'[q].body = asks[q].body
  OBVIOUS
<1> QED
  BY <1>1, BudgetKept DEF ActInv, ActTypeOK, BudgetType

LEMMA AcquiresFits ==
  ASSUME ActInv, NEW r \in ActRequests, Acquire(r) PROVE ActInv'
<1>0. ActTypeOK /\ SlotsFit /\ asks[r].at = "acquire" /\ UNCHANGED <<flights, budget, cold, group>>
  BY DEF ActInv, Acquire
<1>1. asks[r].at \notin Waiting
  BY <1>0 DEF Waiting
<1>2. CASE Answer(r, "queue_full") /\ UNCHANGED slots
  <2>1. "queue_full" \in Answers
    BY DEF Answers
  <2> QED BY <1>0, <1>1, <1>2, <2>1, AnswerAside
<1>3. CASE slots' = WithSlot(asks[r].ver) /\ asks' = [asks EXCEPT ![r].at = "begin"]
  <2>1. PICK j : j = [asks[r] EXCEPT !.at = "begin"]
    OBVIOUS
  <2>2. j \in Ask /\ j.at = "begin" /\ j.ver = asks[r].ver
    BY <1>0, <2>1, Moved DEF Places
  <2>3. asks' = [asks EXCEPT ![r] = j]
    BY <1>0, <1>3, <2>1 DEF ActTypeOK
  <2>4. asks'[r] = j /\ \A q \in ActRequests : q # r => asks'[q] = asks[q]
    BY <1>0, <2>3 DEF ActTypeOK
  <2>5. j.at \notin Waiting /\ j.at # "wait"
    BY <2>2 DEF Waiting
  <2>6. BudgetFits' /\ budget' \in BudgetType
    BY <1>0, <1>1, <2>4, <2>5, BudgetAside
  <2>7. PICK v \in ActVersions : v = asks[r].ver
    BY <1>0, Asking
  <2>8. ASSUME NEW w \in ActVersions
        PROVE  Claimed(w)' <= Claimed(w) + 1 /\ (w # v => Claimed(w)' <= Claimed(w))
    <3>1. Cardinality(HeldBy(w)') = Cardinality(HeldBy(w))
      BY <1>0, HeldKept
    <3>2. ~Reserves(asks[r], w) /\ (w # v => ~Reserves(asks'[r], w))
      BY <1>0, <2>2, <2>4, <2>7 DEF Reserves
    <3>3. /\ \/ Cardinality(Reserving(w)') = Cardinality(Reserving(w)) + 1
             \/ Cardinality(Reserving(w)') = Cardinality(Reserving(w))
          /\ w # v => Cardinality(Reserving(w)') = Cardinality(Reserving(w))
      BY <2>4, <3>2, ReservingChanges
    <3> QED BY <3>1, <3>3, Counted DEF Claimed
  <2>9. SlotsFit' /\ slots' \in SlotsType
    BY <1>0, <1>3, <2>7, <2>8, SlotTaken
  <2>10. flights' \in [Keys -> Flight]
    BY <1>0 DEF ActTypeOK
  <2> QED BY <1>0, <2>2, <2>3, <2>5, <2>6, <2>9, <2>10, AskStep
<1> QED
  BY <1>2, <1>3 DEF Acquire

LEMMA StartsSharedFits ==
  ASSUME ActInv, NEW r \in ActRequests, StartShared(r) PROVE ActInv'
<1>0. ActTypeOK /\ SlotsFit /\ asks[r].at = "begin" /\ UNCHANGED <<budget, cold, group>>
  BY DEF ActInv, StartShared
<1>1. asks[r].at \notin Waiting /\ "queue_full" \in Answers /\ "retry" \in Answers
  BY <1>0 DEF Waiting, Answers
<1>2. \E a \in {"queue_full", "retry"} : Answer(r, a)
  BY DEF StartShared
<1>3. PICK j \in Ask : asks' = [asks EXCEPT ![r] = j] /\ j.at = "done" /\ ~j.new
  BY <1>0, <1>1, <1>2, Answered
<1>4. asks'[r] = j /\ \A q \in ActRequests : q # r => asks'[q] = asks[q]
  BY <1>0, <1>3 DEF ActTypeOK
<1>5. j.at \notin Waiting /\ j.at # "wait"
  BY <1>3 DEF Waiting
<1>6. BudgetFits' /\ budget' \in BudgetType
  BY <1>0, <1>1, <1>4, <1>5, BudgetAside
<1>7. PICK v \in ActVersions : v = asks[r].ver
  BY <1>0, Asking
<1>8. /\ \A w : ~Reserves(asks'[r], w)
      /\ \A w : Reserves(asks[r], w) <=> w = v /\ asks[r].new
  BY <1>0, <1>3, <1>4, <1>7 DEF Reserves
(* the group is closed: the slot is given back, ... *)
<1>9. CASE Closed /\ UNCHANGED flights /\ slots' = IF asks[r].new THEN WithoutSlot(v) ELSE slots
  <2>1. ASSUME NEW w \in ActVersions
        PROVE  /\ w = v /\ asks[r].new => Claimed(w)' + 1 <= Claimed(w)
               /\ Claimed(w)' <= Claimed(w)
    <3>1. Cardinality(HeldBy(w)') = Cardinality(HeldBy(w))
      BY <1>9, HeldKept
    <3>2. /\ w = v /\ asks[r].new => Cardinality(Reserving(w)') + 1 = Cardinality(Reserving(w))
          /\ \/ Cardinality(Reserving(w)') + 1 = Cardinality(Reserving(w))
             \/ Cardinality(Reserving(w)') = Cardinality(Reserving(w))
      BY <1>4, <1>8, ReservingChanges
    <3> QED BY <3>1, <3>2, Counted, CountedNext DEF Claimed
  <2>2. SlotsFit' /\ slots' \in SlotsType
    <3>1. CASE asks[r].new
      <4>1. slots' = WithoutSlot(v)
        BY <1>9, <3>1
      <4>2. Claimed(v)' + 1 <= Claimed(v)
        BY <2>1, <3>1
      <4> QED BY <1>0, <2>1, <4>1, <4>2, SlotGiven
    <3>2. CASE ~asks[r].new
      BY <1>0, <1>9, <2>1, <3>2, SlotsKept DEF ActTypeOK, SlotsType
    <3> QED BY <3>1, <3>2
  <2>3. flights' \in [Keys -> Flight]
    BY <1>0, <1>9 DEF ActTypeOK
  <2> QED BY <1>0, <1>3, <1>5, <1>6, <1>9, <2>2, <2>3, AskStep
(* ... or the flight that begins has it. *)
<1>10. CASE /\ ~Closed /\ UNCHANGED slots
            /\ flights' = Enter(KeyOf(r), [at |-> "ensure", holds |-> asks[r].new, got |-> "none"])
  <2>1. PICK b \in BOOLEAN : b = asks[r].new
    BY <1>0, Asking
  <2>2. PICK f : f = [at |-> "ensure", holds |-> b, got |-> "none"]
    OBVIOUS
  <2>3. f \in Flight /\ f # NoFlight /\ f.holds = b /\ f.at = "ensure"
    BY <2>2 DEF Flight, NoFlight, Answers
  <2>4. PICK k \in Keys : k = KeyOf(r)
    BY <1>0, Asking
  <2>5. flights' = Enter(k, f) /\ k[1] = v
    BY <1>7, <1>10, <2>1, <2>2, <2>4 DEF KeyOf
  <2>6. /\ flights' \in [Keys -> Flight] /\ flights'[k] # NoFlight
        /\ \A q \in Keys : q # k => flights'[q] = flights[q]
        /\ flights[k] # NoFlight => flights' = flights
        /\ flights[k] = NoFlight => flights'[k] = f
        /\ \A q \in Keys : flights[q] # NoFlight => flights'[q] # NoFlight
    BY <1>0, <2>3, <2>5, Entered
  <2>7. ASSUME NEW w \in ActVersions PROVE Claimed(w)' <= Claimed(w)
    <3>1. CASE Reserves(asks[r], w)
      <4>1. Cardinality(Reserving(w)') + 1 = Cardinality(Reserving(w))
        BY <1>4, <1>8, <3>1, ReservingChanges
      <4>2. \/ Holds(k, flights'[k], w) /\ ~Holds(k, flights[k], w)
            \/ Holds(k, flights[k], w) <=> Holds(k, flights'[k], w)
        <5>1. CASE flights[k] = NoFlight
          BY <5>1 DEF Holds, NoFlight
        <5>2. CASE flights[k] # NoFlight
          BY <2>6, <5>2
        <5> QED BY <5>1, <5>2
      <4>3. \/ Cardinality(HeldBy(w)') = Cardinality(HeldBy(w)) + 1
            \/ Cardinality(HeldBy(w)') = Cardinality(HeldBy(w))
        BY <2>6, <4>2, HeldChanges
      <4> QED BY <4>1, <4>3, Counted, CountedNext DEF Claimed
    <3>2. CASE ~Reserves(asks[r], w)
      <4>1. Cardinality(Reserving(w)') = Cardinality(Reserving(w))
        BY <1>4, <1>8, <3>2, ReservingChanges
      <4>2. Holds(k, flights[k], w) <=> Holds(k, flights'[k], w)
        <5>1. CASE flights[k] = NoFlight
          <6>1. flights'[k] = f /\ (w # v \/ ~b)
            BY <1>8, <2>1, <2>6, <3>2, <5>1
          <6>2. ~Holds(k, f, w)
            BY <2>3, <2>5, <6>1 DEF Holds
          <6>3. ~Holds(k, flights[k], w)
            BY <5>1 DEF Holds, NoFlight
          <6> QED BY <6>1, <6>2, <6>3
        <5>2. CASE flights[k] # NoFlight
          BY <2>6, <5>2
        <5> QED BY <5>1, <5>2
      <4>3. Cardinality(HeldBy(w)') = Cardinality(HeldBy(w))
        BY <2>6, <4>2, HeldChanges
      <4> QED BY <4>1, <4>3, Counted, CountedNext DEF Claimed
    <3> QED BY <3>1, <3>2
  <2>8. SlotsFit' /\ slots' \in SlotsType
    BY <1>0, <1>10, <2>7, SlotsKept DEF ActTypeOK, SlotsType
  <2>9. group # "quiet"
    BY <1>10 DEF Closed
  <2>10. \A q \in Keys : flights'[q] = flights[q] \/ flights'[q].at # "return"
    BY <2>3, <2>6
  <2> QED BY <1>0, <1>3, <1>5, <1>6, <2>6, <2>8, <2>9, <2>10, AskStep
<1> QED
  BY <1>7, <1>9, <1>10 DEF StartShared

-----------------------------------------------------------------------------
(* The steps of a flight, and of the world around the activator. *)

\* A flight that runs moves on.
LEMMA FlightMoves ==
  ASSUME ActInv, NEW k \in Keys, NEW f \in Flight, flights' = [flights EXCEPT ![k] = f],
         flights[k].at # "none", f.at # "none", f.at = "return" => f.got # "none",
         UNCHANGED <<asks, budget, group>>,
         cold' \in [ActVersions -> Cold], SlotsFit', slots' \in SlotsType
  PROVE  ActInv'
<1>1. flights' \in [Keys -> Flight] /\ flights'[k] = f /\ \A q \in Keys : q # k => flights'[q] = flights[q]
  BY DEF ActInv, ActTypeOK
<1>2. flights[k] # NoFlight /\ f # NoFlight
  BY DEF NoFlight
<1>3. ActTypeOK'
  BY <1>1 DEF ActInv, ActTypeOK, SlotsType
<1>4. group # "quiet"
  BY <1>2 DEF ActInv, QuietHasNoFlight
<1>5. QuietHasNoFlight'
  BY <1>4 DEF QuietHasNoFlight
<1>6. ASSUME NEW q \in ActRequests, asks'[q].at = "wait"
      PROVE  asks'[q].got # "none" \/ flights'[KeyOf(q)'] # NoFlight
  <2>1. KeyOf(q) \in Keys /\ KeyOf(q)' = KeyOf(q)
    BY Asking DEF ActInv, KeyOf
  <2>2. asks[q].got # "none" \/ flights[KeyOf(q)] # NoFlight
    BY <1>6 DEF ActInv, WaiterHasFlight
  <2>3. flights[KeyOf(q)] # NoFlight => flights'[KeyOf(q)] # NoFlight
    BY <1>1, <1>2, <2>1
  <2> QED BY <2>1, <2>2, <2>3
<1>7. WaiterHasFlight'
  BY <1>6 DEF WaiterHasFlight
<1>8. NewKnown'
  BY DEF ActInv, NewKnown
<1>9. BudgetFits'
  BY BudgetKept DEF ActInv
<1>10. ResultKnown'
  BY <1>1 DEF ActInv, ResultKnown
<1> QED
  BY <1>3, <1>5, <1>7, <1>8, <1>9, <1>10 DEF ActInv

LEMMA BeginsFits ==
  ASSUME ActInv, NEW k \in Keys, BeginFlight(k) PROVE ActInv'
<1>0. /\ ActTypeOK /\ SlotsFit /\ flights[k].at = "begin" /\ flights[k] \in Flight /\ k[1] \in ActVersions
      /\ UNCHANGED <<asks, budget, cold, group>> /\ cold' \in [ActVersions -> Cold]
  BY DEF ActInv, ActTypeOK, BeginFlight, Keys
<1>1. PICK v \in ActVersions : v = k[1]
  BY <1>0
<1>2. \A w : Cardinality(Reserving(w)') = Cardinality(Reserving(w))
  BY <1>0, ReservingKept
<1>3. \A w : ~Holds(k, flights[k], w)
  BY <1>0 DEF Holds
<1>4. CASE slots' = WithSlot(k[1]) /\ flights' = [flights EXCEPT ![k].at = "ensure", ![k].holds = TRUE]
  <2>1. PICK f : f = [flights[k] EXCEPT !.at = "ensure", !.holds = TRUE]
    OBVIOUS
  <2>2. f \in Flight /\ f.at = "ensure"
    BY <1>0, <2>1 DEF Flight
  <2>3. flights' = [flights EXCEPT ![k] = f]
    BY <1>0, <1>4, <2>1 DEF ActTypeOK
  <2>4. flights'[k] = f /\ \A q \in Keys : q # k => flights'[q] = flights[q]
    BY <1>0, <2>3 DEF ActTypeOK
  <2>5. ASSUME NEW w \in ActVersions
        PROVE  Claimed(w)' <= Claimed(w) + 1 /\ (w # v => Claimed(w)' <= Claimed(w))
    <3>1. w # v => ~Holds(k, flights'[k], w)
      BY <1>1 DEF Holds
    <3>2. /\ \/ Cardinality(HeldBy(w)') = Cardinality(HeldBy(w)) + 1
             \/ Cardinality(HeldBy(w)') = Cardinality(HeldBy(w))
          /\ w # v => Cardinality(HeldBy(w)') = Cardinality(HeldBy(w))
      BY <1>3, <2>4, <3>1, HeldChanges
    <3> QED BY <1>2, <3>2, Counted DEF Claimed
  <2>6. SlotsFit' /\ slots' \in SlotsType
    BY <1>0, <1>1, <1>4, <2>5, SlotTaken
  <2> QED BY <1>0, <2>2, <2>3, <2>6, FlightMoves
<1>5. CASE UNCHANGED slots /\ flights' = [flights EXCEPT ![k].at = "return", ![k].got = "queue_full"]
  <2>1. PICK f : f = [flights[k] EXCEPT !.at = "return", !.got = "queue_full"]
    OBVIOUS
  <2>2. f \in Flight /\ f.at = "return" /\ f.got # "none"
    BY <1>0, <2>1 DEF Flight, Answers
  <2>3. flights' = [flights EXCEPT ![k] = f]
    BY <1>0, <1>5, <2>1 DEF ActTypeOK
  <2>4. flights'[k] = f /\ \A q \in Keys : q # k => flights'[q] = flights[q]
    BY <1>0, <2>3 DEF ActTypeOK
  <2>5. ASSUME NEW w \in ActVersions PROVE Claimed(w)' <= Claimed(w)
    <3>1. ~Holds(k, flights'[k], w)
      BY <2>2, <2>4 DEF Holds
    <3>2. Cardinality(HeldBy(w)') = Cardinality(HeldBy(w))
      BY <1>3, <2>4, <3>1, HeldChanges
    <3> QED BY <1>2, <3>2, Counted DEF Claimed
  <2>6. SlotsFit' /\ slots' \in SlotsType
    BY <1>0, <1>5, <2>5, SlotsKept DEF ActTypeOK, SlotsType
  <2> QED BY <1>0, <2>2, <2>3, <2>6, FlightMoves
<1> QED
  BY <1>4, <1>5 DEF BeginFlight

LEMMA ReturnsFits ==
  ASSUME ActInv, NEW k \in Keys, flights[k].at \in {"ensure", "poll"}, NEW a \in Answers \ {"none"}, Return(k, a),
         UNCHANGED <<asks, budget, cold, group>>
  PROVE  ActInv'
<1>0. ActTypeOK /\ SlotsFit /\ flights[k] \in Flight /\ k[1] \in ActVersions /\ cold' \in [ActVersions -> Cold]
  BY DEF ActInv, ActTypeOK, Keys
<1>1. PICK v \in ActVersions : v = k[1]
  BY <1>0
<1>2. PICK f : f = [at |-> "return", holds |-> FALSE, got |-> a]
  OBVIOUS
<1>3. f \in Flight /\ f.at = "return" /\ f.got # "none"
  BY <1>2 DEF Flight
<1>4. flights' = [flights EXCEPT ![k] = f] /\ slots' = IF flights[k].holds THEN WithoutSlot(v) ELSE slots
  BY <1>1, <1>2 DEF Return
<1>5. flights'[k] = f /\ \A q \in Keys : q # k => flights'[q] = flights[q]
  BY <1>0, <1>4 DEF ActTypeOK
<1>6. \A w : Cardinality(Reserving(w)') = Cardinality(Reserving(w))
  BY ReservingKept
<1>7. /\ \A w : ~Holds(k, flights'[k], w)
      /\ \A w : Holds(k, flights[k], w) <=> w = v /\ flights[k].holds
  BY <1>1, <1>3, <1>5 DEF Holds
<1>8. ASSUME NEW w \in ActVersions
      PROVE  /\ w = v /\ flights[k].holds => Claimed(w)' + 1 <= Claimed(w)
             /\ Claimed(w)' <= Claimed(w)
  <2>1. /\ w = v /\ flights[k].holds => Cardinality(HeldBy(w)') + 1 = Cardinality(HeldBy(w))
        /\ \/ Cardinality(HeldBy(w)') + 1 = Cardinality(HeldBy(w))
           \/ Cardinality(HeldBy(w)') = Cardinality(HeldBy(w))
    BY <1>5, <1>7, HeldChanges
  <2> QED BY <1>6, <2>1, Counted, CountedNext DEF Claimed
<1>9. SlotsFit' /\ slots' \in SlotsType
  <2>1. CASE flights[k].holds
    <3>1. slots' = WithoutSlot(v) /\ Claimed(v)' + 1 <= Claimed(v)
      BY <1>4, <1>8, <2>1
    <3> QED BY <1>0, <1>8, <3>1, SlotGiven
  <2>2. CASE ~flights[k].holds
    BY <1>0, <1>4, <1>8, <2>2, SlotsKept DEF ActTypeOK, SlotsType
  <2> QED BY <2>1, <2>2
<1> QED
  BY <1>0, <1>3, <1>4, <1>9, FlightMoves

LEMMA RaisesFits ==
  ASSUME ActInv, NEW k \in Keys, Ensure(k) PROVE ActInv'
<1>0. /\ ActTypeOK /\ SlotsFit /\ flights[k].at = "ensure" /\ flights[k] \in Flight /\ k[1] \in ActVersions
      /\ UNCHANGED <<asks, budget, group>>
  BY DEF ActInv, ActTypeOK, Ensure, Keys
<1>1. \/ \E a \in {"not_ready", "capacity", "control", "timeout"} : Return(k, a) /\ UNCHANGED cold
      \/ /\ cold[k[1]].wanted \/ cold[k[1]].gen < MaxGen
         /\ cold' = [cold EXCEPT ![k[1]].wanted = TRUE, ![k[1]].gen = IF cold[k[1]].wanted THEN @ ELSE @ + 1]
         /\ flights' = [flights EXCEPT ![k].at = "poll"] /\ UNCHANGED slots
  BY DEF Ensure
<1>2. ASSUME NEW a \in {"not_ready", "capacity", "control", "timeout"}, Return(k, a), UNCHANGED cold PROVE ActInv'
  BY <1>0, <1>2, ReturnsFits DEF Answers
<1>3. CASE /\ cold[k[1]].wanted \/ cold[k[1]].gen < MaxGen
           /\ cold' = [cold EXCEPT ![k[1]].wanted = TRUE, ![k[1]].gen = IF cold[k[1]].wanted THEN @ ELSE @ + 1]
           /\ flights' = [flights EXCEPT ![k].at = "poll"] /\ UNCHANGED slots
  <2>1. PICK f : f = [flights[k] EXCEPT !.at = "poll"]
    OBVIOUS
  <2>2. f \in Flight /\ f.at = "poll" /\ f.holds = flights[k].holds
    BY <1>0, <2>1 DEF Flight
  <2>3. flights' = [flights EXCEPT ![k] = f]
    BY <1>0, <1>3, <2>1 DEF ActTypeOK
  <2>4. flights'[k] = f /\ \A q \in Keys : q # k => flights'[q] = flights[q]
    BY <1>0, <2>3 DEF ActTypeOK
  <2>5. ASSUME NEW w \in ActVersions PROVE Claimed(w)' <= Claimed(w)
    <3>1. Holds(k, flights[k], w) <=> Holds(k, flights'[k], w)
      BY <1>0, <2>2, <2>4 DEF Holds
    <3>2. Cardinality(HeldBy(w)') = Cardinality(HeldBy(w))
      BY <2>4, <3>1, HeldChanges
    <3>3. Cardinality(Reserving(w)') = Cardinality(Reserving(w))
      BY <1>0, ReservingKept
    <3> QED BY <3>2, <3>3, Counted DEF Claimed
  <2>6. SlotsFit' /\ slots' \in SlotsType
    BY <1>0, <1>3, <2>5, SlotsKept DEF ActTypeOK, SlotsType
  <2>7. cold' \in [ActVersions -> Cold]
    <3>1. PICK v \in ActVersions : v = k[1]
      BY <1>0
    <3>2. PICK g : g = IF cold[v].wanted THEN cold[v].gen ELSE cold[v].gen + 1
      OBVIOUS
    <3>3. cold[v] \in Cold /\ cold[v].gen \in 0 .. MaxGen /\ MaxGen \in Nat
      BY <1>0, ActivatorAssumption DEF ActTypeOK, Cold
    <3>4. g \in 0 .. MaxGen
      <4>1. CASE cold[v].wanted
        BY <3>2, <3>3, <4>1
      <4>2. CASE ~cold[v].wanted
        <5>1. cold[v].gen < MaxGen /\ g = cold[v].gen + 1
          BY <1>3, <3>1, <3>2, <4>2
        <5> QED BY <3>3, <5>1
      <4> QED BY <4>1, <4>2
    <3>5. PICK c : c = [cold[v] EXCEPT !.wanted = TRUE, !.gen = g]
      OBVIOUS
    <3>6. c \in Cold
      BY <3>3, <3>4, <3>5 DEF Cold
    <3>7. cold' = [cold EXCEPT ![v] = c]
      BY <1>0, <1>3, <3>1, <3>2, <3>5 DEF ActTypeOK
    <3> QED BY <1>0, <3>6, <3>7 DEF ActTypeOK
  <2> QED BY <1>0, <2>2, <2>3, <2>6, <2>7, FlightMoves
<1> QED
  BY <1>1, <1>2, <1>3

LEMMA PollsFits ==
  ASSUME ActInv, NEW k \in Keys, Poll(k) PROVE ActInv'
<1>1. PICK a \in {"proxy", "timeout"} : Return(k, a)
  BY DEF Poll
<1>2. a \in Answers \ {"none"} /\ flights[k].at = "poll" /\ UNCHANGED <<asks, budget, cold, group>>
  BY DEF Poll, Answers
<1> QED
  BY <1>1, <1>2, ReturnsFits

LEMMA EndsFits ==
  ASSUME ActInv, NEW k \in Keys, EndFlight(k) PROVE ActInv'
<1>0. ActTypeOK /\ flights[k].at = "return" /\ flights[k] \in Flight /\ UNCHANGED <<slots, budget, cold, group>>
  BY DEF ActInv, ActTypeOK, EndFlight
<1>1. PICK a \in Answers : a = flights[k].got
  BY <1>0 DEF Flight
<1>2. a # "none"
  BY <1>0, <1>1 DEF ActInv, ResultKnown
<1>3. NoFlight \in Flight
  BY DEF NoFlight, Flight, Answers
<1>4. flights' = [flights EXCEPT ![k] = NoFlight]
  BY DEF EndFlight
<1>5. /\ flights' \in [Keys -> Flight] /\ flights'[k] = NoFlight
      /\ \A q \in Keys : q # k => flights'[q] = flights[q]
  BY <1>0, <1>3, <1>4 DEF ActTypeOK
<1>6. /\ DOMAIN asks' = ActRequests /\ asks' = [r \in ActRequests |-> asks'[r]]
      /\ \A r \in ActRequests :
           asks'[r] = IF asks[r].at = "wait" /\ KeyOf(r) = k /\ asks[r].got = "none"
                      THEN [asks[r] EXCEPT !.got = a] ELSE asks[r]
  BY <1>1 DEF EndFlight
<1>7. ASSUME NEW r \in ActRequests
      PROVE  /\ asks'[r] \in Ask /\ asks'[r].at = asks[r].at /\ asks'[r].ver = asks[r].ver
             /\ asks'[r].gen = asks[r].gen /\ asks'[r].body = asks[r].body /\ asks'[r].new = asks[r].new
             /\ asks[r].got # "none" => asks'[r].got # "none"
             /\ asks[r].at = "wait" /\ KeyOf(r) = k => asks'[r].got # "none"
  <2>1. asks[r] \in Ask
    BY <1>0, Asking
  <2>2. CASE asks[r].at = "wait" /\ KeyOf(r) = k /\ asks[r].got = "none"
    <3>1. asks'[r] = [asks[r] EXCEPT !.got = a]
      BY <1>6, <2>2
    <3> QED BY <1>2, <2>1, <3>1 DEF Ask
  <2>3. CASE ~(asks[r].at = "wait" /\ KeyOf(r) = k /\ asks[r].got = "none")
    <3>1. asks'[r] = asks[r]
      BY <1>6, <2>3
    <3> QED BY <2>1, <2>3, <3>1
  <2> QED BY <2>2, <2>3
<1>8. ActTypeOK'
  <2>1. asks' \in [ActRequests -> Ask]
    BY <1>6, <1>7
  <2> QED BY <1>0, <1>5, <2>1 DEF ActTypeOK
<1>9. BudgetFits'
  BY <1>0, <1>7, BudgetKept DEF ActInv
<1>10. ASSUME NEW w \in ActVersions PROVE Claimed(w)' <= Claimed(w)
  <2>1. ~Holds(k, flights[k], w) /\ ~Holds(k, flights'[k], w)
    BY <1>0, <1>5 DEF Holds, NoFlight
  <2>2. Cardinality(HeldBy(w)') = Cardinality(HeldBy(w))
    BY <1>5, <2>1, HeldChanges
  <2>3. Cardinality(Reserving(w)') = Cardinality(Reserving(w))
    BY <1>7, ReservingKept
  <2> QED BY <2>2, <2>3, Counted DEF Claimed
<1>11. SlotsFit'
  BY <1>0, <1>10, SlotsKept DEF ActInv
<1>12. QuietHasNoFlight'
  BY <1>0, <1>5 DEF ActInv, QuietHasNoFlight
<1>13. ASSUME NEW r \in ActRequests, asks'[r].at = "wait"
       PROVE  asks'[r].got # "none" \/ flights'[KeyOf(r)'] # NoFlight
  <2>1. KeyOf(r) \in Keys /\ KeyOf(r)' = KeyOf(r)
    BY <1>0, <1>7, Asking DEF KeyOf
  <2>2. asks[r].at = "wait" /\ (asks[r].got # "none" \/ flights[KeyOf(r)] # NoFlight)
    BY <1>7, <1>13 DEF ActInv, WaiterHasFlight
  <2> QED BY <1>5, <1>7, <2>1, <2>2
<1>14. WaiterHasFlight'
  BY <1>13 DEF WaiterHasFlight
<1>15. NewKnown'
  BY <1>7 DEF ActInv, NewKnown
<1>16. ResultKnown'
  BY <1>5 DEF ActInv, ResultKnown, NoFlight
<1> QED
  BY <1>8, <1>9, <1>11, <1>12, <1>14, <1>15, <1>16 DEF ActInv

\* Nothing but the versions or the group changes, or nothing at all.
LEMMA AroundFits ==
  ASSUME ActInv, UNCHANGED <<asks, flights, slots, budget>>, cold' \in [ActVersions -> Cold],
         group' \in {"open", "cancelled", "closed", "quiet"}, QuietHasNoFlight'
  PROVE  ActInv'
<1>1. ActTypeOK'
  BY DEF ActInv, ActTypeOK
<1>2. BudgetFits'
  BY BudgetKept DEF ActInv
<1>3. ASSUME NEW w \in ActVersions PROVE Claimed(w)' <= Claimed(w)
  <2>1. Cardinality(HeldBy(w)') = Cardinality(HeldBy(w)) /\ Cardinality(Reserving(w)') = Cardinality(Reserving(w))
    BY HeldKept, ReservingKept
  <2> QED BY <2>1, Counted DEF Claimed
<1>4. SlotsFit'
  BY <1>3, SlotsKept DEF ActInv
<1>5. WaiterHasFlight'
  BY DEF ActInv, WaiterHasFlight, KeyOf
<1>6. NewKnown' /\ ResultKnown'
  BY DEF ActInv, NewKnown, ResultKnown
<1> QED
  BY <1>1, <1>2, <1>4, <1>5, <1>6 DEF ActInv

LEMMA GroupFits ==
  ASSUME ActInv, CloseGroup \/ Quiesce PROVE ActInv'
<1>1. UNCHANGED <<asks, flights, slots, budget, cold>> /\ cold' \in [ActVersions -> Cold]
  BY DEF CloseGroup, Quiesce, ActInv, ActTypeOK
<1>2. group' \in {"open", "cancelled", "closed", "quiet"} /\ QuietHasNoFlight'
  BY DEF CloseGroup, Quiesce, QuietHasNoFlight
<1> QED
  BY <1>1, <1>2, AroundFits

LEMMA ColdFits ==
  ASSUME ActInv, NEW v \in ActVersions, WarmUp(v) \/ ScaleToZero(v) \/ Retire(v) PROVE ActInv'
<1>0. cold \in [ActVersions -> Cold] /\ cold[v] \in Cold /\ MaxGen \in Nat /\ cold[v].gen \in 0 .. MaxGen
  BY ActivatorAssumption DEF ActInv, ActTypeOK, Cold
<1>1. UNCHANGED <<asks, flights, slots, budget, group>>
  BY DEF WarmUp, ScaleToZero, Retire
<1>2. group' \in {"open", "cancelled", "closed", "quiet"} /\ QuietHasNoFlight'
  BY <1>1 DEF ActInv, ActTypeOK, QuietHasNoFlight
<1>3. cold' \in [ActVersions -> Cold]
  <2>1. CASE WarmUp(v)
    <3>1. PICK c : c = [cold[v] EXCEPT !.warm = TRUE]
      OBVIOUS
    <3>2. c \in Cold
      BY <1>0, <3>1 DEF Cold
    <3>3. cold' = [cold EXCEPT ![v] = c]
      BY <1>0, <2>1, <3>1 DEF WarmUp
    <3> QED BY <1>0, <3>2, <3>3
  <2>2. CASE ScaleToZero(v)
    <3>1. PICK w \in {cold[v].warm, FALSE} :
            cold' = [cold EXCEPT ![v].wanted = FALSE, ![v].gen = @ + 1, ![v].warm = w]
      BY <2>2 DEF ScaleToZero
    <3>2. w \in BOOLEAN
      BY <1>0, <3>1 DEF Cold
    <3>3. PICK g \in 0 .. MaxGen : g = cold[v].gen + 1
      BY <1>0, <2>2 DEF ScaleToZero
    <3>4. PICK c : c = [cold[v] EXCEPT !.wanted = FALSE, !.gen = g, !.warm = w]
      OBVIOUS
    <3>5. c \in Cold
      BY <1>0, <3>2, <3>3, <3>4 DEF Cold
    <3>6. cold' = [cold EXCEPT ![v] = c]
      BY <1>0, <3>1, <3>3, <3>4
    <3> QED BY <1>0, <3>5, <3>6
  <2>3. CASE Retire(v)
    <3>1. PICK c : c = [cold[v] EXCEPT !.archived = TRUE, !.warm = FALSE]
      OBVIOUS
    <3>2. c \in Cold
      BY <1>0, <3>1 DEF Cold
    <3>3. cold' = [cold EXCEPT ![v] = c]
      BY <1>0, <2>3, <3>1 DEF Retire
    <3> QED BY <1>0, <3>2, <3>3
  <2> QED BY <2>1, <2>2, <2>3
<1> QED
  BY <1>1, <1>2, <1>3, AroundFits

-----------------------------------------------------------------------------
(* The theorem. *)

LEMMA ActInitFits == ActInit => ActInv
<1> SUFFICES ASSUME ActInit PROVE ActInv
  OBVIOUS
<1>0. PICK v \in ActVersions : v = CHOOSE u \in ActVersions : TRUE
  BY ActivatorAssumption
<1>1. 0 \in 0 .. MaxGen /\ 0 \in Nat /\ MaxGen \in Nat
  BY ActivatorAssumption
<1>2. /\ asks = [r \in ActRequests |-> NoAsk(v)] /\ flights = [k \in Keys |-> NoFlight]
      /\ \A r \in ActRequests : asks[r] = NoAsk(v)
      /\ \A k \in Keys : flights[k] = NoFlight
  BY <1>0 DEF ActInit
<1>3. NoAsk(v) \in Ask /\ NoFlight \in Flight
  BY <1>1 DEF NoAsk, Ask, NoFlight, Flight, Answers
<1>4. ActTypeOK
  <2>1. asks \in [ActRequests -> Ask] /\ flights \in [Keys -> Flight]
    BY <1>2, <1>3
  <2>2. slots \in SlotsType /\ budget \in BudgetType
    BY <1>1 DEF ActInit, SlotsType, BudgetType
  <2>3. cold \in [ActVersions -> Cold] /\ group \in {"open", "cancelled", "closed", "quiet"}
    BY <1>1 DEF ActInit, Cold
  <2> QED BY <2>1, <2>2, <2>3 DEF ActTypeOK, SlotsType, BudgetType
<1>5. \A w : Holding(w) = {} /\ Reserving(w) = {} /\ HeldBy(w) = {}
  BY <1>2 DEF Holding, Reserving, HeldBy, Flying, NoAsk, NoFlight
<1>6. \A w : BytesHeld(w) = [r \in ActRequests |-> 0]
  BY <1>5 DEF BytesHeld
<1>7. \A w : IsFiniteSet(Units(BytesHeld(w))) /\ Total(BytesHeld(w)) = 0
  BY <1>6, TotalNone
<1>8. /\ budget.all = 0 /\ budget.bytes = 0 /\ slots.all = 0
      /\ budget.ver = [w \in ActVersions |-> 0] /\ budget.verBytes = [w \in ActVersions |-> 0]
      /\ slots.ver = [w \in ActVersions |-> 0]
  BY DEF ActInit
<1>9. /\ IsFiniteSet(Units(budget.ver)) /\ Total(budget.ver) = 0
      /\ IsFiniteSet(Units(budget.verBytes)) /\ Total(budget.verBytes) = 0
      /\ IsFiniteSet(Units(slots.ver)) /\ Total(slots.ver) = 0
  BY <1>8, TotalNone
<1>10. Cardinality({}) = 0
  BY FS_EmptySet
<1>11. 0 <= WaitMax /\ 0 <= BytesMax /\ 0 <= VersionWaitMax /\ 0 <= VersionBytesMax
  BY ActivatorAssumption
<1>12. BudgetFits
  BY <1>5, <1>7, <1>8, <1>9, <1>10, <1>11 DEF BudgetFits, BudgetIsWaiters
<1>13. SlotsFit
  <2>1. \A w \in ActVersions : slots.ver[w] = 0 /\ Cardinality(HeldBy(w)) = 0 /\ Cardinality(Reserving(w)) = 0
    BY <1>5, <1>8, <1>10
  <2>2. \A w \in ActVersions : slots.ver[w] >= Cardinality(HeldBy(w)) + Cardinality(Reserving(w))
    BY <2>1
  <2> QED BY <1>8, <1>9, <2>2 DEF SlotsFit, SlotsCoverFlights
<1>14. QuietHasNoFlight
  BY <1>2 DEF QuietHasNoFlight
<1>15. WaiterHasFlight
  BY <1>2 DEF WaiterHasFlight, NoAsk
<1>16. NewKnown /\ ResultKnown
  BY <1>2 DEF NewKnown, ResultKnown, NoAsk, NoFlight
<1> QED
  BY <1>4, <1>12, <1>13, <1>14, <1>15, <1>16 DEF ActInv

LEMMA ActNextFits == ActInv /\ [ActNext]_actVars => ActInv'
<1> SUFFICES ASSUME ActInv, [ActNext]_actVars PROVE ActInv'
  OBVIOUS
<1>1. ASSUME NEW r \in ActRequests, RequestStep(r) PROVE ActInv'
  BY <1>1, ReadsFits, AdmitsFits, WaitsFits, LeavesFits, HasFits, AcquiresFits, StartsSharedFits DEF RequestStep
<1>2. ASSUME NEW r \in ActRequests, GiveUp(r) PROVE ActInv'
  BY <1>2, LeavesFits
<1>3. ASSUME NEW r \in ActRequests, NEW v \in ActVersions, ArriveDead(r, v) PROVE ActInv'
  BY <1>3, ArrivesDeadFits
<1>4. ASSUME NEW r \in ActRequests, NEW v \in ActVersions, NEW n \in Bodies, Arrive(r, v, n) PROVE ActInv'
  BY <1>4, ArrivesFits
<1>5. ASSUME NEW k \in Keys, FlightStep(k) PROVE ActInv'
  BY <1>5, BeginsFits, RaisesFits, PollsFits, EndsFits DEF FlightStep
<1>6. ASSUME CloseGroup \/ Quiesce PROVE ActInv'
  BY <1>6, GroupFits
<1>7. ASSUME NEW v \in ActVersions, WarmUp(v) \/ ScaleToZero(v) \/ Retire(v) PROVE ActInv'
  BY <1>7, ColdFits
<1>8. CASE UNCHANGED actVars
  <2>1. UNCHANGED <<asks, flights, slots, budget>> /\ cold' = cold /\ group' = group
    BY <1>8 DEF actVars
  <2>2. cold' \in [ActVersions -> Cold] /\ group' \in {"open", "cancelled", "closed", "quiet"} /\ QuietHasNoFlight'
    BY <2>1 DEF ActInv, ActTypeOK, QuietHasNoFlight
  <2> QED BY <2>1, <2>2, AroundFits
<1> QED
  BY <1>1, <1>2, <1>3, <1>4, <1>5, <1>6, <1>7, <1>8 DEF ActNext

(* Of every behaviour of the activator, whatever its limits: each request    *)
(* that waits is counted once in the budget, with its bytes, and none that   *)
(* left is; the slots cover the flights that hold one and the requests that  *)
(* reserved one; a waiter has its flight or its answer; no flight runs once  *)
(* Shutdown has returned (gateway/activator: budget.go, flight.go,           *)
(* admission.go).                                                            *)
THEOREM AdmissionHolds == ActSpec => []AdmissionSound
<1>1. ActInv => AdmissionSound
  BY DEF ActInv, BudgetFits, SlotsFit, AdmissionSound
<1> QED
  BY <1>1, ActInitFits, ActNextFits, PTL DEF ActSpec

===============================================================================
