-------------------------- MODULE ProdSwitch_proofs --------------------------
(***************************************************************************)
(* Proofs about ProdSwitch, for any number of versions, slots, faults and   *)
(* cuts: of calls that are made one after the other, and of promotions that  *)
(* overlap.                                                                 *)
(***************************************************************************)
EXTENDS ProdSwitch, TLAPS, FiniteSetTheorems

\* Calls are made one after the other.
OneCall == MaxCalls = 1

\* One thing is under way at a time, and a call that ended left nothing behind.
Solo ==
  /\ \A x, y \in Underway : x = y
  /\ \A s \in Slots : call[s].pc = "idle" \/ cron[s].pc = "idle"
  /\ \A a \in Actors : call[a].pc = "idle" => call[a] = NoCall

SwitchPCs == {"drain", "deactivate", "gate", "commit", "activate"} \cup UndoPCs

\* What a promotion knows of prod.
PromoteFits(k) ==
  /\ versions[k.v].status = "ready"
  /\ k.pc \in UndoPCs => faults > 0
  /\ k.pc \in SwitchPCs =>
       /\ k.old # k.v /\ k.old = IF k.was \in Versions THEN k.was ELSE NoVersion
       /\ k.old # NoVersion => versions[k.old].status \notin {"archived", "deploying"}
       /\ k.pc \in {"drain", "deactivate", "undoagain", "undoold"} => k.old # NoVersion
       /\ k.pc \in {"drain", "deactivate", "gate", "commit", "gateoff"} => project.prod = k.was
       /\ k.pc \in {"activate", "undocas"} => project.prod = k.v /\ versions[k.v].route = "active"
       /\ k.pc \in {"undotarget", "undoagain", "undoold"} /\ faults <= 1 => project.prod # k.v

\* What an archive knows of its version, and the reaper's of the previous prod.
ArchiveFits(a, k) ==
  /\ versions[k.v].status \in {"ready", "draining"} /\ (faults = 0 => versions[k.v].data)
  /\ k.pc = "acheck" => versions[k.v].status = "ready"
  /\ k.pc # "acheck" => project.prod # k.v
  /\ faults = 0 /\ k.pc \in {"aroute", "aset"} => versions[k.v].status = "draining"
  /\ faults = 0 /\ k.pc = "aset" /\ k.v \notin Elastic =>
       versions[k.v].route = "inactive" /\ versions[k.v].up = "down"
  /\ a = Reaper => ~(project.previous = k.v /\ project.kept)

CallFits(a) ==
  LET k == call[a] IN
  /\ k.v \in Versions
  /\ a = Reaper => k.pc \in ArchivePCs
  /\ k.pc \in PromotePCs \cup UndoPCs => PromoteFits(k)
  /\ k.pc \in ArchivePCs => ArchiveFits(a, k)
  /\ k.pc \in WakePCs =>
       versions[k.v].status = "archived" /\ (k.pc = "wready" /\ k.v \notin Elastic => versions[k.v].up = "recorded")
  /\ k.pc \in DestroyPCs =>
       /\ versions[k.v].status \in {"ready", "draining", "archived"}
       /\ faults = 0 /\ k.pc \in {"droute", "ddata", "dset"} => versions[k.v].status = "draining"

CronFits(k) ==
  /\ k.new \in Versions \/ k.old \in Versions
  /\ k.old \in Versions => project.prod # k.old /\ versions[k.old].status # "archived"
  /\ k.pc = "step" => k.prod = project.prod

\* A version before and after its deploy.
DeployFits(v) ==
  /\ dep[v].pc \in {"new", "deploy", "serve"} =>
       /\ versions[v].status = "deploying" /\ versions[v].route = "none" /\ versions[v].data
       /\ project.prod # v
  /\ dep[v].pc \in {"bootstrap", "done"} => versions[v].status # "deploying" /\ versions[v].route # "none"
  /\ dep[v].pc = "bootstrap" => versions[v].status = "ready" /\ versions[v].route = "active"

PassFits ==
  pass.pc = "on" =>
    pass.project.previous = project.previous /\ (project.kept => pass.project.kept)

SwitchInv ==
  /\ OneCall /\ TypeOK /\ Solo /\ NeverArchiveProd /\ PassFits
  /\ \A a \in Actors : call[a].pc # "idle" => CallFits(a)
  /\ \A s \in Slots : cron[s].pc # "idle" => CronFits(cron[s])
  /\ \A v \in Versions : DeployFits(v)

-----------------------------------------------------------------------------
\* Who may find the route of a ready prod off: the promotion that drained it, or its destroy.
Excuses(k, v) ==
  \/ k.old = v /\ k.pc \in {"deactivate", "gate", "commit", "gateoff", "undotarget", "undoagain", "undoold"}
  \/ k.v = v /\ k.pc \in {"ddata", "dset"}

ServesInv ==
  faults <= 1 /\ cuts = 0 => \A v \in Versions :
    project.prod = v /\ versions[v].status = "ready" /\ versions[v].route # "active" =>
      \E s \in Slots : Excuses(call[s], v)

\* Without a fault a version loses its data when it is no longer to be served, and is
\* archived when it is off.
DataInv == faults = 0 => ServedHasData

OffInv ==
  faults = 0 /\ cuts = 0 => \A v \in Versions \ Elastic :
    versions[v].status = "archived" /\ (\A a \in Actors : ~(call[a].v = v /\ call[a].pc = "wready"))
    => versions[v].route = "inactive" /\ versions[v].up = "down"

\* A version that serves, may be woken, or is being archived.
Live(v) ==
  \/ versions[v].status \in {"ready", "archived"}
  \/ \E a \in Actors : call[a].v = v /\ call[a].pc \in ArchivePCs

\* Its triggers will be taken from it: it was prod until now.
ToDisarm(v) ==
  \E s \in Slots : \/ call[s].pc = "activate" /\ call[s].old = v
                   \/ cron[s].pc # "idle" /\ cron[s].old = v

ArmInv ==
  faults = 0 /\ cuts = 0 /\ Elastic = {} =>
    /\ project.prod # Blank
    /\ project.prod = NoVersion => \A v \in Versions : dep[v].pc # "done"
    /\ \A v \in Versions :
         /\ versions[v].status = "ready" => versions[v].up = "recorded"
         /\ dep[v].pc \in {"deploy", "serve", "bootstrap"} =>
              (dep[v].arm => project.prod = NoVersion) /\ (dep[v].boot <=> project.prod = NoVersion)
         /\ dep[v].pc \in {"serve", "bootstrap"} /\ versions[v].armed => dep[v].arm
         /\ Live(v) /\ versions[v].armed => project.prod \in {v, NoVersion} \/ ToDisarm(v)

AllInv == SwitchInv /\ ServesInv /\ DataInv /\ OffInv /\ ArmInv

-----------------------------------------------------------------------------
(* Who is under way.                                                        *)

\* The names of actors, versions and the two empty prods differ.
LEMMA ActorFacts ==
  /\ Reaper \in Actors /\ Slots \subseteq Actors /\ Reaper \notin Slots
  /\ \A a \in Actors : a \in Slots \/ a = Reaper
  /\ \A a \in Actors, v \in Versions : a # v
  /\ NoVersion \notin Versions /\ Blank \notin Versions /\ NoVersion # Blank
BY ActorsAssumption, VersionsAssumption DEF Actors

\* Nobody but the actor has anything under way.
Alone(a) ==
  /\ \A b \in Actors \ {a} : call[b] = NoCall
  /\ \A s \in Slots : cron[s].pc = "idle"
  /\ \A v \in Versions : dep[v].pc \in {"new", "done"}
  /\ pass.pc = "off" \/ a = Reaper

\* Underway, as a predicate.
LEMMA UnderwayFacts ==
  \A x : x \in Underway <=>
    \/ x \in Actors /\ call[x].pc # "idle"
    \/ x \in Slots /\ cron[x].pc # "idle"
    \/ x \in Versions /\ dep[x].pc \notin {"new", "done"}
    \/ x = Reaper /\ pass.pc # "off"
BY DEF Underway

\* While a call is under way nothing else is.
LEMMA AloneCall == ASSUME Solo, NEW a \in Actors, call[a].pc # "idle" PROVE Alone(a)
<1>1. a \in Underway
  BY UnderwayFacts
<1>2. \A x \in Underway : x = a
  BY <1>1 DEF Solo
<1>3. \A b \in Actors \ {a} : call[b] = NoCall
  BY <1>2, UnderwayFacts DEF Solo
<1>4. \A s \in Slots : cron[s].pc = "idle"
  BY <1>2, UnderwayFacts DEF Solo
<1>5. \A v \in Versions : dep[v].pc \in {"new", "done"}
  BY <1>2, UnderwayFacts, ActorFacts
<1>6. pass.pc = "off" \/ a = Reaper
  BY <1>2, UnderwayFacts
<1>7. QED BY <1>3, <1>4, <1>5, <1>6 DEF Alone

\* While the reaper's pass is under way nothing else is.
LEMMA AlonePass == ASSUME Solo, pass.pc # "off" PROVE Alone(Reaper)
<1>1. Reaper \in Underway
  BY UnderwayFacts
<1>2. \A x \in Underway : x = Reaper
  BY <1>1 DEF Solo
<1>3. \A b \in Actors \ {Reaper} : call[b] = NoCall
  BY <1>2, UnderwayFacts DEF Solo
<1>4. \A s \in Slots : cron[s].pc = "idle"
  BY <1>2, UnderwayFacts, ActorFacts
<1>5. \A v \in Versions : dep[v].pc \in {"new", "done"}
  BY <1>2, UnderwayFacts, ActorFacts
<1>6. QED BY <1>3, <1>4, <1>5 DEF Alone

\* While a reconciliation is under way nothing else is.
LEMMA AloneCron ==
  ASSUME Solo, NEW s \in Slots, cron[s].pc # "idle"
  PROVE  /\ \A a \in Actors : call[a] = NoCall
         /\ \A t \in Slots \ {s} : cron[t].pc = "idle"
         /\ \A v \in Versions : dep[v].pc \in {"new", "done"}
         /\ pass.pc = "off"
<1>1. s \in Underway
  BY UnderwayFacts
<1>2. \A x \in Underway : x = s
  BY <1>1 DEF Solo
<1>3. \A a \in Actors : call[a] = NoCall
  BY <1>2, UnderwayFacts DEF Solo
<1>4. QED BY <1>2, <1>3, UnderwayFacts, ActorFacts

\* While a deploy is under way nothing else is.
LEMMA AloneDeploy ==
  ASSUME Solo, NEW v \in Versions, dep[v].pc \notin {"new", "done"}
  PROVE  /\ \A a \in Actors : call[a] = NoCall
         /\ \A s \in Slots : cron[s].pc = "idle"
         /\ \A w \in Versions \ {v} : dep[w].pc \in {"new", "done"}
         /\ pass.pc = "off"
<1>1. v \in Underway
  BY UnderwayFacts
<1>2. \A x \in Underway : x = v
  BY <1>1 DEF Solo
<1>3. \A a \in Actors : call[a] = NoCall
  BY <1>2, UnderwayFacts, ActorFacts DEF Solo
<1>4. QED BY <1>2, <1>3, UnderwayFacts, ActorFacts

\* There is room for a call when nothing is under way.
LEMMA RoomIsQuiet ==
  ASSUME OneCall, Solo, Room
  PROVE  /\ Underway = {} /\ \A a \in Actors : call[a] = NoCall /\ Alone(a)
         /\ pass.pc = "off"
<1>1. IsFiniteSet(Slots) /\ IsFiniteSet(Versions)
  BY ActorsAssumption, VersionsAssumption
<1>2. IsFiniteSet(Slots \cup {Reaper}) /\ Underway \subseteq (Slots \cup {Reaper}) \cup Versions
  BY <1>1, FS_AddElement DEF Underway, Actors
<1>3. IsFiniteSet((Slots \cup {Reaper}) \cup Versions)
  BY <1>1, <1>2, FS_Union
<1>4. IsFiniteSet(Underway) /\ Cardinality(Underway) \in Nat
  BY <1>2, <1>3, FS_Subset, FS_CardinalityType
<1>5. Cardinality(Underway) = 0
  BY <1>4 DEF Room, OneCall
<1>6. Underway = {}
  BY <1>4, <1>5, FS_EmptySet
<1>7. \A a \in Actors : call[a] = NoCall
  BY <1>6, UnderwayFacts DEF Solo
<1>8. /\ \A s \in Slots : cron[s].pc = "idle"
      /\ \A v \in Versions : dep[v].pc \in {"new", "done"}
      /\ pass.pc = "off"
  BY <1>6, UnderwayFacts, ActorFacts
<1>9. QED BY <1>6, <1>7, <1>8 DEF Alone

\* A step that leaves the others with nothing leaves one thing under way.
LEMMA SoloAlone == ASSUME NEW a \in Actors, Alone(a)', call'[a].pc = "idle" => call'[a] = NoCall PROVE Solo'
<1>1. NoCall.pc = "idle"
  BY DEF NoCall
<1>2. \A x \in Underway' : x = a
  BY <1>1 DEF Underway, Alone
<1>3. \A b \in Actors : call'[b].pc = "idle" => call'[b] = NoCall
  BY DEF Alone
<1>4. QED BY <1>2, <1>3 DEF Solo, Alone

-----------------------------------------------------------------------------
(* Rows and calls.                                                          *)

\* SetVersion writes one row.
LEMMA RowWritten ==
  ASSUME TypeOK, NEW v \in Versions, NEW row \in VersionRow, SetVersion(v, row)
  PROVE  /\ versions' \in [Versions -> VersionRow] /\ versions'[v] = row
         /\ \A w \in Versions \ {v} : versions'[w] = versions[w]
BY DEF SetVersion, TypeOK

WithStatus(r, s) == [r EXCEPT !.status = s]

\* What SetStatus does to a row.
LEMMA RowStatus ==
  ASSUME NEW r \in VersionRow, NEW s \in {"deploying", "ready", "archived", "draining", "destroyed"}
  PROVE  \E row \in VersionRow :
           /\ row = WithStatus(r, s) /\ row.status = s /\ row.route = r.route /\ row.up = r.up
           /\ row.data = r.data /\ row.armed = r.armed /\ row.pinned = r.pinned
<1>1. PICK row : row = [r EXCEPT !.status = s]
  OBVIOUS
<1>2. row \in VersionRow
  BY <1>1 DEF VersionRow
<1>3. row.status = s /\ row.route = r.route /\ row.up = r.up
  BY <1>1 DEF VersionRow
<1>4. row.data = r.data /\ row.armed = r.armed /\ row.pinned = r.pinned
  BY <1>1 DEF VersionRow
<1>5. QED BY <1>1, <1>2, <1>3, <1>4 DEF WithStatus

\* What SetRouteActive does to a row.
LEMMA RowRoute ==
  ASSUME NEW r \in VersionRow, NEW t \in {"active", "inactive"}
  PROVE  \E row \in VersionRow :
           /\ row = Switched(r, t) /\ row.status = r.status /\ row.up = r.up
           /\ row.route = IF r.route = "none" THEN "none" ELSE t
           /\ row.data = r.data /\ row.armed = r.armed /\ row.pinned = r.pinned
<1>1. CASE r.route = "none"
  BY <1>1 DEF Switched
<1>2. CASE r.route # "none"
  <2>1. PICK row : row = [r EXCEPT !.route = t]
    OBVIOUS
  <2>2. row \in VersionRow
    BY <2>1 DEF VersionRow
  <2>3. row.status = r.status /\ row.up = r.up /\ row.route = t
    BY <2>1 DEF VersionRow
  <2>4. row.data = r.data /\ row.armed = r.armed /\ row.pinned = r.pinned
    BY <2>1 DEF VersionRow
  <2>5. QED BY <1>2, <2>1, <2>2, <2>3, <2>4 DEF Switched
<1>3. QED BY <1>1, <1>2

\* What runtime.Stop does to a row.
LEMMA RowStopped ==
  ASSUME NEW r \in VersionRow, NEW v
  PROVE  \E row \in VersionRow :
           /\ row = Stopped(v, r) /\ row.status = r.status /\ row.route = r.route
           /\ row.up = IF v \in Elastic THEN r.up ELSE "down"
           /\ row.data = r.data /\ row.armed = r.armed /\ row.pinned = r.pinned
<1>1. CASE v \in Elastic
  BY <1>1 DEF Stopped
<1>2. CASE v \notin Elastic
  <2>1. PICK row : row = [r EXCEPT !.up = "down"]
    OBVIOUS
  <2>2. row \in VersionRow
    BY <2>1 DEF VersionRow
  <2>3. row.status = r.status /\ row.up = "down" /\ row.route = r.route
    BY <2>1 DEF VersionRow
  <2>4. row.data = r.data /\ row.armed = r.armed /\ row.pinned = r.pinned
    BY <2>1 DEF VersionRow
  <2>5. QED BY <1>2, <2>1, <2>2, <2>3, <2>4 DEF Stopped
<1>3. QED BY <1>1, <1>2

PCs == {"idle"} \cup PromotePCs \cup UndoPCs \cup ArchivePCs \cup WakePCs \cup DestroyPCs

\* The fields of NoCall.
LEMMA NoCallFacts ==
  /\ NoCall \in Call /\ NoCall.pc = "idle" /\ NoCall.v = NoVersion /\ NoCall.old = NoVersion
  /\ NoCall.was = NoVersion
BY DEF NoCall, Call, Prods

\* Go changes the place of a call and nothing else of it.
LEMMA GoesOn ==
  ASSUME TypeOK, NEW a \in Actors, NEW pc \in PCs, Go(a, pc)
  PROVE  \E k \in Call : /\ call' = [call EXCEPT ![a] = k]
                         /\ k.pc = pc /\ k.v = call[a].v /\ k.old = call[a].old /\ k.was = call[a].was
<1>1. call[a] \in Call
  BY DEF TypeOK
<1>2. PICK k : k = [call[a] EXCEPT !.pc = pc]
  OBVIOUS
<1>3. k \in Call /\ k.pc = pc /\ k.v = call[a].v /\ k.old = call[a].old /\ k.was = call[a].was
  BY <1>1, <1>2 DEF Call, PCs
<1>4. QED BY <1>2, <1>3 DEF Go, SetCall

\* Start needs room and begins a call with nothing read.
LEMMA Starts ==
  ASSUME NEW a \in Actors, NEW v \in Versions, NEW pc \in PCs, Start(a, v, pc)
  PROVE  /\ Room /\ call[a].pc = "idle"
         /\ \E k \in Call : /\ call' = [call EXCEPT ![a] = k]
                            /\ k.pc = pc /\ k.v = v /\ k.old = NoVersion /\ k.was = NoVersion
<1>1. PICK k : k = [NoCall EXCEPT !.v = v, !.pc = pc]
  OBVIOUS
<1>2. k \in Call /\ k.pc = pc /\ k.v = v /\ k.old = NoVersion /\ k.was = NoVersion
  BY <1>1 DEF NoCall, Call, PCs, Prods
<1>3. QED BY <1>1, <1>2 DEF Start, SetCall
-----------------------------------------------------------------------------
(* A step of the call that is under way.                                    *)

\* The actor's call becomes k, the row of u becomes row; nothing else is under way.
CallStep(a, k, u, row) ==
  /\ call' = [call EXCEPT ![a] = k] /\ versions' = [versions EXCEPT ![u] = row]
  /\ UNCHANGED <<dep, cron>>
  /\ main' \in Versions \cup {NoVersion}
  /\ pass' = pass \/ (a = Reaper /\ pass' \in Pass)
  /\ faults' \in 0..MaxFaults /\ cuts' \in 0..MaxCuts
  /\ faults' >= faults /\ cuts' >= cuts
  /\ k.pc = "idle" => k = NoCall

\* A step of a call that writes one row, variable by variable.
LEMMA StepFacts ==
  ASSUME TypeOK, NEW a \in Actors, Alone(a), NEW k \in Call, NEW u \in Versions, NEW row \in VersionRow,
         CallStep(a, k, u, row)
  PROVE  /\ call' \in [Actors -> Call] /\ call'[a] = k /\ \A b \in Actors \ {a} : call'[b] = NoCall
         /\ versions' \in [Versions -> VersionRow] /\ versions'[u] = row
         /\ \A w \in Versions \ {u} : versions'[w] = versions[w]
         /\ pass' \in Pass /\ Alone(a)' /\ Solo'
<1>1. /\ call' \in [Actors -> Call] /\ call'[a] = k
      /\ \A b \in Actors \ {a} : call'[b] = call[b]
  BY DEF CallStep, TypeOK
<1>2. \A b \in Actors \ {a} : call'[b] = NoCall
  BY <1>1 DEF Alone
<1>3. /\ versions' \in [Versions -> VersionRow] /\ versions'[u] = row
      /\ \A w \in Versions \ {u} : versions'[w] = versions[w]
  BY DEF CallStep, TypeOK
<1>4. pass' \in Pass
  BY DEF CallStep, TypeOK
<1>5. Alone(a)'
  BY <1>2 DEF CallStep, Alone
<1>6. Solo'
  BY <1>1, <1>5, SoloAlone DEF CallStep
<1>7. QED BY <1>1, <1>2, <1>3, <1>4, <1>5, <1>6

\* What such a step has to meet to keep SwitchInv.
LEMMA StepKeepsSwitch ==
  ASSUME SwitchInv, NEW a \in Actors, Alone(a), NEW k \in Call, NEW u \in Versions, NEW row \in VersionRow,
         CallStep(a, k, u, row),
         versions[u].status # "deploying", row.status # "deploying", row.route # "none",
         project' \in Project, NeverArchiveProd', PassFits',
         project'.prod \in Versions => versions[project'.prod].status # "deploying",
         k.pc # "idle" => CallFits(a)'
  PROVE  SwitchInv'
<1>1. TypeOK /\ OneCall
  BY DEF SwitchInv
<1>2. /\ call' \in [Actors -> Call] /\ call'[a] = k /\ \A b \in Actors \ {a} : call'[b] = NoCall
      /\ versions' \in [Versions -> VersionRow] /\ versions'[u] = row
      /\ \A w \in Versions \ {u} : versions'[w] = versions[w]
      /\ pass' \in Pass /\ Alone(a)' /\ Solo'
  BY <1>1, StepFacts
<1>3. TypeOK'
  BY <1>1, <1>2 DEF CallStep, TypeOK
<1>4. \A b \in Actors : call'[b].pc # "idle" => CallFits(b)'
  BY <1>2, NoCallFacts
<1>5. \A s \in Slots : cron'[s].pc = "idle"
  BY <1>2 DEF Alone
<1>6. ASSUME NEW v \in Versions PROVE DeployFits(v)'
  <2>1. DeployFits(v) /\ dep'[v] = dep[v] /\ dep[v].pc \in {"new", "done"}
    BY DEF SwitchInv, CallStep, Alone
  <2>2. CASE v = u
    BY <1>2, <2>1, <2>2 DEF DeployFits
  <2>3. CASE v # u
    BY <1>2, <2>1, <2>3 DEF DeployFits
  <2>4. QED BY <2>2, <2>3
<1>7. QED BY <1>1, <1>2, <1>3, <1>4, <1>5, <1>6 DEF SwitchInv, OneCall

\* What it has to meet to keep ServesInv.
LEMMA StepKeepsServes ==
  ASSUME TypeOK, ServesInv, NEW a \in Actors, Alone(a), NEW k \in Call, NEW u \in Versions,
         NEW row \in VersionRow, CallStep(a, k, u, row), project'.prod = project.prod,
         faults' <= 1 /\ cuts' = 0 =>
           /\ project.prod = u /\ row.status = "ready" /\ row.route # "active" => a \in Slots /\ Excuses(k, u)
           /\ \A v \in Versions \ {u} : project.prod = v /\ Excuses(call[a], v) => Excuses(k, v)
  PROVE  ServesInv'
<1>1. /\ call'[a] = k
      /\ versions'[u] = row /\ \A w \in Versions \ {u} : versions'[w] = versions[w]
  BY StepFacts
<1>2. SUFFICES ASSUME faults' <= 1, cuts' = 0, NEW v \in Versions,
                      project.prod = v, versions'[v].status = "ready", versions'[v].route # "active"
               PROVE  \E s \in Slots : Excuses(call'[s], v)
  BY DEF ServesInv, Excuses
<1>3. faults \in Int /\ faults' \in Int /\ cuts \in Nat /\ cuts' \in Nat
  BY BoundsAssumption DEF TypeOK, CallStep
<1>4. faults <= 1 /\ cuts = 0
  BY <1>2, <1>3 DEF CallStep
<1>5. CASE v = u
  BY <1>1, <1>2, <1>5
<1>6. CASE v # u
  <2>1. PICK s \in Slots : Excuses(call[s], v)
    BY <1>1, <1>2, <1>4, <1>6 DEF ServesInv
  <2>2. s = a
    BY <2>1, NoCallFacts, ActorFacts DEF Alone, Excuses
  <2>3. QED BY <1>1, <1>2, <1>6, <2>1, <2>2
<1>7. QED BY <1>5, <1>6

\* What it has to meet to keep DataInv.
LEMMA StepKeepsData ==
  ASSUME TypeOK, DataInv, NEW a \in Actors, Alone(a), NEW k \in Call, NEW u \in Versions,
         NEW row \in VersionRow, CallStep(a, k, u, row),
         faults' = 0 /\ row.status \in {"ready", "archived"} => row.data
  PROVE  DataInv'
<1>1. versions'[u] = row /\ \A w \in Versions \ {u} : versions'[w] = versions[w]
  BY StepFacts
<1>2. faults' = 0 => faults = 0
  BY BoundsAssumption DEF TypeOK, CallStep
<1>3. QED BY <1>1, <1>2 DEF DataInv, ServedHasData

\* What it has to meet to keep OffInv.
LEMMA StepKeepsOff ==
  ASSUME TypeOK, OffInv, NEW a \in Actors, Alone(a), NEW k \in Call, NEW u \in Versions,
         NEW row \in VersionRow, CallStep(a, k, u, row),
         faults' = 0 /\ cuts' = 0 =>
           /\ u \notin Elastic /\ row.status = "archived" /\ ~(k.v = u /\ k.pc = "wready") =>
                row.route = "inactive" /\ row.up = "down"
           /\ call[a].pc = "wready" => call[a].v = u
  PROVE  OffInv'
<1>1. /\ call'[a] = k
      /\ versions'[u] = row /\ \A w \in Versions \ {u} : versions'[w] = versions[w]
  BY StepFacts
<1>2. SUFFICES ASSUME faults' = 0, cuts' = 0, NEW v \in Versions \ Elastic, versions'[v].status = "archived",
                      \A b \in Actors : ~(call'[b].v = v /\ call'[b].pc = "wready")
               PROVE  versions'[v].route = "inactive" /\ versions'[v].up = "down"
  BY DEF OffInv
<1>3. faults = 0 /\ cuts = 0
  BY <1>2, BoundsAssumption DEF TypeOK, CallStep
<1>4. CASE v = u
  BY <1>1, <1>2, <1>4
<1>5. CASE v # u
  <2>1. \A b \in Actors : ~(call[b].v = v /\ call[b].pc = "wready")
    BY <1>2, <1>5, NoCallFacts DEF Alone
  <2>2. QED BY <1>1, <1>2, <1>3, <1>5, <2>1 DEF OffInv
<1>6. QED BY <1>4, <1>5

\* A version whose triggers are taken by a reconciliation or by the promotion about to start one.
LEMMA StepKeepsArm ==
  ASSUME TypeOK, ArmInv, NEW a \in Actors, Alone(a), NEW k \in Call, NEW u \in Versions,
         NEW row \in VersionRow, CallStep(a, k, u, row), row.armed = versions[u].armed,
         faults' = 0 /\ cuts' = 0 /\ Elastic = {} =>
           /\ row.status = "ready" => row.up = "recorded"
           /\ project'.prod = project.prod \/ project'.prod \in Versions
           /\ row.status \in {"ready", "archived"} => Live(u)
           /\ k.pc \in ArchivePCs => k.v \in Versions /\ Live(k.v)
           /\ \A v \in Versions :
                Live(v) /\ versions[v].armed /\ (project.prod \in {v, NoVersion} \/ ToDisarm(v))
                => project'.prod \in {v, NoVersion} \/ ToDisarm(v)'
  PROVE  ArmInv'
<1>1. /\ call'[a] = k /\ \A b \in Actors \ {a} : call'[b] = NoCall
      /\ versions'[u] = row /\ \A w \in Versions \ {u} : versions'[w] = versions[w] /\ Alone(a)'
  BY StepFacts
<1>2. SUFFICES ASSUME faults' = 0, cuts' = 0, Elastic = {}
               PROVE  /\ project'.prod # Blank
                      /\ project'.prod = NoVersion => \A v \in Versions : dep'[v].pc # "done"
                      /\ \A v \in Versions :
                           /\ versions'[v].status = "ready" => versions'[v].up = "recorded"
                           /\ dep'[v].pc \in {"deploy", "serve", "bootstrap"} =>
                                (dep'[v].arm => project'.prod = NoVersion)
                                /\ (dep'[v].boot <=> project'.prod = NoVersion)
                           /\ dep'[v].pc \in {"serve", "bootstrap"} /\ versions'[v].armed => dep'[v].arm
                           /\ Live(v)' /\ versions'[v].armed =>
                                project'.prod \in {v, NoVersion} \/ ToDisarm(v)'
  BY DEF ArmInv
<1>3. faults = 0 /\ cuts = 0
  BY <1>2, BoundsAssumption DEF TypeOK, CallStep
<1>4. /\ project'.prod # Blank
      /\ project'.prod = NoVersion => \A v \in Versions : dep'[v].pc # "done"
  BY <1>2, <1>3, ActorFacts DEF ArmInv, CallStep
<1>5. ASSUME NEW v \in Versions
      PROVE  /\ versions'[v].status = "ready" => versions'[v].up = "recorded"
             /\ dep'[v].pc \notin {"deploy", "serve", "bootstrap"}
  BY <1>1, <1>2, <1>3 DEF ArmInv, CallStep, Alone
<1>6. ASSUME NEW v \in Versions, Live(v)', versions'[v].armed
      PROVE  project'.prod \in {v, NoVersion} \/ ToDisarm(v)'
  <2>1. versions[v].armed
    BY <1>1, <1>6
  <2>2. Live(v)
    <3>1. CASE versions'[v].status \in {"ready", "archived"}
      BY <1>1, <1>2, <3>1 DEF Live
    <3>2. CASE \E b \in Actors : call'[b].v = v /\ call'[b].pc \in ArchivePCs
      <4>1. "idle" \notin ArchivePCs
        BY DEF ArchivePCs
      <4>2. k.v = v /\ k.pc \in ArchivePCs
        BY <1>1, <3>2, <4>1, NoCallFacts
      <4>3. QED BY <1>2, <4>2
    <3>3. QED BY <1>6, <3>1, <3>2 DEF Live
  <2>3. project.prod \in {v, NoVersion} \/ ToDisarm(v)
    BY <1>2, <1>3, <2>1, <2>2 DEF ArmInv
  <2>4. QED BY <1>2, <2>1, <2>2, <2>3
<1>7. QED BY <1>4, <1>5, <1>6

\* A step that leaves prod, the reconciliations and the triggers alone.
LEMMA PlainStep ==
  ASSUME AllInv, NEW a \in Actors, Alone(a), NEW k \in Call, NEW u \in Versions, NEW row \in VersionRow,
         CallStep(a, k, u, row), project' = project, pass' = pass \/ PassFits', call[a].pc = "activate" => faults' # 0,
         versions[u].status # "deploying", row.status # "deploying", row.route # "none",
         row.armed = versions[u].armed,
         row.status = "archived" => project.prod # u,
         k.pc # "idle" => CallFits(a)',
         faults' <= 1 /\ cuts' = 0 =>
           /\ project.prod = u /\ row.status = "ready" /\ row.route # "active" => a \in Slots /\ Excuses(k, u)
           /\ \A v \in Versions \ {u} : project.prod = v /\ Excuses(call[a], v) => Excuses(k, v),
         faults' = 0 /\ row.status \in {"ready", "archived"} => row.data,
         faults' = 0 /\ cuts' = 0 =>
           /\ u \notin Elastic /\ row.status = "archived" /\ ~(k.v = u /\ k.pc = "wready") =>
                row.route = "inactive" /\ row.up = "down"
           /\ call[a].pc = "wready" => call[a].v = u,
         faults' = 0 /\ cuts' = 0 /\ Elastic = {} =>
           /\ row.status = "ready" => row.up = "recorded"
           /\ row.status \in {"ready", "archived"} => Live(u)
           /\ k.pc \in ArchivePCs => k.v \in Versions /\ Live(k.v)
  PROVE  AllInv'
<1>1. SwitchInv /\ TypeOK /\ ServesInv /\ DataInv /\ OffInv /\ ArmInv
  BY DEF AllInv, SwitchInv
<1>2. /\ call'[a] = k
      /\ versions'[u] = row /\ \A w \in Versions \ {u} : versions'[w] = versions[w]
  BY <1>1, StepFacts
<1>3. project' \in Project /\ NeverArchiveProd'
  BY <1>1, <1>2 DEF TypeOK, SwitchInv, NeverArchiveProd
<1>4. project.prod \in Versions => versions[project.prod].status # "deploying"
  BY <1>1 DEF SwitchInv, DeployFits, Alone
<1>5. PassFits'
  BY <1>1 DEF SwitchInv, PassFits
<1>6. SwitchInv'
  BY <1>1, <1>3, <1>4, <1>5, StepKeepsSwitch
<1>7. ServesInv'
  BY <1>1, StepKeepsServes
<1>8. DataInv'
  BY <1>1, StepKeepsData
<1>9. OffInv'
  BY <1>1, StepKeepsOff
<1>10. faults' = 0 => \A v \in Versions : ~ToDisarm(v)
  BY NoCallFacts, ActorFacts DEF ToDisarm, Alone
<1>11. ArmInv'
  BY <1>1, <1>10, StepKeepsArm
<1>12. QED BY <1>6, <1>7, <1>8, <1>9, <1>11 DEF AllInv

\* A step that writes no row.
LEMMA NoWrite ==
  ASSUME AllInv, NEW a \in Actors, Alone(a), NEW k \in Call, NEW u \in Versions,
         call' = [call EXCEPT ![a] = k], k.pc = "idle" => k = NoCall, versions[u].status # "deploying",
         UNCHANGED <<project, versions, dep, cron>>,
         pass' = pass \/ (a = Reaper /\ pass' \in Pass /\ PassFits'), main' \in Versions \cup {NoVersion},
         faults' \in 0..MaxFaults, cuts' \in 0..MaxCuts, faults' >= faults, cuts' >= cuts,
         call[a].pc = "activate" => faults' # 0, k.pc # "idle" => CallFits(a)',
         faults' <= 1 /\ cuts' = 0 => \A v \in Versions : project.prod = v /\ Excuses(call[a], v) => Excuses(k, v),
         faults' = 0 /\ cuts' = 0 => call[a].pc # "wready",
         k.pc \in ArchivePCs => k.v \in Versions /\ Live(k.v)
  PROVE  AllInv'
<1>1. SwitchInv /\ TypeOK /\ ServesInv /\ DataInv /\ OffInv /\ ArmInv /\ DeployFits(u) /\ NeverArchiveProd
  BY DEF AllInv, SwitchInv
<1> DEFINE row == versions[u]
<1>2. row \in VersionRow /\ CallStep(a, k, u, row)
  BY <1>1 DEF CallStep, TypeOK
<1>3. row.route # "none"
  BY <1>1 DEF DeployFits, Alone
<1>4. row.status = "archived" => project.prod # u
  BY <1>1 DEF NeverArchiveProd
<1>5. /\ faults' <= 1 => faults <= 1
      /\ faults' = 0 => faults = 0
      /\ cuts' = 0 => cuts = 0
  BY <1>1, BoundsAssumption DEF TypeOK
<1>6. ASSUME faults' <= 1, cuts' = 0, project.prod = u, row.status = "ready", row.route # "active"
      PROVE  a \in Slots /\ Excuses(k, u)
  <2>1. PICK s \in Slots : Excuses(call[s], u)
    BY <1>1, <1>5, <1>6 DEF ServesInv
  <2>2. s = a
    BY <2>1, NoCallFacts, ActorFacts DEF Alone, Excuses
  <2>3. QED BY <1>6, <2>1, <2>2
<1>7. faults' = 0 /\ row.status \in {"ready", "archived"} => row.data
  BY <1>1, <1>5 DEF DataInv, ServedHasData
<1>8. ASSUME faults' = 0, cuts' = 0, u \notin Elastic, row.status = "archived"
      PROVE  row.route = "inactive" /\ row.up = "down"
  <2>1. \A b \in Actors : ~(call[b].v = u /\ call[b].pc = "wready")
    BY <1>8, NoCallFacts DEF Alone
  <2>2. QED BY <1>1, <1>5, <1>8, <2>1 DEF OffInv
<1>9. faults' = 0 /\ cuts' = 0 /\ Elastic = {} => (row.status = "ready" => row.up = "recorded")
  BY <1>1, <1>5 DEF ArmInv
<1>10. row.status \in {"ready", "archived"} => Live(u)
  BY DEF Live
<1> HIDE DEF row
<1>11. row.armed = versions[u].armed /\ row.status # "deploying"
  BY DEF row
<1>12. QED BY <1>2, <1>3, <1>4, <1>6, <1>7, <1>8, <1>9, <1>10, <1>11, PlainStep

\* Faults and cuts only grow.
LEMMA NoFaultFacts ==
  ASSUME TypeOK
  PROVE  /\ NoFault => faults' = faults /\ cuts' = cuts /\ faults' \in 0..MaxFaults /\ cuts' \in 0..MaxCuts
                        /\ faults' >= faults /\ cuts' >= cuts
         /\ Fault => faults' = faults + 1 /\ cuts' = cuts /\ faults' \in 0..MaxFaults /\ cuts' \in 0..MaxCuts
                      /\ faults' >= faults /\ cuts' >= cuts /\ faults' > 0 /\ faults' # 0
                      /\ (faults > 0 => ~(faults' <= 1))
         /\ faults \in Nat /\ cuts \in Nat
BY BoundsAssumption DEF TypeOK, NoFault, Fault

-----------------------------------------------------------------------------
(* The calls that are made.                                                 *)

LEMMA BeginKeeps ==
  ASSUME AllInv, NEW s \in Slots, NEW v \in Versions, NEW pc \in PCs, Start(s, v, pc),
         versions[v].status # "deploying", UNCHANGED <<project, versions, main, dep, cron, pass>>, NoFault,
         pc \in PromotePCs \cup ArchivePCs \cup WakePCs \cup DestroyPCs,
         pc \in PromotePCs => pc = "validate" /\ versions[v].status = "ready",
         pc \in ArchivePCs => pc = "acheck" /\ versions[v].status = "ready",
         pc \in WakePCs => versions[v].status = "archived" /\ (pc = "wready" => v \in Elastic),
         pc \in DestroyPCs => pc = "dcheck" /\ versions[v].status \in {"ready", "draining", "archived"}
  PROVE  AllInv'
<1>1. SwitchInv /\ TypeOK /\ Solo /\ OneCall /\ DataInv
  BY DEF AllInv, SwitchInv
<1>2. PICK k \in Call : /\ call' = [call EXCEPT ![s] = k]
                        /\ k.pc = pc /\ k.v = v /\ k.old = NoVersion /\ k.was = NoVersion
  BY ActorFacts, Starts
<1>3. Alone(s) /\ call[s] = NoCall
  BY <1>1, ActorFacts, RoomIsQuiet DEF Start
<1>4. s \in Actors /\ s # Reaper /\ call'[s] = k
  BY <1>1, <1>2, ActorFacts DEF TypeOK
<1>5. pc # "idle" /\ pc \notin UndoPCs /\ (pc = "validate" => pc \notin SwitchPCs)
  BY DEF PromotePCs, ArchivePCs, WakePCs, DestroyPCs, UndoPCs, SwitchPCs
<1>6. faults' = 0 /\ versions[v].status \in {"ready", "archived"} => versions[v].data
  BY <1>1, NoFaultFacts DEF DataInv, ServedHasData
<1>7. CallFits(s)'
  <2>1. pc \in PromotePCs => PromoteFits(k)'
    BY <1>2, <1>5 DEF PromoteFits
  <2>2. pc \in ArchivePCs => ArchiveFits(s, k)'
    BY <1>2, <1>4, <1>6 DEF ArchiveFits
  <2>3. pc \in WakePCs => (pc = "wready" /\ v \notin Elastic => versions[v].up = "recorded")
    OBVIOUS
  <2>4. pc = "dcheck" => pc \notin {"droute", "ddata", "dset"}
    OBVIOUS
  <2>5. QED BY <1>2, <1>4, <1>5, <2>1, <2>2, <2>3, <2>4 DEF CallFits
<1>8. \A w \in Versions : ~Excuses(call[s], w)
  BY <1>3, NoCallFacts, ActorFacts DEF Excuses
<1>9. k.pc \in ArchivePCs => k.v \in Versions /\ Live(k.v)
  BY <1>2 DEF Live
<1>10. QED
  BY <1>1, <1>2, <1>3, <1>4, <1>5, <1>7, <1>8, <1>9, NoWrite, NoFaultFacts, NoCallFacts DEF TypeOK

LEMMA BeginsKeep ==
  ASSUME AllInv, NEW s \in Slots, NEW v \in Versions,
         PromoteRead(s, v) \/ ArchiveRead(s, v) \/ WakeRead(s, v) \/ DestroyRead(s, v)
  PROVE  AllInv'
<1>1. CASE PromoteRead(s, v)
  <2>1. "validate" \in PCs /\ "validate" \in PromotePCs
        /\ "validate" \notin ArchivePCs \cup WakePCs \cup DestroyPCs
    BY DEF PCs, PromotePCs, ArchivePCs, WakePCs, DestroyPCs
  <2>2. QED BY <1>1, <2>1, BeginKeeps DEF PromoteRead
<1>2. CASE ArchiveRead(s, v)
  <2>1. "acheck" \in PCs /\ "acheck" \in ArchivePCs
        /\ "acheck" \notin PromotePCs \cup WakePCs \cup DestroyPCs
    BY DEF PCs, PromotePCs, ArchivePCs, WakePCs, DestroyPCs
  <2>2. QED BY <1>2, <2>1, BeginKeeps DEF ArchiveRead, Archivable
<1>3. CASE WakeRead(s, v)
  <2>1. PICK pc : pc = IF v \in Elastic THEN "wready" ELSE "wroute"
    OBVIOUS
  <2>2. pc \in PCs /\ pc \in WakePCs /\ pc \notin PromotePCs \cup ArchivePCs \cup DestroyPCs
    BY <2>1 DEF PCs, PromotePCs, ArchivePCs, WakePCs, DestroyPCs
  <2>3. QED BY <1>3, <2>1, <2>2, BeginKeeps DEF WakeRead
<1>4. CASE DestroyRead(s, v)
  <2>1. "dcheck" \in PCs /\ "dcheck" \in DestroyPCs
        /\ "dcheck" \notin PromotePCs \cup WakePCs \cup ArchivePCs
    BY DEF PCs, PromotePCs, ArchivePCs, WakePCs, DestroyPCs
  <2>2. QED BY <1>4, <2>1, BeginKeeps DEF DestroyRead
<1>5. QED BY <1>1, <1>2, <1>3, <1>4

-----------------------------------------------------------------------------
(* The steps that write no row.                                             *)

\* A call that is under way is a promotion, an archive, a wake or a destroy.
LEMMA Kinds ==
  \A pc \in PCs : pc # "idle" => pc \in PromotePCs \cup UndoPCs \cup ArchivePCs \cup WakePCs \cup DestroyPCs
BY DEF PCs

\* What holds while a call is under way.
LEMMA AtCall ==
  ASSUME AllInv, NEW a \in Actors, call[a].pc # "idle"
  PROVE  /\ SwitchInv /\ TypeOK /\ NeverArchiveProd /\ Alone(a) /\ CallFits(a) /\ call[a] \in Call
         /\ call[a].v \in Versions /\ call[a].pc \in PCs
         /\ versions[call[a].v].status # "deploying" /\ versions[call[a].v].route # "none"
         /\ versions[call[a].v] \in VersionRow
         /\ \A v \in Versions : versions[v].status # "deploying" => versions[v].route # "none"
<1>1. SwitchInv /\ TypeOK /\ NeverArchiveProd /\ Solo /\ CallFits(a)
  BY DEF AllInv, SwitchInv
<1>2. Alone(a)
  BY <1>1, AloneCall
<1>3. call[a] \in Call /\ call[a].v \in Versions
  BY <1>1 DEF TypeOK, CallFits
<1>4. call[a].pc \in PCs
  BY <1>3 DEF Call, PCs
<1>5. versions[call[a].v].status # "deploying"
  BY <1>1, <1>4, Kinds DEF CallFits, PromoteFits, ArchiveFits
<1>6. \A v \in Versions : versions[v].status # "deploying" => versions[v].route # "none"
  BY <1>1, <1>2 DEF SwitchInv, DeployFits, Alone
<1>7. QED BY <1>1, <1>2, <1>3, <1>4, <1>5, <1>6 DEF TypeOK

\* A call ends without a write.
LEMMA EndKeeps ==
  ASSUME AllInv, NEW a \in Actors, call[a].pc # "idle", Done(a), UNCHANGED <<project, versions, dep, cron, pass>>,
         main' = main, NoFault, call[a].pc \notin {"activate", "wready"},
         \A v \in Versions : ~(project.prod = v /\ Excuses(call[a], v))
  PROVE  AllInv'
<1>1. TypeOK /\ Alone(a) /\ call[a].v \in Versions /\ versions[call[a].v].status # "deploying"
  BY AtCall
<1>2. NoCall.pc \notin ArchivePCs
  BY NoCallFacts DEF ArchivePCs
<1>3. call' = [call EXCEPT ![a] = NoCall]
  BY DEF Done, SetCall
<1>4. main \in Versions \cup {NoVersion}
  BY <1>1 DEF TypeOK
<1>5. QED BY <1>1, <1>2, <1>3, <1>4, NoFaultFacts, NoCallFacts, NoWrite

LEMMA PromoteValidateKeeps == ASSUME AllInv, NEW s \in Slots, PromoteValidate(s) PROVE AllInv'
<1>1. s \in Actors /\ s # Reaper /\ call[s].pc = "validate"
  BY ActorFacts DEF PromoteValidate
<1>2. /\ TypeOK /\ Alone(s) /\ CallFits(s) /\ call[s].v \in Versions
      /\ versions[call[s].v].status # "deploying"
  BY <1>1, AtCall
<1>3. "validate" \in PromotePCs /\ "readprod" \in PCs /\ "readprod" \in PromotePCs
      /\ "readprod" \notin SwitchPCs \cup UndoPCs \cup ArchivePCs \cup WakePCs \cup DestroyPCs
  BY DEF PromotePCs, PCs, SwitchPCs, UndoPCs, ArchivePCs, WakePCs, DestroyPCs
<1>4. \A v \in Versions : ~Excuses(call[s], v)
  BY <1>1 DEF Excuses
<1>5. CASE Go(s, "readprod")
  <2>1. PICK k \in Call : /\ call' = [call EXCEPT ![s] = k]
                          /\ k.pc = "readprod" /\ k.v = call[s].v /\ k.old = call[s].old /\ k.was = call[s].was
    BY <1>1, <1>2, <1>3, <1>5, GoesOn
  <2>2. call'[s] = k
    BY <1>1, <1>2, <2>1 DEF TypeOK
  <2>3. versions[k.v].status = "ready"
    BY <1>1, <1>2, <1>3, <2>1 DEF CallFits, PromoteFits
  <2>4. CallFits(s)'
    <3>1. PromoteFits(k)'
      BY <1>3, <2>1, <2>3 DEF PromoteFits, PromoteValidate
    <3>2. QED BY <1>1, <1>2, <1>3, <2>1, <2>2, <3>1 DEF CallFits
  <2>5. UNCHANGED <<project, versions, main, dep, cron, pass>> /\ NoFault
    BY DEF PromoteValidate
  <2>6. main' \in Versions \cup {NoVersion}
    BY <1>2, <2>5 DEF TypeOK
  <2>7. QED BY <1>1, <1>2, <1>3, <1>4, <2>1, <2>4, <2>5, <2>6, NoWrite, NoFaultFacts
<1>6. CASE Done(s)
  BY <1>1, <1>4, <1>6, EndKeeps DEF PromoteValidate
<1>7. QED BY <1>5, <1>6 DEF PromoteValidate

LEMMA HardGateKeeps == ASSUME AllInv, NEW s \in Slots, HardGate(s) PROVE AllInv'
<1>1. s \in Actors /\ s # Reaper /\ call[s].pc = "gate"
  BY ActorFacts DEF HardGate
<1>2. /\ TypeOK /\ Alone(s) /\ CallFits(s) /\ call[s].v \in Versions
      /\ versions[call[s].v].status # "deploying"
  BY <1>1, AtCall
<1>3. /\ "gate" \in PromotePCs /\ "gate" \in SwitchPCs /\ "commit" \in SwitchPCs /\ "gateoff" \in SwitchPCs
      /\ \A pc \in {"commit", "gateoff"} :
           pc \in PCs /\ pc \in PromotePCs \cup UndoPCs /\ pc \notin ArchivePCs \cup WakePCs \cup DestroyPCs
      /\ "commit" \notin UndoPCs
  BY DEF PromotePCs, PCs, SwitchPCs, UndoPCs, ArchivePCs, WakePCs, DestroyPCs
<1>4. PromoteFits(call[s])
  BY <1>1, <1>2, <1>3 DEF CallFits
<1>5. PICK pc \in {"commit", "gateoff"} :
        /\ Go(s, pc) /\ main' \in Versions \cup {NoVersion}
        /\ pc = "commit" => NoFault
        /\ pc = "gateoff" => Fault
  <2>1. main \in Versions \cup {NoVersion}
    BY <1>2 DEF TypeOK
  <2>2. CASE main' = call[s].v /\ Go(s, "commit") /\ NoFault
    BY <1>2, <2>2
  <2>3. CASE Go(s, "gateoff") /\ main' = main /\ Fault
    BY <2>1, <2>3
  <2>4. QED BY <2>2, <2>3 DEF HardGate
<1>6. PICK k \in Call : /\ call' = [call EXCEPT ![s] = k]
                        /\ k.pc = pc /\ k.v = call[s].v /\ k.old = call[s].old /\ k.was = call[s].was
  BY <1>1, <1>2, <1>3, <1>5, GoesOn
<1>7. call'[s] = k
  BY <1>1, <1>2, <1>6 DEF TypeOK
<1>8. UNCHANGED <<project, versions, dep, cron, pass>>
  BY DEF HardGate
<1>9. /\ faults' \in 0..MaxFaults /\ cuts' \in 0..MaxCuts /\ faults' >= faults /\ cuts' >= cuts
      /\ k.pc \in UndoPCs => faults' > 0
  BY <1>2, <1>3, <1>5, <1>6, NoFaultFacts
<1>10. PromoteFits(k)'
  BY <1>1, <1>3, <1>4, <1>6, <1>8, <1>9 DEF PromoteFits
<1>11. CallFits(s)'
  BY <1>1, <1>2, <1>3, <1>6, <1>7, <1>10 DEF CallFits
<1>12. \A v \in Versions : Excuses(call[s], v) => Excuses(k, v)
  BY <1>1, <1>6 DEF Excuses
<1>13. QED BY <1>1, <1>2, <1>3, <1>6, <1>8, <1>9, <1>5, <1>11, <1>12, NoWrite

LEMMA ChecksKeep ==
  ASSUME AllInv, NEW a \in Actors, ArchiveCheck(a) \/ (a \in Slots /\ DestroyCheck(a)) PROVE AllInv'
<1>1. call[a].pc \in {"acheck", "dcheck"} /\ call[a].pc # "idle"
  BY DEF ArchiveCheck, DestroyCheck
<1>2. /\ TypeOK /\ Alone(a) /\ CallFits(a) /\ call[a].v \in Versions
      /\ versions[call[a].v].status # "deploying"
  BY <1>1, AtCall
<1>3. /\ \A pc \in {"acheck", "adrain"} :
           pc \in PCs /\ pc \in ArchivePCs /\ pc \notin PromotePCs \cup UndoPCs \cup WakePCs \cup DestroyPCs
      /\ \A pc \in {"dcheck", "ddrain"} :
           pc \in PCs /\ pc \in DestroyPCs /\ pc \notin PromotePCs \cup UndoPCs \cup WakePCs \cup ArchivePCs
  BY DEF PromotePCs, PCs, UndoPCs, ArchivePCs, WakePCs, DestroyPCs
<1>4. \A v \in Versions : ~Excuses(call[a], v)
  BY <1>1 DEF Excuses
<1>5. UNCHANGED <<project, versions, main, dep, cron, pass>> /\ NoFault
  BY DEF ArchiveCheck, DestroyCheck
<1>6. CASE Done(a)
  BY <1>1, <1>4, <1>5, <1>6, EndKeeps
<1>7. CASE ~Done(a)
  <2>1. PICK pc \in {"adrain", "ddrain"} :
          Go(a, pc) /\ (pc = "adrain" <=> call[a].pc = "acheck") /\ (pc = "adrain" => project.prod # call[a].v)
          /\ (pc = "ddrain" => a \in Slots)
    BY <1>7 DEF ArchiveCheck, DestroyCheck
  <2>2. PICK k \in Call : /\ call' = [call EXCEPT ![a] = k]
                          /\ k.pc = pc /\ k.v = call[a].v /\ k.old = call[a].old /\ k.was = call[a].was
    BY <1>2, <1>3, <2>1, GoesOn
  <2>3. call'[a] = k
    BY <1>2, <2>2 DEF TypeOK
  <2>4. CallFits(a)'
    <3>1. CASE pc = "adrain"
      <4>1. ArchiveFits(a, call[a])
        BY <1>2, <1>3, <2>1, <3>1 DEF CallFits
      <4>2. ArchiveFits(a, k)'
        BY <1>5, <2>1, <2>2, <3>1, <4>1, <1>2, NoFaultFacts DEF ArchiveFits
      <4>3. QED BY <1>2, <1>3, <2>2, <2>3, <3>1, <4>2 DEF CallFits
    <3>2. CASE pc = "ddrain"
      <4>1. versions[k.v].status \in {"ready", "draining", "archived"}
        BY <1>1, <1>2, <1>3, <2>1, <2>2, <3>2 DEF CallFits
      <4>2. a # Reaper
        BY <2>1, <3>2, ActorFacts
      <4>3. QED BY <1>2, <1>3, <1>5, <2>2, <2>3, <3>2, <4>1, <4>2 DEF CallFits
    <3>3. QED BY <3>1, <3>2
  <2>5. k.pc \in ArchivePCs => k.v \in Versions /\ Live(k.v)
    BY <1>2, <1>3, <2>1, <2>2 DEF Live
  <2>6. main' \in Versions \cup {NoVersion}
    BY <1>2, <1>5 DEF TypeOK
  <2>7. QED BY <1>1, <1>2, <1>4, <1>5, <2>1, <2>2, <2>4, <2>5, <2>6, NoWrite, NoFaultFacts
<1>8. QED BY <1>6, <1>7

-----------------------------------------------------------------------------
(* The routes a promotion switches.                                         *)

RoutePCs == {"drain", "deactivate", "gateoff", "undotarget", "undoagain", "undoold"}
NextPCs  == {"deactivate", "gate", "undoagain", "undoold"}

\* The places where a promotion switches a route, and those it goes to.
LEMMA RoutePCFacts ==
  /\ \A pc \in RoutePCs \cup NextPCs :
       /\ pc # "idle" /\ pc \in PCs /\ pc \in SwitchPCs /\ pc \in PromotePCs \cup UndoPCs
       /\ pc \notin ArchivePCs \cup WakePCs \cup DestroyPCs /\ pc \notin {"activate", "undocas", "wready"}
  /\ "deactivate" \notin UndoPCs /\ "gate" \notin UndoPCs
  /\ {"gateoff", "undotarget", "undoagain", "undoold"} \subseteq UndoPCs
BY DEF RoutePCs, NextPCs, PCs, SwitchPCs, PromotePCs, UndoPCs, ArchivePCs, WakePCs, DestroyPCs

\* A step of a promotion that switches a route keeps the invariant.
LEMMA RouteStep ==
  ASSUME AllInv, NEW s \in Slots, call[s].pc \in RoutePCs, NEW k \in Call, NEW u \in Versions,
         NEW row \in VersionRow, CallStep(s, k, u, row), project' = project, pass' = pass,
         k # NoCall => /\ k.v = call[s].v /\ k.old = call[s].old /\ k.was = call[s].was
                       /\ k.pc \in NextPCs /\ k.old # NoVersion,
         k = NoCall => call[s].old = NoVersion \/ call[s].pc = "undoold",
         k.pc \in {"deactivate", "gate"} => call[s].pc \in {"drain", "deactivate"},
         k.pc \in UndoPCs => faults' > 0,
         u = IF call[s].pc \in {"gateoff", "undotarget"} THEN call[s].v ELSE call[s].old,
         call[s].pc = "undoold" => row.route = "active" \/ ~(faults' <= 1),
         row.status = versions[u].status, row.up = versions[u].up, row.data = versions[u].data,
         row.armed = versions[u].armed, row.route # "none"
  PROVE  AllInv'
<1> DEFINE c == call[s]
<1>1. s \in Actors /\ s # Reaper /\ c.pc # "idle" /\ c.pc \notin {"activate", "wready"}
  BY ActorFacts, RoutePCFacts
<1>2. /\ SwitchInv /\ TypeOK /\ Alone(s) /\ CallFits(s) /\ c.v \in Versions /\ c \in Call
  BY <1>1, AtCall
<1>3. PromoteFits(c) /\ c.pc \in SwitchPCs
  BY <1>2, RoutePCFacts DEF CallFits
<1>4. /\ c.old # c.v /\ c.old = IF c.was \in Versions THEN c.was ELSE NoVersion
      /\ versions[c.v].status = "ready"
      /\ c.old # NoVersion => c.old \in Versions /\ versions[c.old].status \notin {"archived", "deploying"}
  BY <1>3 DEF PromoteFits
<1>5. versions[u].status \notin {"archived", "deploying"}
  BY <1>4, ActorFacts
<1>6. /\ faults' <= 1 => faults <= 1
      /\ faults' = 0 => faults = 0
      /\ cuts' = 0 => cuts = 0
  BY <1>2, BoundsAssumption DEF TypeOK, CallStep
<1>7. c.pc \notin {"undotarget", "undoagain", "undoold"} => project.prod = c.was /\ project.prod # c.v
  BY <1>2, <1>3, <1>4, ActorFacts DEF PromoteFits, RoutePCs
<1>8. faults' <= 1 => project.prod # c.v
  BY <1>3, <1>6, <1>7 DEF PromoteFits
<1>9. /\ call'[s] = k /\ versions'[u] = row
      /\ \A w \in Versions \ {u} : versions'[w] = versions[w]
  BY <1>1, <1>2, StepFacts
<1>10. k.pc = "idle" <=> k = NoCall
  BY RoutePCFacts, NoCallFacts
<1>11. k.pc # "idle" => CallFits(s)'
  <2>1. SUFFICES ASSUME k.pc # "idle" PROVE CallFits(s)'
    OBVIOUS
  <2>2. /\ k.v = c.v /\ k.old = c.old /\ k.was = c.was /\ k.pc \in NextPCs /\ k.old # NoVersion
    BY <1>10, <2>1
  <2>3. versions'[k.v].status = "ready" /\ versions'[k.old].status \notin {"archived", "deploying"}
    <3>1. \A w \in Versions : versions'[w].status = versions[w].status
      BY <1>9
    <3>2. k.v \in Versions /\ k.old \in Versions
      BY <1>2, <1>4, <2>2
    <3>3. versions'[k.v].status = versions[k.v].status /\ versions'[k.old].status = versions[k.old].status
      BY <3>1, <3>2
    <3>4. QED BY <1>4, <2>2, <3>3
  <2>4. k.pc \in {"deactivate", "gate"} => project.prod = k.was
    BY <1>7, <2>2
  <2>5. /\ k.pc \notin {"undocas", "activate", "drain", "commit", "gateoff", "undotarget"}
        /\ k.pc \in {"undoagain", "undoold"} /\ faults' <= 1 => project.prod # k.v
    BY <1>8, <2>2 DEF NextPCs
  <2>6. PromoteFits(k)'
    BY <1>4, <2>2, <2>3, <2>4, <2>5 DEF PromoteFits
  <2>7. QED BY <1>1, <1>2, <1>9, <2>2, <2>6, RoutePCFacts DEF CallFits
<1>12. \A v \in Versions : k.pc # "idle" /\ c.old = v => Excuses(k, v)
  BY <1>10 DEF Excuses, NextPCs
<1>13. ASSUME faults' <= 1, project.prod = u, row.route # "active" PROVE Excuses(k, u)
  <2>1. u = c.old /\ c.old # NoVersion
    BY <1>8, <1>13, ActorFacts
  <2>2. k.pc # "idle"
    BY <1>10, <1>13, <2>1
  <2>3. QED BY <1>12, <2>1, <2>2
<1>14. ASSUME NEW v \in Versions \ {u}, faults' <= 1, project.prod = v, Excuses(c, v) PROVE Excuses(k, v)
  <2>1. c.old = v
    BY <1>8, <1>14, RoutePCFacts DEF Excuses, RoutePCs
  <2>2. k.pc # "idle"
    BY <1>10, <1>14, <2>1, ActorFacts
  <2>3. QED BY <1>12, <2>1, <2>2
<1>15. faults' = 0 /\ row.status \in {"ready", "archived"} => row.data
  <2>1. DataInv
    BY DEF AllInv
  <2>2. faults' = 0 /\ row.status \in {"ready", "archived"} => versions[u].data
    BY <1>6, <2>1 DEF DataInv, ServedHasData
  <2>3. QED BY <2>2
<1>16. faults' = 0 /\ cuts' = 0 /\ Elastic = {} /\ row.status = "ready" => row.up = "recorded"
  BY <1>6 DEF AllInv, ArmInv
<1>17. row.status \in {"ready", "archived"} => Live(u)
  BY DEF Live
<1>18. k.pc \notin ArchivePCs
  BY RoutePCFacts, NoCallFacts DEF ArchivePCs
<1> HIDE DEF c
<1>19. call[s].pc \notin {"activate", "wready"}
  BY <1>1 DEF c
<1>20. \A v \in Versions \ {u} : faults' <= 1 /\ project.prod = v /\ Excuses(call[s], v) => Excuses(k, v)
  BY <1>14 DEF c
<1>21. QED
  BY <1>1, <1>2, <1>5, <1>11, <1>13, <1>15, <1>16, <1>17, <1>18, <1>19, <1>20, PlainStep, SMTT(30)

\* A route is switched, or its write is dropped.
LEMMA RouteWrite ==
  ASSUME TypeOK, NEW u \in Versions, NEW t \in {"active", "inactive"}, versions[u].route # "none",
         SetRoute(u, t) \/ UNCHANGED versions
  PROVE  \E row \in VersionRow :
           /\ versions' = [versions EXCEPT ![u] = row]
           /\ row.status = versions[u].status /\ row.up = versions[u].up /\ row.data = versions[u].data
           /\ row.armed = versions[u].armed /\ row.route # "none" /\ (SetRoute(u, t) => row.route = t)
<1>1. versions[u] \in VersionRow /\ versions \in [Versions -> VersionRow]
  BY DEF TypeOK
<1>2. CASE SetRoute(u, t)
  <2>1. PICK row \in VersionRow :
          /\ row = Switched(versions[u], t) /\ row.status = versions[u].status /\ row.up = versions[u].up
          /\ row.route = IF versions[u].route = "none" THEN "none" ELSE t
          /\ row.data = versions[u].data /\ row.armed = versions[u].armed /\ row.pinned = versions[u].pinned
    BY <1>1, RowRoute
  <2>2. QED BY <1>2, <2>1 DEF SetRoute, SetVersion
<1>3. CASE UNCHANGED versions /\ ~SetRoute(u, t)
  BY <1>1, <1>3
<1>4. QED BY <1>2, <1>3

\* A promotion that goes on keeps what it has read.
LEMMA NextCall ==
  ASSUME TypeOK, NEW s \in Actors, NEW pc \in NextPCs, Go(s, pc)
  PROVE  \E k \in Call : /\ call' = [call EXCEPT ![s] = k] /\ k # NoCall
                         /\ k.v = call[s].v /\ k.old = call[s].old /\ k.was = call[s].was /\ k.pc = pc
<1>1. pc \in PCs /\ pc # "idle"
  BY RoutePCFacts
<1>2. QED BY <1>1, GoesOn, NoCallFacts

\* The row a promotion writes is there.
LEMMA OldAndNew ==
  ASSUME AllInv, NEW s \in Slots, call[s].pc \in SwitchPCs
  PROVE  /\ TypeOK /\ s \in Actors /\ call[s].v \in Versions /\ versions[call[s].v].route # "none"
         /\ call[s].old # NoVersion => call[s].old \in Versions /\ versions[call[s].old].route # "none"
         /\ call[s].pc \in {"drain", "deactivate", "undoagain", "undoold"} => call[s].old # NoVersion
         /\ call[s].pc \in UndoPCs => faults > 0
         /\ PromoteFits(call[s])
<1>1. s \in Actors /\ call[s].pc # "idle" /\ call[s].pc \in PromotePCs \cup UndoPCs
  BY ActorFacts DEF SwitchPCs, UndoPCs, PromotePCs
<1>2. /\ TypeOK /\ CallFits(s) /\ call[s].v \in Versions /\ versions[call[s].v].route # "none"
      /\ call[s] \in Call
      /\ \A v \in Versions : versions[v].status # "deploying" => versions[v].route # "none"
  BY <1>1, AtCall
<1>3. PromoteFits(call[s])
  BY <1>1, <1>2 DEF CallFits
<1>4. call[s].old # NoVersion => call[s].old \in Versions
  BY <1>2 DEF Call
<1>5. QED BY <1>1, <1>2, <1>3, <1>4 DEF PromoteFits

LEMMA DrainsKeep == ASSUME AllInv, NEW s \in Slots, DrainOld(s) \/ DeactivateOld(s) PROVE AllInv'
<1>1. call[s].pc \in {"drain", "deactivate"} /\ call[s].pc \in RoutePCs
  BY DEF DrainOld, DeactivateOld, RoutePCs
<1>2. /\ TypeOK /\ s \in Actors /\ call[s].old \in Versions /\ versions[call[s].old].route # "none"
      /\ call[s].old # NoVersion
  BY <1>1, OldAndNew, RoutePCFacts
<1> DEFINE u == call[s].old
<1>3. /\ SetRoute(u, "inactive") \/ UNCHANGED versions
      /\ NoFault \/ Fault
      /\ UNCHANGED <<project, main, dep, cron, pass>>
  BY DEF DrainOld, DeactivateOld, Dropping
<1>4. PICK row \in VersionRow :
        /\ versions' = [versions EXCEPT ![u] = row]
        /\ row.status = versions[u].status /\ row.up = versions[u].up /\ row.data = versions[u].data
        /\ row.armed = versions[u].armed /\ row.route # "none"
  BY <1>2, <1>3, RouteWrite
<1>5. PICK pc \in NextPCs :
        /\ Go(s, pc)
        /\ pc \in {"deactivate", "gate"} \/ (pc = "undoold" /\ Fault)
  BY DEF DrainOld, DeactivateOld, NextPCs
<1>6. PICK k \in Call : /\ call' = [call EXCEPT ![s] = k] /\ k # NoCall
                        /\ k.v = call[s].v /\ k.old = call[s].old /\ k.was = call[s].was /\ k.pc = pc
  BY <1>2, <1>5, NextCall
<1>7. /\ faults' \in 0..MaxFaults /\ cuts' \in 0..MaxCuts /\ faults' >= faults /\ cuts' >= cuts
      /\ k.pc \in UndoPCs => faults' > 0
  BY <1>2, <1>3, <1>5, <1>6, NoFaultFacts, RoutePCFacts
<1>8. CallStep(s, k, u, row)
  BY <1>2, <1>3, <1>4, <1>5, <1>6, <1>7, RoutePCFacts DEF CallStep, TypeOK
<1>9. /\ u = IF call[s].pc \in {"gateoff", "undotarget"} THEN call[s].v ELSE call[s].old
      /\ call[s].pc # "undoold"
  BY <1>1
<1> HIDE DEF u
<1>10. u \in Versions
  BY <1>2 DEF u
<1>11. k # NoCall => /\ k.v = call[s].v /\ k.old = call[s].old /\ k.was = call[s].was
                     /\ k.pc \in NextPCs /\ k.old # NoVersion
  BY <1>2, <1>5, <1>6
<1>12. QED BY <1>1, <1>3, <1>4, <1>6, <1>7, <1>8, <1>9, <1>10, <1>11, RouteStep

\* The end of the undoing of a target: the old prod is next, or it is over.
LEMMA UndoNextCall ==
  ASSUME TypeOK, NEW s \in Actors, UndoOldNext(s)
  PROVE  \E k \in Call : /\ call' = [call EXCEPT ![s] = k]
                         /\ k # NoCall => /\ k.v = call[s].v /\ k.old = call[s].old /\ k.was = call[s].was
                                           /\ k.pc = "undoagain" /\ k.pc \in NextPCs /\ k.old # NoVersion
                         /\ k = NoCall => call[s].old = NoVersion
<1>1. CASE call[s].old = NoVersion
  BY <1>1, NoCallFacts DEF UndoOldNext, Done, SetCall
<1>2. CASE call[s].old # NoVersion
  <2>1. "undoagain" \in NextPCs /\ Go(s, "undoagain")
    BY <1>2 DEF UndoOldNext, NextPCs
  <2>2. QED BY <1>2, <2>1, NextCall
<1>3. QED BY <1>1, <1>2

LEMMA TargetsOffKeep == ASSUME AllInv, NEW s \in Slots, GateRefused(s) \/ UndoTarget(s) PROVE AllInv'
<1>1. call[s].pc \in {"gateoff", "undotarget"} /\ call[s].pc \in RoutePCs /\ call[s].pc \in UndoPCs
  BY RoutePCFacts DEF GateRefused, UndoTarget, RoutePCs
<1>2. /\ TypeOK /\ s \in Actors /\ call[s].v \in Versions /\ versions[call[s].v].route # "none"
      /\ faults > 0
  BY <1>1, OldAndNew, RoutePCFacts
<1> DEFINE u == call[s].v
<1>3. /\ SetRoute(u, "inactive") \/ UNCHANGED versions
      /\ NoFault \/ Fault
      /\ UNCHANGED <<project, main, dep, cron, pass>>
  BY DEF GateRefused, UndoTarget, Dropping
<1>4. PICK row \in VersionRow :
        /\ versions' = [versions EXCEPT ![u] = row]
        /\ row.status = versions[u].status /\ row.up = versions[u].up /\ row.data = versions[u].data
        /\ row.armed = versions[u].armed /\ row.route # "none"
  BY <1>2, <1>3, RouteWrite
<1>5. PICK k \in Call : /\ call' = [call EXCEPT ![s] = k]
                        /\ k # NoCall => /\ k.v = call[s].v /\ k.old = call[s].old /\ k.was = call[s].was
                                          /\ k.pc = "undoagain" /\ k.pc \in NextPCs /\ k.old # NoVersion
                        /\ k = NoCall => call[s].old = NoVersion
  BY <1>2, UndoNextCall DEF GateRefused, UndoTarget
<1>6. /\ faults' \in 0..MaxFaults /\ cuts' \in 0..MaxCuts /\ faults' >= faults /\ cuts' >= cuts
  BY <1>2, <1>3, NoFaultFacts
<1>7. faults' > 0
  BY <1>2, <1>6, NoFaultFacts
<1>8. k.pc = "idle" => k = NoCall
  BY <1>5
<1>9. CallStep(s, k, u, row)
  BY <1>2, <1>3, <1>4, <1>5, <1>6, <1>8 DEF CallStep, TypeOK
<1>10. /\ u = IF call[s].pc \in {"gateoff", "undotarget"} THEN call[s].v ELSE call[s].old
       /\ call[s].pc # "undoold"
  BY <1>1
<1>11. k.pc \notin {"deactivate", "gate"}
  BY <1>5, NoCallFacts
<1> HIDE DEF u
<1>12. u \in Versions
  BY <1>2 DEF u
<1>13. QED BY <1>1, <1>3, <1>4, <1>5, <1>7, <1>9, <1>10, <1>11, <1>12, RouteStep

LEMMA UndoOldKeeps == ASSUME AllInv, NEW s \in Slots, UndoOld(s) PROVE AllInv'
<1>1. call[s].pc \in {"undoagain", "undoold"} /\ call[s].pc \in RoutePCs /\ call[s].pc \in UndoPCs
  BY RoutePCFacts DEF UndoOld, RoutePCs
<1>2. /\ TypeOK /\ s \in Actors /\ call[s].old \in Versions /\ versions[call[s].old].route # "none"
      /\ call[s].old # NoVersion /\ faults > 0
  BY <1>1, OldAndNew, RoutePCFacts
<1> DEFINE u == call[s].old
<1>3. /\ (SetRoute(u, "active") /\ NoFault) \/ (UNCHANGED versions /\ Fault)
      /\ UNCHANGED <<project, main, dep, cron, pass>>
  BY DEF UndoOld, Dropping
<1>4. PICK row \in VersionRow :
        /\ versions' = [versions EXCEPT ![u] = row]
        /\ row.status = versions[u].status /\ row.up = versions[u].up /\ row.data = versions[u].data
        /\ row.armed = versions[u].armed /\ row.route # "none"
        /\ SetRoute(u, "active") => row.route = "active"
  BY <1>2, <1>3, RouteWrite
<1>5. PICK k \in Call : /\ call' = [call EXCEPT ![s] = k]
                        /\ k # NoCall => /\ k.v = call[s].v /\ k.old = call[s].old /\ k.was = call[s].was
                                          /\ k.pc = "undoold" /\ k.pc \in NextPCs
                        /\ k = NoCall => call[s].pc = "undoold"
  <2>1. CASE call[s].pc = "undoagain"
    <3>1. "undoold" \in NextPCs /\ Go(s, "undoold")
      BY <2>1 DEF UndoOld, NextPCs
    <3>2. QED BY <1>2, <3>1, NextCall
  <2>2. CASE call[s].pc # "undoagain"
    <3>1. call' = [call EXCEPT ![s] = NoCall]
      BY <2>2 DEF UndoOld, Done, SetCall
    <3>2. QED BY <1>1, <2>2, <3>1, NoCallFacts
  <2>3. QED BY <2>1, <2>2
<1>6. /\ faults' \in 0..MaxFaults /\ cuts' \in 0..MaxCuts /\ faults' >= faults /\ cuts' >= cuts
  BY <1>2, <1>3, NoFaultFacts
<1>7. faults' > 0 /\ (Fault => ~(faults' <= 1))
  BY <1>2, <1>6, NoFaultFacts
<1>8. k.pc = "idle" => k = NoCall
  BY <1>5
<1>9. CallStep(s, k, u, row)
  BY <1>2, <1>3, <1>4, <1>5, <1>6, <1>8 DEF CallStep, TypeOK
<1>10. /\ u = IF call[s].pc \in {"gateoff", "undotarget"} THEN call[s].v ELSE call[s].old
       /\ row.route = "active" \/ ~(faults' <= 1)
  BY <1>1, <1>3, <1>4, <1>7
<1>11. k.pc \notin {"deactivate", "gate"}
  BY <1>5, NoCallFacts
<1>12. k # NoCall => k.old # NoVersion
  BY <1>2, <1>5
<1> HIDE DEF u
<1>13. u \in Versions
  BY <1>2 DEF u
<1>14. QED BY <1>1, <1>3, <1>4, <1>5, <1>7, <1>9, <1>10, <1>11, <1>12, <1>13, RouteStep

-----------------------------------------------------------------------------
(* The pointer, and the reconciliation that follows it.                     *)

\* What SetProdVersionCAS writes.
LEMMA SwappedFacts ==
  ASSUME TypeOK, NEW old \in Versions \cup {NoVersion}, NEW new \in Versions \cup {NoVersion}
  PROVE  Swapped(old, new) \in Project /\ Swapped(old, new).prod = IF new = NoVersion THEN Blank ELSE new
<1>1. project \in Project
  BY DEF TypeOK
<1>2. PICK kept : kept = IF old = NoVersion THEN project.kept ELSE TRUE
  OBVIOUS
<1>3. kept \in BOOLEAN
  BY <1>1, <1>2 DEF Project
<1>4. PICK prod \in Prods : prod = IF new = NoVersion THEN Blank ELSE new
  BY DEF Prods
<1>5. PICK previous \in Versions \cup {NoVersion} :
        previous = IF old = NoVersion THEN project.previous ELSE old
  BY <1>1 DEF Project
<1>6. Swapped(old, new) = [prod |-> prod, previous |-> previous, kept |-> kept]
  BY <1>2, <1>4, <1>5 DEF Swapped
<1>7. QED BY <1>3, <1>4, <1>6 DEF Project

\* A promotion reads what prod is before it switches anything.
LEMMA ReadsProd ==
  ASSUME AllInv, NEW s \in Slots, PromoteReadProd(s), ~Done(s)
  PROVE  AllInv'
<1>1. s \in Actors /\ s # Reaper /\ call[s].pc = "readprod"
  BY ActorFacts DEF PromoteReadProd
<1>2. /\ TypeOK /\ SwitchInv /\ Alone(s) /\ CallFits(s) /\ call[s].v \in Versions /\ call[s] \in Call
      /\ NeverArchiveProd /\ versions[call[s].v].status # "deploying"
  BY <1>1, AtCall
<1>3. /\ "readprod" \in PromotePCs
      /\ \A pc \in {"drain", "gate"} :
           pc \in PCs /\ pc \in PromotePCs /\ pc \notin UndoPCs \cup ArchivePCs \cup WakePCs \cup DestroyPCs
  BY DEF PromotePCs, PCs, UndoPCs, ArchivePCs, WakePCs, DestroyPCs
<1>4. PICK old : old = IF project.prod \in Versions THEN project.prod ELSE NoVersion
  OBVIOUS
<1>5. /\ old # call[s].v /\ old \in Versions \cup {NoVersion} /\ project.prod \in Prods
      /\ old # NoVersion => versions[old].status \notin {"archived", "deploying"}
  <2>1. old # call[s].v
    BY <1>4 DEF PromoteReadProd
  <2>2. project.prod \in Prods
    BY <1>2 DEF TypeOK, Project
  <2>3. ASSUME old # NoVersion PROVE versions[old].status \notin {"archived", "deploying"}
    <3>1. old \in Versions /\ project.prod = old
      BY <1>4, <2>3
    <3>2. DeployFits(old) /\ dep[old].pc \in {"new", "done"}
      BY <1>2, <3>1 DEF SwitchInv, Alone
    <3>3. QED BY <1>2, <3>1, <3>2 DEF DeployFits, NeverArchiveProd
  <2>4. QED BY <1>4, <2>1, <2>2, <2>3
<1>6. PICK pc \in {"drain", "gate"} : pc = IF old = NoVersion THEN "gate" ELSE "drain"
  OBVIOUS
<1>7. PICK k : k = [call[s] EXCEPT !.pc = pc, !.old = old, !.was = project.prod]
  OBVIOUS
<1>8. k \in Call /\ k.pc = pc /\ k.v = call[s].v /\ k.old = old /\ k.was = project.prod
  BY <1>2, <1>3, <1>5, <1>6, <1>7 DEF Call, PCs
<1>9. call' = [call EXCEPT ![s] = k] /\ UNCHANGED <<project, versions, main, dep, cron, pass>> /\ NoFault
  BY <1>4, <1>5, <1>6, <1>7 DEF PromoteReadProd, SetCall
<1>10. call'[s] = k
  BY <1>1, <1>2, <1>9 DEF TypeOK
<1>11. versions[k.v].status = "ready"
  BY <1>1, <1>2, <1>3, <1>8 DEF CallFits, PromoteFits
<1>12. PromoteFits(k)'
  BY <1>3, <1>4, <1>5, <1>6, <1>8, <1>9, <1>11 DEF PromoteFits
<1>13. CallFits(s)'
  BY <1>1, <1>2, <1>3, <1>8, <1>10, <1>12 DEF CallFits
<1>14. \A v \in Versions : ~Excuses(call[s], v)
  BY <1>1 DEF Excuses
<1>15. main' \in Versions \cup {NoVersion} /\ k.pc # "idle" /\ k.pc \notin ArchivePCs
  BY <1>2, <1>3, <1>8, <1>9 DEF TypeOK
<1>16. QED BY <1>1, <1>2, <1>8, <1>9, <1>13, <1>14, <1>15, NoWrite, NoFaultFacts

\* The call ends and leaves a reconciliation behind.
LEMMA CronStarts ==
  ASSUME AllInv, NEW s \in Slots, call[s].pc \in {"readprod", "activate"}, Done(s), NEW c \in Cron,
         cron' = [cron EXCEPT ![s] = c], c.pc = "read", CronFits(c),
         call[s].pc = "activate" => c.old = call[s].old,
         UNCHANGED <<project, versions, main, dep, pass>>, NoFault
  PROVE  AllInv'
<1>1. s \in Actors /\ s # Reaper /\ call[s].pc # "idle"
  BY ActorFacts
<1>2. TypeOK /\ SwitchInv /\ Alone(s) /\ NeverArchiveProd
  BY <1>1, AtCall
<1>3. /\ call' \in [Actors -> Call] /\ \A a \in Actors : call'[a] = NoCall
  BY <1>1, <1>2, NoCallFacts DEF Done, SetCall, TypeOK, Alone
<1>4. /\ cron' \in [Slots -> Cron] /\ cron'[s] = c /\ \A t \in Slots \ {s} : cron'[t].pc = "idle"
  BY <1>2 DEF TypeOK, Alone
<1>5. TypeOK'
  BY <1>2, <1>3, <1>4, NoFaultFacts DEF TypeOK
<1>6. Solo'
  <2>1. \A x \in Underway' : x = s
    BY <1>1, <1>2, <1>3, <1>4, NoCallFacts DEF Underway, Alone
  <2>2. QED BY <1>3, <2>1, NoCallFacts, ActorFacts DEF Solo
<1>7. SwitchInv'
  <2>1. NeverArchiveProd' /\ PassFits' /\ OneCall
    BY <1>2 DEF NeverArchiveProd, PassFits, SwitchInv
  <2>2. \A t \in Slots : cron'[t].pc # "idle" => CronFits(cron[t])'
    BY <1>4 DEF CronFits
  <2>3. \A v \in Versions : DeployFits(v)'
    BY <1>2 DEF SwitchInv, DeployFits
  <2>4. QED BY <1>3, <1>5, <1>6, <2>1, <2>2, <2>3, NoCallFacts DEF SwitchInv, OneCall
<1>8. faults' = faults /\ cuts' = cuts
  BY DEF NoFault
<1>9. ServesInv'
  <2>1. \A v \in Versions, t \in Slots : ~Excuses(call[t], v)
    BY <1>2, NoCallFacts, ActorFacts DEF Excuses, Alone
  <2>2. ServesInv
    BY DEF AllInv
  <2>3. QED BY <1>8, <2>1, <2>2 DEF ServesInv
<1>10. DataInv'
  BY <1>8 DEF AllInv, DataInv, ServedHasData
<1>11. OffInv'
  <2>1. \A a \in Actors : call[a].pc # "wready"
    BY <1>2, NoCallFacts DEF Alone
  <2>2. QED BY <1>8, <2>1 DEF AllInv, OffInv
<1>12. ArmInv'
  <2>1. ASSUME NEW v \in Versions PROVE (Live(v)' => Live(v)) /\ (ToDisarm(v) => ToDisarm(v)')
    <3>1. "idle" \notin ArchivePCs
      BY DEF ArchivePCs
    <3>2. Live(v)' => Live(v)
      BY <1>3, <3>1, NoCallFacts DEF Live
    <3>3. ToDisarm(v) => call[s].pc = "activate" /\ call[s].old = v
      BY <1>2, NoCallFacts, ActorFacts DEF ToDisarm, Alone
    <3>4. ToDisarm(v) => ToDisarm(v)'
      BY <1>4, <3>3 DEF ToDisarm
    <3>5. QED BY <3>2, <3>4
  <2>2. ArmInv
    BY DEF AllInv
  <2>3. QED BY <1>8, <2>1, <2>2 DEF ArmInv
<1>13. QED BY <1>7, <1>9, <1>10, <1>11, <1>12 DEF AllInv

LEMMA PromoteReadProdKeeps == ASSUME AllInv, NEW s \in Slots, PromoteReadProd(s) PROVE AllInv'
<1>1. CASE Done(s)
  <2>1. s \in Actors /\ call[s].pc = "readprod"
    BY ActorFacts DEF PromoteReadProd
  <2>2. TypeOK /\ call[s].v \in Versions /\ Alone(s)
    BY <2>1, AtCall
  <2>3. cron' = [cron EXCEPT ![s] = [NoCron EXCEPT !.pc = "read", !.new = call[s].v]]
    <3>1. CASE ~((IF project.prod \in Versions THEN project.prod ELSE NoVersion) = call[s].v)
      <4>1. PICK k : /\ k = [call[s] EXCEPT !.pc = IF ~(project.prod \in Versions) THEN "gate" ELSE "drain",
                            !.old = IF project.prod \in Versions THEN project.prod ELSE NoVersion,
                            !.was = project.prod]
        OBVIOUS
      <4>2. call'[s] = k
        BY <2>1, <2>2, <3>1, <4>1, ActorFacts DEF PromoteReadProd, SetCall, TypeOK
      <4>3. k.pc # "idle"
        BY <2>1, <2>2, <4>1 DEF TypeOK, Call
      <4>4. call'[s] = NoCall
        BY <1>1, <2>1, <2>2 DEF Done, SetCall, TypeOK
      <4>5. QED BY <4>2, <4>3, <4>4, NoCallFacts
    <3>2. QED BY <3>1 DEF PromoteReadProd
  <2>4. PICK c : c = [NoCron EXCEPT !.pc = "read", !.new = call[s].v]
    OBVIOUS
  <2>5. c \in Cron /\ c.pc = "read" /\ c.new = call[s].v /\ c.old = NoVersion
    BY <2>2, <2>4 DEF NoCron, Cron, Prods
  <2>6. CronFits(c)
    BY <2>2, <2>5, ActorFacts DEF CronFits
  <2>7. QED BY <1>1, <2>1, <2>3, <2>4, <2>5, <2>6, CronStarts DEF PromoteReadProd
<1>2. QED BY <1>1, ReadsProd

LEMMA ActivateKeeps == ASSUME AllInv, NEW s \in Slots, Activate(s) PROVE AllInv'
<1>1. s \in Actors /\ s # Reaper /\ call[s].pc = "activate" /\ call[s].pc \in SwitchPCs
  BY ActorFacts DEF Activate, SwitchPCs
<1>2. /\ TypeOK /\ Alone(s) /\ CallFits(s) /\ call[s].v \in Versions /\ call[s] \in Call
      /\ versions[call[s].v].status # "deploying"
  BY <1>1, AtCall
<1>3. PromoteFits(call[s])
  BY <1>1, OldAndNew
<1>4. UNCHANGED <<project, versions, main, dep, pass>>
  BY DEF Activate
<1>5. CASE Done(s) /\ NoFault
           /\ cron' = [cron EXCEPT ![s] = [NoCron EXCEPT !.pc = "read", !.new = call[s].v, !.old = call[s].old]]
  <2>1. PICK c : c = [NoCron EXCEPT !.pc = "read", !.new = call[s].v, !.old = call[s].old]
    OBVIOUS
  <2>2. c \in Cron /\ c.pc = "read" /\ c.new = call[s].v /\ c.old = call[s].old
    BY <1>2, <2>1 DEF NoCron, Cron, Call, Prods
  <2>3. CronFits(c)
    BY <1>1, <1>2, <1>3, <2>2, ActorFacts DEF CronFits, PromoteFits
  <2>4. QED BY <1>1, <1>4, <1>5, <2>1, <2>2, <2>3, CronStarts
<1>6. CASE Go(s, "undocas") /\ UNCHANGED cron /\ Fault
  <2>1. /\ "undocas" \in PCs /\ "undocas" \in SwitchPCs /\ "undocas" \in UndoPCs
        /\ "undocas" \notin ArchivePCs \cup WakePCs \cup DestroyPCs
    BY DEF PCs, SwitchPCs, UndoPCs, ArchivePCs, WakePCs, DestroyPCs
  <2>2. PICK k \in Call : /\ call' = [call EXCEPT ![s] = k]
                          /\ k.pc = "undocas" /\ k.v = call[s].v /\ k.old = call[s].old /\ k.was = call[s].was
    BY <1>1, <1>2, <1>6, <2>1, GoesOn
  <2>3. call'[s] = k
    BY <1>1, <1>2, <2>2 DEF TypeOK
  <2>4. /\ faults' \in 0..MaxFaults /\ cuts' \in 0..MaxCuts /\ faults' >= faults /\ cuts' >= cuts
        /\ faults' > 0 /\ faults' # 0
    BY <1>2, <1>6, NoFaultFacts
  <2>5. PromoteFits(k)'
    BY <1>1, <1>3, <1>4, <2>1, <2>2, <2>4 DEF PromoteFits
  <2>6. CallFits(s)'
    BY <1>1, <1>2, <2>1, <2>2, <2>3, <2>5 DEF CallFits
  <2>7. \A v \in Versions : ~Excuses(call[s], v)
    BY <1>1 DEF Excuses
  <2>8. main' \in Versions \cup {NoVersion}
    BY <1>2, <1>4 DEF TypeOK
  <2>9. QED BY <1>1, <1>2, <1>4, <1>6, <2>1, <2>2, <2>4, <2>6, <2>7, <2>8, NoWrite
<1>7. QED BY <1>5, <1>6 DEF Activate

\* The pointer moved: the version it moved to, or nobody, is prod.
LEMMA CommitKeeps ==
  ASSUME AllInv, NEW s \in Slots, call[s].pc = "commit", CASHolds(call[s].old),
         project' = Swapped(call[s].old, call[s].v), SetRoute(call[s].v, "active"), Go(s, "activate"), NoFault,
         UNCHANGED <<main, dep, cron, pass>>
  PROVE  AllInv'
<1>1. s \in Actors /\ s # Reaper /\ call[s].pc \in SwitchPCs
  BY ActorFacts DEF SwitchPCs
<1>2. /\ TypeOK /\ SwitchInv /\ Alone(s) /\ CallFits(s) /\ call[s].v \in Versions /\ call[s] \in Call
      /\ versions[call[s].v].status # "deploying" /\ NeverArchiveProd
  BY <1>1, AtCall
<1>3. PromoteFits(call[s]) /\ versions[call[s].v].route # "none"
  BY <1>1, OldAndNew
<1> DEFINE u == call[s].v
<1>4. PICK row \in VersionRow :
        /\ versions' = [versions EXCEPT ![u] = row]
        /\ row.status = versions[u].status /\ row.up = versions[u].up /\ row.data = versions[u].data
        /\ row.armed = versions[u].armed /\ row.route # "none"
        /\ SetRoute(u, "active") => row.route = "active"
  BY <1>2, <1>3, RouteWrite
<1>5. /\ "activate" \in PCs /\ "activate" \in SwitchPCs /\ "activate" \in PromotePCs
      /\ "activate" \notin UndoPCs \cup ArchivePCs \cup WakePCs \cup DestroyPCs
  BY DEF PCs, SwitchPCs, PromotePCs, UndoPCs, ArchivePCs, WakePCs, DestroyPCs
<1>6. PICK k \in Call : /\ call' = [call EXCEPT ![s] = k]
                        /\ k.pc = "activate" /\ k.v = call[s].v /\ k.old = call[s].old /\ k.was = call[s].was
  BY <1>1, <1>2, <1>5, GoesOn
<1>7. project' \in Project /\ project'.prod = u
  BY <1>2, SwappedFacts, ActorFacts DEF Call
<1>8. CallStep(s, k, u, row)
  BY <1>2, <1>4, <1>6, NoFaultFacts DEF CallStep, TypeOK
<1>9. /\ call'[s] = k /\ versions'[u] = row
      /\ \A w \in Versions \ {u} : versions'[w] = versions[w]
  BY <1>1, <1>2, <1>8, StepFacts
<1>10. row.route = "active" /\ row.status = "ready"
  BY <1>3, <1>4 DEF PromoteFits
<1>11. NeverArchiveProd'
  BY <1>2, <1>7, <1>9, <1>10 DEF NeverArchiveProd
<1>12. PassFits'
  BY <1>1, <1>2 DEF PassFits, Alone
<1>13. CallFits(s)'
  <2>1. k.old # k.v /\ (k.old # NoVersion => versions'[k.old].status \notin {"archived", "deploying"})
    BY <1>3, <1>6, <1>9, <1>1, <1>2 DEF PromoteFits, Call
  <2>2. PromoteFits(k)'
    BY <1>1, <1>3, <1>5, <1>6, <1>7, <1>9, <1>10, <2>1 DEF PromoteFits
  <2>3. QED BY <1>1, <1>2, <1>5, <1>6, <1>9, <2>2 DEF CallFits
<1>14. SwitchInv'
  BY <1>1, <1>2, <1>4, <1>7, <1>8, <1>10, <1>11, <1>12, <1>13, StepKeepsSwitch
<1>15. ServesInv'
  BY <1>2, <1>7, <1>9, <1>10 DEF ServesInv
<1>16. /\ faults' = faults /\ cuts' = cuts
       /\ DataInv /\ OffInv /\ ArmInv
  BY DEF NoFault, AllInv
<1>17. DataInv'
  <2>1. faults' = 0 => row.data
    BY <1>2, <1>4, <1>10, <1>16 DEF DataInv, ServedHasData
  <2>2. QED BY <1>1, <1>2, <1>8, <1>16, <2>1, StepKeepsData
<1>18. OffInv'
  BY <1>1, <1>2, <1>8, <1>10, <1>16, StepKeepsOff
<1>19. ArmInv'
  <2>1. faults' = 0 /\ cuts' = 0 /\ Elastic = {} => row.up = "recorded"
    BY <1>2, <1>4, <1>10, <1>16 DEF ArmInv
  <2>2. Live(u) /\ k.pc \notin ArchivePCs
    BY <1>4, <1>5, <1>6, <1>10 DEF Live
  <2>3. ASSUME faults' = 0, cuts' = 0, Elastic = {}, NEW v \in Versions,
               project.prod \in {v, NoVersion} \/ ToDisarm(v)
        PROVE  ToDisarm(v)'
    <3>1. ~ToDisarm(v)
      BY <1>2, NoCallFacts, ActorFacts DEF ToDisarm, Alone
    <3>2. project.prod # NoVersion
      <4>1. dep[u].pc = "done"
        BY <1>2 DEF Alone, SwitchInv, DeployFits
      <4>2. QED BY <1>2, <1>16, <2>3, <4>1 DEF ArmInv
    <3>3. k.old = v
      BY <1>6, <2>3, <3>1, <3>2 DEF CASHolds
    <3>4. QED BY <1>6, <1>9, <3>3 DEF ToDisarm
  <2>4. QED BY <1>1, <1>2, <1>4, <1>7, <1>8, <1>16, <2>1, <2>2, <2>3, StepKeepsArm
<1>20. QED BY <1>14, <1>15, <1>17, <1>18, <1>19 DEF AllInv

\* A commit that is refused leaves the project and the rows.
LEMMA CommitRefused ==
  ASSUME AllInv, NEW s \in Slots, call[s].pc = "commit", UndoOldNext(s),
         UNCHANGED <<project, versions, main, dep, cron, pass>>,
         Fault \/ (NoFault /\ (~CASHolds(call[s].old) \/ versions[call[s].v].route = "none"))
  PROVE  AllInv'
<1>1. s \in Actors /\ s # Reaper /\ call[s].pc \in SwitchPCs
  BY ActorFacts DEF SwitchPCs
<1>2. /\ TypeOK /\ Alone(s) /\ CallFits(s) /\ call[s].v \in Versions /\ call[s] \in Call
      /\ versions[call[s].v].status # "deploying" /\ versions[call[s].v].route # "none"
  BY <1>1, AtCall
<1>3. PromoteFits(call[s])
  BY <1>1, OldAndNew
<1>4. PICK k \in Call : /\ call' = [call EXCEPT ![s] = k]
                        /\ k # NoCall => /\ k.v = call[s].v /\ k.old = call[s].old /\ k.was = call[s].was
                                          /\ k.pc = "undoagain" /\ k.pc \in NextPCs /\ k.old # NoVersion
                        /\ k = NoCall => call[s].old = NoVersion
  BY <1>1, <1>2, UndoNextCall
<1>5. /\ faults' \in 0..MaxFaults /\ cuts' \in 0..MaxCuts /\ faults' >= faults /\ cuts' >= cuts
      /\ Fault => faults' > 0
  BY <1>2, NoFaultFacts
<1>6. k # NoCall => Fault
  BY <1>1, <1>2, <1>3, <1>4 DEF PromoteFits, CASHolds
<1>7. /\ "undoagain" \in UndoPCs /\ "undoagain" \notin ArchivePCs \cup WakePCs \cup DestroyPCs
  BY DEF UndoPCs, ArchivePCs, WakePCs, DestroyPCs
<1>8. k # NoCall => PromoteFits(k)'
  <2>1. SUFFICES ASSUME k # NoCall PROVE PromoteFits(k)'
    OBVIOUS
  <2>2. project.prod # k.v
    BY <1>1, <1>2, <1>3, <1>4, <2>1, ActorFacts DEF PromoteFits
  <2>3. QED BY <1>1, <1>3, <1>4, <1>5, <1>6, <2>1, <2>2 DEF PromoteFits
<1>9. call'[s] = k
  BY <1>1, <1>2, <1>4 DEF TypeOK
<1>10. k.pc # "idle" => CallFits(s)'
  BY <1>1, <1>2, <1>4, <1>7, <1>8, <1>9, NoCallFacts DEF CallFits
<1>11. \A v \in Versions : Excuses(call[s], v) => Excuses(k, v)
  <2>1. ASSUME NEW v \in Versions, Excuses(call[s], v) PROVE Excuses(k, v)
    <3>1. call[s].old = v
      BY <2>1 DEF Excuses
    <3>2. k # NoCall
      BY <1>4, <3>1, ActorFacts
    <3>3. QED BY <1>4, <3>1, <3>2 DEF Excuses
  <2>2. QED BY <2>1
<1>12. k.pc \notin ArchivePCs /\ (k.pc = "idle" => k = NoCall)
  BY <1>4, <1>7, NoCallFacts DEF ArchivePCs
<1>13. main' \in Versions \cup {NoVersion}
  BY <1>2 DEF TypeOK
<1>14. QED BY <1>1, <1>2, <1>4, <1>5, <1>10, <1>11, <1>12, <1>13, NoWrite

LEMMA UndoCASKeeps == ASSUME AllInv, NEW s \in Slots, UndoCAS(s) PROVE AllInv'
<1>1. s \in Actors /\ s # Reaper /\ call[s].pc = "undocas" /\ call[s].pc \in SwitchPCs /\ call[s].pc \in UndoPCs
  BY ActorFacts DEF UndoCAS, SwitchPCs, UndoPCs
<1>2. /\ TypeOK /\ SwitchInv /\ Alone(s) /\ CallFits(s) /\ call[s].v \in Versions /\ call[s] \in Call
      /\ versions[call[s].v].status # "deploying" /\ versions[call[s].v].route # "none" /\ NeverArchiveProd
      /\ versions[call[s].v] \in VersionRow
  BY <1>1, AtCall
<1>3. PromoteFits(call[s]) /\ faults > 0
  BY <1>1, OldAndNew
<1>4. /\ "undotarget" \in PCs /\ "undotarget" \in SwitchPCs /\ "undotarget" \in UndoPCs
      /\ "undotarget" \notin ArchivePCs \cup WakePCs \cup DestroyPCs
  BY DEF PCs, SwitchPCs, UndoPCs, ArchivePCs, WakePCs, DestroyPCs
<1>5. PICK k \in Call : /\ call' = [call EXCEPT ![s] = k]
                        /\ k.pc = "undotarget" /\ k.v = call[s].v /\ k.old = call[s].old /\ k.was = call[s].was
  BY <1>1, <1>2, <1>4, GoesOn DEF UndoCAS
<1> DEFINE u == call[s].v  row == versions[u]
<1>6. /\ versions' = versions /\ UNCHANGED <<main, dep, cron, pass>>
      /\ (NoFault /\ project' = Swapped(call[s].v, call[s].old)) \/ (Fault /\ project' = project)
  BY <1>1, <1>3 DEF UndoCAS, Dropping, PromoteFits, CASHolds
<1>7. /\ faults' \in 0..MaxFaults /\ cuts' \in 0..MaxCuts /\ faults' >= faults /\ cuts' >= cuts
  BY <1>2, <1>6, NoFaultFacts
<1>8. faults' > 0 /\ faults' # 0 /\ (Fault => ~(faults' <= 1))
  BY <1>2, <1>3, <1>7, NoFaultFacts
<1>9. /\ project' \in Project
      /\ NoFault => project'.prod = IF call[s].old = NoVersion THEN Blank ELSE call[s].old
  BY <1>2, <1>6, <1>8, SwappedFacts DEF Call, TypeOK, NoFault, Fault
<1>10. CallStep(s, k, u, row)
  BY <1>2, <1>5, <1>6, <1>7 DEF CallStep, TypeOK
<1>11. call'[s] = k
  BY <1>1, <1>2, <1>5 DEF TypeOK
<1>12. \/ project'.prod = project.prod
       \/ project'.prod = Blank
       \/ project'.prod = call[s].old /\ call[s].old \in Versions
  BY <1>2, <1>6, <1>9 DEF Call
<1>13. call[s].old \in Versions => versions[call[s].old].status \notin {"archived", "deploying"}
  BY <1>1, <1>3, ActorFacts DEF PromoteFits
<1>14. NeverArchiveProd'
  BY <1>2, <1>6, <1>12, <1>13, ActorFacts DEF NeverArchiveProd
<1>15. project'.prod \in Versions => versions[project'.prod].status # "deploying"
  <2>1. project.prod \in Versions => versions[project.prod].status # "deploying"
    BY <1>1, <1>2, <1>3 DEF PromoteFits
  <2>2. QED BY <1>12, <1>13, <2>1, ActorFacts
<1>16. PassFits'
  BY <1>1, <1>2, <1>6 DEF PassFits, Alone
<1>17. faults' <= 1 => project'.prod # k.v
  BY <1>1, <1>2, <1>3, <1>5, <1>6, <1>8, <1>9, ActorFacts DEF PromoteFits
<1>18. PromoteFits(k)'
  BY <1>1, <1>3, <1>4, <1>5, <1>6, <1>8, <1>17 DEF PromoteFits
<1>19. CallFits(s)'
  BY <1>1, <1>2, <1>4, <1>5, <1>11, <1>18 DEF CallFits
<1>20. SwitchInv'
  BY <1>1, <1>2, <1>10, <1>9, <1>14, <1>15, <1>16, <1>19, StepKeepsSwitch
<1>21. ServesInv'
  <2>1. SUFFICES ASSUME faults' <= 1, NEW v \in Versions, project'.prod = v
                 PROVE  Excuses(call'[s], v)
    BY DEF ServesInv, Excuses
  <2>2. v = call[s].old
    BY <1>6, <1>8, <1>9, <2>1, ActorFacts
  <2>3. QED BY <1>5, <1>11, <2>2 DEF Excuses
<1>22. DataInv' /\ OffInv' /\ ArmInv'
  BY <1>8 DEF DataInv, OffInv, ArmInv
<1>23. QED BY <1>20, <1>21, <1>22 DEF AllInv

LEMMA PromotingKeeps == ASSUME AllInv, NEW s \in Slots, Promoting(s) PROVE AllInv'
<1>1. CASE \E v \in Versions : PromoteRead(s, v)
  BY <1>1, BeginsKeep
<1>2. CASE PromoteValidate(s)
  BY <1>2, PromoteValidateKeeps
<1>3. CASE PromoteReadProd(s)
  BY <1>3, PromoteReadProdKeeps
<1>4. CASE DrainOld(s) \/ DeactivateOld(s)
  BY <1>4, DrainsKeep
<1>5. CASE HardGate(s)
  BY <1>5, HardGateKeeps
<1>6. CASE GateRefused(s) \/ UndoTarget(s)
  BY <1>6, TargetsOffKeep
<1>7. CASE Commit(s)
  BY <1>7, CommitKeeps, CommitRefused DEF Commit
<1>8. CASE Activate(s)
  BY <1>8, ActivateKeeps
<1>9. CASE UndoCAS(s)
  BY <1>9, UndoCASKeeps
<1>10. CASE UndoOld(s)
  BY <1>10, UndoOldKeeps
<1>11. QED BY <1>1, <1>2, <1>3, <1>4, <1>5, <1>6, <1>7, <1>8, <1>9, <1>10 DEF Promoting

-----------------------------------------------------------------------------
(* Archive, wake and destroy.                                               *)

\* A status is written, or its write is dropped.
LEMMA StatusWrite ==
  ASSUME TypeOK, NEW u \in Versions, NEW st \in {"draining", "archived", "destroyed"},
         Dropping(SetStatus(u, st) /\ UNCHANGED project)
  PROVE  /\ project' = project
         /\ \E row \in VersionRow :
              /\ versions' = [versions EXCEPT ![u] = row]
              /\ row.route = versions[u].route /\ row.up = versions[u].up /\ row.data = versions[u].data
              /\ row.armed = versions[u].armed
              /\ (row.status = st /\ NoFault) \/ (row.status = versions[u].status /\ Fault)
<1>1. versions[u] \in VersionRow /\ versions \in [Versions -> VersionRow]
  BY DEF TypeOK
<1>2. CASE SetStatus(u, st) /\ UNCHANGED project /\ NoFault
  <2>1. PICK row \in VersionRow :
           /\ row = WithStatus(versions[u], st) /\ row.status = st /\ row.route = versions[u].route
           /\ row.up = versions[u].up
           /\ row.data = versions[u].data /\ row.armed = versions[u].armed /\ row.pinned = versions[u].pinned
    <3>1. st \in {"deploying", "ready", "archived", "draining", "destroyed"}
      OBVIOUS
    <3>2. QED BY <1>1, <3>1, RowStatus
  <2>2. QED BY <1>2, <2>1 DEF SetStatus, SetVersion, WithStatus
<1>3. CASE UNCHANGED <<project, versions>> /\ Fault
  <2>1. versions' = [versions EXCEPT ![u] = versions[u]]
    BY <1>1, <1>3
  <2>2. QED BY <1>1, <1>3, <2>1
<1>4. QED BY <1>2, <1>3 DEF Dropping

\* A version is stopped, its route off or not.
LEMMA StopWrite ==
  ASSUME TypeOK, NEW u \in Versions, versions[u].route # "none",
         \/ SetVersion(u, Stopped(u, Switched(versions[u], "inactive"))) /\ NoFault
         \/ SetVersion(u, Stopped(u, versions[u])) /\ Fault
  PROVE  \E row \in VersionRow :
           /\ versions' = [versions EXCEPT ![u] = row]
           /\ row.status = versions[u].status /\ row.data = versions[u].data /\ row.armed = versions[u].armed
           /\ row.route # "none" /\ (u \notin Elastic => row.up = "down")
           /\ (row.route = "inactive" /\ NoFault) \/ Fault
<1>1. versions[u] \in VersionRow
  BY DEF TypeOK
<1>2. CASE SetVersion(u, Stopped(u, Switched(versions[u], "inactive"))) /\ NoFault
  <2>1. PICK mid \in VersionRow :
          /\ mid = Switched(versions[u], "inactive") /\ mid.status = versions[u].status /\ mid.up = versions[u].up
          /\ mid.route = IF versions[u].route = "none" THEN "none" ELSE "inactive"
          /\ mid.data = versions[u].data /\ mid.armed = versions[u].armed /\ mid.pinned = versions[u].pinned
    BY <1>1, RowRoute
  <2>2. PICK row \in VersionRow :
           /\ row = Stopped(u, mid) /\ row.status = mid.status /\ row.route = mid.route
           /\ row.up = IF u \in Elastic THEN mid.up ELSE "down"
           /\ row.data = mid.data /\ row.armed = mid.armed /\ row.pinned = mid.pinned
    BY RowStopped
  <2>3. QED BY <1>2, <2>1, <2>2 DEF SetVersion
<1>3. CASE SetVersion(u, Stopped(u, versions[u])) /\ Fault
  <2>1. PICK row \in VersionRow :
           /\ row = Stopped(u, versions[u]) /\ row.status = versions[u].status /\ row.route = versions[u].route
           /\ row.up = IF u \in Elastic THEN versions[u].up ELSE "down"
           /\ row.data = versions[u].data /\ row.armed = versions[u].armed /\ row.pinned = versions[u].pinned
    BY <1>1, RowStopped
  <2>2. QED BY <1>3, <2>1 DEF SetVersion
<1>4. QED BY <1>2, <1>3

\* The places of an archive past its check.
LEMMA ArchivePCFacts ==
  \A pc \in {"adrain", "aroute", "aset"} :
    /\ pc # "idle" /\ pc \in PCs /\ pc \in ArchivePCs
    /\ pc \notin PromotePCs \cup UndoPCs \cup WakePCs \cup DestroyPCs
    /\ pc \notin {"activate", "wready"}
BY DEF PCs, PromotePCs, UndoPCs, ArchivePCs, WakePCs, DestroyPCs

\* A step of an archive past its check keeps the invariant.
LEMMA ArchiveStep ==
  ASSUME AllInv, NEW a \in Actors, call[a].pc \in {"adrain", "aroute", "aset"}, NEW k \in Call, NEW u \in Versions,
         NEW row \in VersionRow, CallStep(a, k, u, row), project' = project, pass' = pass, u = call[a].v,
         k # NoCall => k.v = u /\ k.pc \in {"aroute", "aset"},
         row.data = versions[u].data, row.armed = versions[u].armed, row.route # "none",
         \/ row.status = versions[u].status \/ row.status = "draining"
         \/ /\ row.status = "archived" /\ k = NoCall /\ call[a].pc = "aset"
            /\ row.route = versions[u].route /\ row.up = versions[u].up,
         faults' = 0 => row.status \in {"draining", "archived"},
         faults' = 0 /\ k.pc = "aset" /\ u \notin Elastic => row.route = "inactive" /\ row.up = "down"
  PROVE  AllInv'
<1>1. call[a].pc # "idle"
  OBVIOUS
<1>2. /\ SwitchInv /\ TypeOK /\ Alone(a) /\ CallFits(a) /\ versions[u].status # "deploying"
  BY <1>1, AtCall
<1>3. ArchiveFits(a, call[a])
  BY <1>2, ArchivePCFacts DEF CallFits
<1>4. /\ versions[u].status \in {"ready", "draining"} /\ project.prod # u
      /\ a = Reaper => ~(project.previous = u /\ project.kept)
      /\ faults = 0 => versions[u].data
      /\ faults = 0 /\ call[a].pc = "aset" /\ u \notin Elastic =>
           versions[u].route = "inactive" /\ versions[u].up = "down"
  BY <1>3 DEF ArchiveFits
<1>5. faults' = 0 => faults = 0
  BY <1>2, BoundsAssumption DEF TypeOK, CallStep
<1>6. call'[a] = k /\ versions'[u] = row
  BY <1>2, StepFacts
<1>7. k.pc = "idle" <=> k = NoCall
  BY NoCallFacts
<1>8. k.pc # "idle" => CallFits(a)'
  <2>1. SUFFICES ASSUME k # NoCall PROVE CallFits(a)'
    BY <1>7
  <2>2. row.status \in {"ready", "draining"} /\ (faults' = 0 => row.data)
    BY <1>4, <1>5, <2>1
  <2>3. ArchiveFits(a, k)'
    BY <1>4, <1>6, <2>1, <2>2 DEF ArchiveFits
  <2>4. QED BY <1>6, <2>1, <2>3, ArchivePCFacts DEF CallFits
<1>9. \A v \in Versions : ~Excuses(call[a], v)
  BY DEF Excuses
<1>10. row.status # "deploying"
  BY <1>4
<1>11. faults' = 0 => row.data
  BY <1>4, <1>5
<1>12. Live(u)
  BY ArchivePCFacts DEF Live
<1>13. k.pc \in ArchivePCs => k.v = u
  BY NoCallFacts DEF ArchivePCs
<1>14. faults' = 0 /\ u \notin Elastic /\ row.status = "archived" => row.route = "inactive" /\ row.up = "down"
  BY <1>4, <1>5
<1>15. call[a].pc \notin {"activate", "wready"}
  BY ArchivePCFacts
<1>16. faults' = 0 => row.status # "ready"
  OBVIOUS
<1>17. QED
  BY <1>2, <1>4, <1>8, <1>9, <1>10, <1>11, <1>12, <1>13, <1>14, <1>15, <1>16, PlainStep

LEMMA ArchivesKeep ==
  ASSUME AllInv, NEW a \in Actors, ArchiveDrain(a) \/ ArchiveRoute(a) \/ ArchiveSet(a) PROVE AllInv'
<1>1. call[a].pc \in {"adrain", "aroute", "aset"} /\ call[a].pc # "idle"
  BY DEF ArchiveDrain, ArchiveRoute, ArchiveSet
<1> DEFINE u == call[a].v
<1>2. /\ TypeOK /\ Alone(a) /\ CallFits(a) /\ u \in Versions /\ versions[u].route # "none"
  BY <1>1, AtCall
<1>3. ArchiveFits(a, call[a])
  BY <1>1, <1>2, ArchivePCFacts DEF CallFits
<1>4. /\ NoFault \/ Fault
      /\ UNCHANGED <<project, main, dep, cron, pass>>
  BY DEF ArchiveDrain, ArchiveRoute, ArchiveSet, Dropping
<1>5. /\ faults' \in 0..MaxFaults /\ cuts' \in 0..MaxCuts /\ faults' >= faults /\ cuts' >= cuts
      /\ Fault => faults' # 0
      /\ faults' = 0 => faults = 0
  BY <1>2, <1>4, NoFaultFacts
<1>6. main' \in Versions \cup {NoVersion}
  BY <1>2, <1>4 DEF TypeOK
<1>7. CASE ArchiveDrain(a)
  <2>1. PICK row \in VersionRow :
              /\ versions' = [versions EXCEPT ![u] = row]
              /\ row.route = versions[u].route /\ row.up = versions[u].up /\ row.data = versions[u].data
              /\ row.armed = versions[u].armed
              /\ (row.status = "draining" /\ NoFault) \/ (row.status = versions[u].status /\ Fault)
    BY <1>2, <1>7, StatusWrite DEF ArchiveDrain
  <2>2. PICK k \in Call : /\ call' = [call EXCEPT ![a] = k]
                          /\ k.pc = "aroute" /\ k.v = u /\ k.old = call[a].old /\ k.was = call[a].was
    BY <1>2, <1>7, GoesOn, ArchivePCFacts DEF ArchiveDrain
  <2>3. CallStep(a, k, u, row)
    BY <1>4, <1>5, <1>6, <2>1, <2>2 DEF CallStep
  <2>4. faults' = 0 => row.status = "draining"
    BY <1>5, <2>1
  <2>5. row.status = versions[u].status \/ row.status = "draining"
    BY <2>1
  <2>6. QED BY <1>1, <1>2, <1>4, <2>1, <2>2, <2>3, <2>4, <2>5, ArchiveStep
<1>8. CASE ArchiveRoute(a)
  <2>1. PICK row \in VersionRow :
           /\ versions' = [versions EXCEPT ![u] = row]
           /\ row.status = versions[u].status /\ row.data = versions[u].data /\ row.armed = versions[u].armed
           /\ row.route # "none" /\ (u \notin Elastic => row.up = "down")
           /\ (row.route = "inactive" /\ NoFault) \/ Fault
    BY <1>2, <1>8, StopWrite DEF ArchiveRoute
  <2>2. PICK k \in Call : /\ call' = [call EXCEPT ![a] = k]
                          /\ k.pc = "aset" /\ k.v = u /\ k.old = call[a].old /\ k.was = call[a].was
    BY <1>2, <1>8, GoesOn, ArchivePCFacts DEF ArchiveRoute
  <2>3. CallStep(a, k, u, row)
    BY <1>4, <1>5, <1>6, <2>1, <2>2 DEF CallStep
  <2>4. faults' = 0 => row.status = "draining"
    <3>1. call[a].pc = "aroute"
      BY <1>8 DEF ArchiveRoute
    <3>2. faults = 0 => versions[u].status = "draining"
      BY <1>3, <3>1 DEF ArchiveFits
    <3>3. QED BY <1>5, <2>1, <3>2
  <2>5. faults' = 0 /\ u \notin Elastic => row.route = "inactive" /\ row.up = "down"
    BY <1>5, <2>1
  <2>6. QED BY <1>1, <1>2, <1>4, <2>1, <2>2, <2>3, <2>4, <2>5, ArchiveStep
<1>9. CASE ArchiveSet(a)
  <2>1. PICK row \in VersionRow :
              /\ versions' = [versions EXCEPT ![u] = row]
              /\ row.route = versions[u].route /\ row.up = versions[u].up /\ row.data = versions[u].data
              /\ row.armed = versions[u].armed
              /\ (row.status = "archived" /\ NoFault) \/ (row.status = versions[u].status /\ Fault)
    BY <1>2, <1>9, StatusWrite DEF ArchiveSet
  <2>2. call' = [call EXCEPT ![a] = NoCall]
    BY <1>9 DEF ArchiveSet, Done, SetCall
  <2>3. CallStep(a, NoCall, u, row)
    BY <1>4, <1>5, <1>6, <2>1, <2>2 DEF CallStep
  <2>4. faults' = 0 => row.status = "archived"
    BY <1>5, <2>1
  <2>5. row.status = versions[u].status \/ row.status = "archived"
    BY <2>1
  <2>6. QED BY <1>1, <1>2, <1>4, <1>9, <2>1, <2>3, <2>4, <2>5, NoCallFacts, ArchiveStep DEF ArchiveSet
<1>10. QED BY <1>7, <1>8, <1>9

\* The places of a destroy past its check.
LEMMA DestroyPCFacts ==
  \A pc \in {"ddrain", "droute", "ddata", "dset"} :
    /\ pc # "idle" /\ pc \in PCs /\ pc \in DestroyPCs
    /\ pc \notin PromotePCs \cup UndoPCs \cup WakePCs \cup ArchivePCs
    /\ pc \notin {"activate", "wready"}
BY DEF PCs, PromotePCs, UndoPCs, ArchivePCs, WakePCs, DestroyPCs

\* A step of a destroy past its check keeps the invariant.
LEMMA DestroyStep ==
  ASSUME AllInv, NEW s \in Slots, call[s].pc \in {"ddrain", "droute", "ddata", "dset"}, NEW k \in Call,
         NEW u \in Versions, NEW row \in VersionRow, CallStep(s, k, u, row), project' = project, pass' = pass,
         u = call[s].v, k # NoCall => k.v = u /\ k.pc \in {"droute", "ddata", "dset"},
         k = NoCall => call[s].pc = "dset",
         k.pc = "droute" => call[s].pc = "ddrain" /\ row.route = versions[u].route,
         row.armed = versions[u].armed, row.route # "none",
         \/ row.status = versions[u].status \/ row.status = "draining"
         \/ row.status = "destroyed" /\ k = NoCall,
         faults' = 0 => row.status \in {"draining", "destroyed"},
         k = NoCall => row.status = "destroyed" \/ (faults' # 0 /\ (faults > 0 => ~(faults' <= 1)))
  PROVE  AllInv'
<1>1. s \in Actors /\ s # Reaper /\ call[s].pc # "idle"
  BY ActorFacts
<1>2. /\ SwitchInv /\ TypeOK /\ Alone(s) /\ CallFits(s) /\ versions[u].status # "deploying" /\ NeverArchiveProd
  BY <1>1, AtCall
<1>3. /\ versions[u].status \in {"ready", "draining", "archived"}
      /\ faults = 0 /\ call[s].pc = "dset" => versions[u].status = "draining"
  BY <1>2, DestroyPCFacts DEF CallFits
<1>4. /\ faults' <= 1 => faults <= 1
      /\ faults' = 0 => faults = 0
      /\ cuts' = 0 => cuts = 0
      /\ faults \in Nat
  BY <1>2, BoundsAssumption DEF TypeOK, CallStep
<1>5. call'[s] = k /\ versions'[u] = row
  BY <1>1, <1>2, StepFacts
<1>6. k.pc = "idle" <=> k = NoCall
  BY NoCallFacts
<1>7. k.pc # "idle" => CallFits(s)'
  <2>1. SUFFICES ASSUME k # NoCall PROVE CallFits(s)'
    BY <1>6
  <2>2. row.status \in {"ready", "draining", "archived"} /\ (faults' = 0 => row.status = "draining")
    BY <1>3, <2>1
  <2>3. QED BY <1>1, <1>5, <2>1, <2>2, DestroyPCFacts DEF CallFits
<1>8. row.status # "deploying"
  BY <1>3
<1>9. row.status = "archived" => project.prod # u
  BY <1>2 DEF NeverArchiveProd
<1>10. ASSUME faults' <= 1, cuts' = 0, project.prod = u, row.status = "ready", row.route # "active"
       PROVE  Excuses(k, u)
  <2>1. versions[u].status = "ready"
    BY <1>10
  <2>2. k # NoCall
    <3>1. SUFFICES ASSUME k = NoCall PROVE FALSE
      OBVIOUS
    <3>2. faults' # 0 /\ ~(faults > 0)
      BY <1>10, <3>1
    <3>3. faults = 0
      BY <1>4, <3>2
    <3>4. QED BY <1>3, <2>1, <3>1, <3>3
  <2>3. CASE k.pc = "droute"
    <3>1. versions[u].route # "active"
      BY <1>10, <2>3
    <3>2. PICK t \in Slots : Excuses(call[t], u)
      BY <1>4, <1>10, <2>1, <3>1 DEF AllInv, ServesInv
    <3>3. t = s
      BY <1>2, <3>2, NoCallFacts, ActorFacts DEF Alone, Excuses
    <3>4. call[s].pc \in {"ddata", "dset"}
      BY <3>2, <3>3 DEF Excuses
    <3>5. QED BY <2>3, <3>4
  <2>4. CASE k.pc # "droute"
    BY <2>2, <2>4 DEF Excuses
  <2>5. QED BY <2>3, <2>4
<1>11. \A v \in Versions \ {u} : ~Excuses(call[s], v)
  BY DEF Excuses
<1>12. faults' = 0 => row.status \notin {"ready", "archived"}
  OBVIOUS
<1>13. row.status \in {"ready", "archived"} => Live(u)
  BY DEF Live
<1>14. call[s].pc \notin {"activate", "wready"} /\ k.pc \notin ArchivePCs
  BY DestroyPCFacts, NoCallFacts DEF ArchivePCs
<1>15. QED BY <1>1, <1>2, <1>7, <1>8, <1>9, <1>10, <1>11, <1>12, <1>13, <1>14, PlainStep

LEMMA DestroysKeep ==
  ASSUME AllInv, NEW s \in Slots, DestroyDrain(s) \/ DestroyRoute(s) \/ DestroyData(s) \/ DestroySet(s)
  PROVE  AllInv'
<1>1. call[s].pc \in {"ddrain", "droute", "ddata", "dset"} /\ call[s].pc # "idle" /\ s \in Actors
  BY ActorFacts DEF DestroyDrain, DestroyRoute, DestroyData, DestroySet
<1> DEFINE u == call[s].v
<1>2. /\ TypeOK /\ Alone(s) /\ CallFits(s) /\ u \in Versions /\ versions[u].route # "none"
      /\ versions[u] \in VersionRow /\ versions \in [Versions -> VersionRow]
  BY <1>1, AtCall DEF TypeOK
<1>3. call[s].pc # "ddrain" /\ faults = 0 => versions[u].status = "draining"
  BY <1>1, <1>2, DestroyPCFacts DEF CallFits
<1>4. /\ NoFault \/ Fault
      /\ UNCHANGED <<project, main, dep, cron, pass>>
  BY DEF DestroyDrain, DestroyRoute, DestroyData, DestroySet, Dropping
<1>5. /\ faults' \in 0..MaxFaults /\ cuts' \in 0..MaxCuts /\ faults' >= faults /\ cuts' >= cuts
      /\ Fault => faults' # 0 /\ (faults > 0 => ~(faults' <= 1))
      /\ faults' = 0 => faults = 0
  BY <1>2, <1>4, NoFaultFacts
<1>6. main' \in Versions \cup {NoVersion}
  BY <1>2, <1>4 DEF TypeOK
<1>7. CASE DestroyDrain(s)
  <2>1. PICK row \in VersionRow :
              /\ versions' = [versions EXCEPT ![u] = row]
              /\ row.route = versions[u].route /\ row.up = versions[u].up /\ row.data = versions[u].data
              /\ row.armed = versions[u].armed
              /\ (row.status = "draining" /\ NoFault) \/ (row.status = versions[u].status /\ Fault)
    BY <1>2, <1>7, StatusWrite DEF DestroyDrain
  <2>2. PICK k \in Call : /\ call' = [call EXCEPT ![s] = k]
                          /\ k.pc = "droute" /\ k.v = u /\ k.old = call[s].old /\ k.was = call[s].was
    BY <1>1, <1>2, <1>7, GoesOn, DestroyPCFacts DEF DestroyDrain
  <2>3. CallStep(s, k, u, row)
    BY <1>4, <1>5, <1>6, <2>1, <2>2 DEF CallStep
  <2>4. faults' = 0 => row.status = "draining"
    BY <1>5, <2>1
  <2>5. row.status = versions[u].status \/ row.status = "draining"
    BY <2>1
  <2>6. k # NoCall
    BY <2>2, NoCallFacts
  <2>7. call[s].pc = "ddrain"
    BY <1>7 DEF DestroyDrain
  <2>8. QED BY <1>1, <1>2, <1>4, <2>1, <2>2, <2>3, <2>4, <2>5, <2>6, <2>7, DestroyStep
<1>8. CASE DestroyRoute(s)
  <2>1. PICK row \in VersionRow :
           /\ versions' = [versions EXCEPT ![u] = row]
           /\ row.status = versions[u].status /\ row.data = versions[u].data /\ row.armed = versions[u].armed
           /\ row.route # "none" /\ (u \notin Elastic => row.up = "down")
           /\ (row.route = "inactive" /\ NoFault) \/ Fault
    BY <1>2, <1>8, StopWrite DEF DestroyRoute
  <2>2. PICK k \in Call : /\ call' = [call EXCEPT ![s] = k]
                          /\ k.pc = "ddata" /\ k.v = u /\ k.old = call[s].old /\ k.was = call[s].was
    BY <1>1, <1>2, <1>8, GoesOn, DestroyPCFacts DEF DestroyRoute
  <2>3. CallStep(s, k, u, row)
    BY <1>4, <1>5, <1>6, <2>1, <2>2 DEF CallStep
  <2>4. call[s].pc = "droute"
    BY <1>8 DEF DestroyRoute
  <2>5. faults' = 0 => row.status = "draining"
    BY <1>3, <1>5, <2>1, <2>4
  <2>6. k # NoCall
    BY <2>2, NoCallFacts
  <2>7. QED BY <1>1, <1>2, <1>4, <2>1, <2>2, <2>3, <2>5, <2>6, DestroyStep
<1>9. CASE DestroyData(s)
  <2>1. PICK row \in VersionRow :
              /\ versions' = [versions EXCEPT ![u] = row]
              /\ row.route = versions[u].route /\ row.status = versions[u].status
              /\ row.armed = versions[u].armed
    <3>1. CASE SetVersion(u, [versions[u] EXCEPT !.data = FALSE])
      <4>1. PICK row : row = [versions[u] EXCEPT !.data = FALSE]
        OBVIOUS
      <4>2. row \in VersionRow
        BY <1>2, <4>1 DEF VersionRow
      <4>3. row.route = versions[u].route /\ row.status = versions[u].status
        BY <1>2, <4>1 DEF VersionRow
      <4>4. row.armed = versions[u].armed
        BY <1>2, <4>1 DEF VersionRow
      <4>5. QED BY <3>1, <4>1, <4>2, <4>3, <4>4 DEF SetVersion
    <3>2. CASE versions' = versions
      <4>1. versions' = [versions EXCEPT ![u] = versions[u]]
        BY <1>2, <3>2
      <4>2. QED BY <1>2, <4>1
    <3>3. QED BY <1>9, <3>1, <3>2 DEF DestroyData, Dropping
  <2>2. PICK k \in Call : /\ call' = [call EXCEPT ![s] = k]
                          /\ k.pc = "dset" /\ k.v = u /\ k.old = call[s].old /\ k.was = call[s].was
    BY <1>1, <1>2, <1>9, GoesOn, DestroyPCFacts DEF DestroyData
  <2>3. CallStep(s, k, u, row)
    BY <1>4, <1>5, <1>6, <2>1, <2>2 DEF CallStep
  <2>4. call[s].pc = "ddata"
    BY <1>9 DEF DestroyData
  <2>5. faults' = 0 => row.status = "draining"
    BY <1>3, <1>5, <2>1, <2>4
  <2>6. k # NoCall /\ row.route # "none"
    BY <1>2, <2>1, <2>2, NoCallFacts
  <2>7. QED BY <1>1, <1>2, <1>4, <2>1, <2>2, <2>3, <2>5, <2>6, DestroyStep
<1>10. CASE DestroySet(s)
  <2>1. PICK row \in VersionRow :
              /\ versions' = [versions EXCEPT ![u] = row]
              /\ row.route = versions[u].route /\ row.up = versions[u].up /\ row.data = versions[u].data
              /\ row.armed = versions[u].armed
              /\ (row.status = "destroyed" /\ NoFault) \/ (row.status = versions[u].status /\ Fault)
    BY <1>2, <1>10, StatusWrite DEF DestroySet
  <2>2. call' = [call EXCEPT ![s] = NoCall]
    BY <1>10 DEF DestroySet, Done, SetCall
  <2>3. CallStep(s, NoCall, u, row)
    BY <1>4, <1>5, <1>6, <2>1, <2>2 DEF CallStep
  <2>4. row.status = "destroyed" \/ (faults' # 0 /\ (faults > 0 => ~(faults' <= 1)))
    BY <1>5, <2>1
  <2>5. row.status = versions[u].status \/ row.status = "destroyed"
    BY <2>1
  <2>6. faults' = 0 => row.status = "destroyed"
    BY <2>4
  <2>7. call[s].pc = "dset"
    BY <1>10 DEF DestroySet
  <2>8. QED BY <1>1, <1>2, <1>4, <2>1, <2>3, <2>4, <2>5, <2>6, <2>7, NoCallFacts, DestroyStep
<1>11. QED BY <1>7, <1>8, <1>9, <1>10

LEMMA WakesKeep == ASSUME AllInv, NEW s \in Slots, WakeRoute(s) \/ WakeReady(s) PROVE AllInv'
<1>1. call[s].pc \in {"wroute", "wready"} /\ call[s].pc # "idle" /\ s \in Actors /\ s # Reaper
  BY ActorFacts DEF WakeRoute, WakeReady
<1>2. PICK u \in Versions : u = call[s].v
  BY <1>1, AtCall
<1>3. /\ TypeOK /\ Alone(s) /\ CallFits(s) /\ versions[u].route # "none" /\ NeverArchiveProd
      /\ versions[u] \in VersionRow /\ versions \in [Versions -> VersionRow] /\ versions[u].status # "deploying"
  BY <1>1, <1>2, AtCall DEF TypeOK
<1>4. /\ "wroute" \in WakePCs /\ "wready" \in WakePCs /\ "wready" \in PCs
      /\ "wready" \notin PromotePCs \cup UndoPCs \cup ArchivePCs \cup DestroyPCs
      /\ NoCall.pc \notin ArchivePCs
  BY NoCallFacts DEF PCs, PromotePCs, UndoPCs, ArchivePCs, WakePCs, DestroyPCs
<1>5. /\ versions[u].status = "archived" /\ project.prod # u
      /\ call[s].pc = "wready" /\ u \notin Elastic => versions[u].up = "recorded"
  BY <1>1, <1>2, <1>3, <1>4 DEF CallFits, NeverArchiveProd
<1>6. UNCHANGED <<project, main, dep, cron, pass>> /\ (NoFault \/ Fault)
  BY DEF WakeRoute, WakeReady
<1>7. /\ faults' \in 0..MaxFaults /\ cuts' \in 0..MaxCuts /\ faults' >= faults /\ cuts' >= cuts
      /\ Fault => faults' # 0
      /\ faults' = 0 => faults = 0
  BY <1>3, <1>6, NoFaultFacts
<1>8. main' \in Versions \cup {NoVersion}
  BY <1>3, <1>6 DEF TypeOK
<1>9. \A v \in Versions : ~Excuses(call[s], v)
  BY <1>1 DEF Excuses
<1>10. faults' = 0 => versions[u].data
  BY <1>5, <1>7 DEF AllInv, DataInv, ServedHasData
<1>11. Live(u)
  BY <1>5 DEF Live
<1>12. CASE Done(s) /\ versions' = versions /\ Fault
  <2>1. call' = [call EXCEPT ![s] = NoCall]
    BY <1>12 DEF Done, SetCall
  <2>2. faults' # 0
    BY <1>7, <1>12
  <2>3. QED
    BY <1>1, <1>3, <1>4, <1>6, <1>7, <1>8, <1>9, <1>12, <2>1, <2>2, NoCallFacts, NoWrite
<1>13. CASE WakeRoute(s) /\ ~(Done(s) /\ versions' = versions /\ Fault)
  <2>1. SetVersion(u, [versions[u] EXCEPT !.route = "active", !.up = "recorded"]) /\ Go(s, "wready")
    BY <1>2, <1>13 DEF WakeRoute
  <2>2. PICK row : row = [versions[u] EXCEPT !.route = "active", !.up = "recorded"]
    OBVIOUS
  <2>3. row \in VersionRow
    BY <1>3, <2>2 DEF VersionRow
  <2>4. row.route = "active" /\ row.up = "recorded" /\ row.status = "archived"
    BY <1>3, <1>5, <2>2 DEF VersionRow
  <2>5. row.armed = versions[u].armed /\ row.data = versions[u].data
    BY <1>3, <2>2 DEF VersionRow
  <2>6. PICK k \in Call : /\ call' = [call EXCEPT ![s] = k]
                          /\ k.pc = "wready" /\ k.v = u /\ k.old = call[s].old /\ k.was = call[s].was
    BY <1>1, <1>2, <1>3, <1>4, <2>1, GoesOn
  <2>7. CallStep(s, k, u, row)
    BY <1>6, <1>7, <1>8, <2>1, <2>2, <2>6 DEF CallStep, SetVersion
  <2>8. call'[s] = k /\ versions'[u] = row
    BY <1>1, <1>3, <2>3, <2>7, StepFacts
  <2>9. CallFits(s)'
    BY <1>1, <1>4, <2>4, <2>6, <2>8 DEF CallFits
  <2>10. faults' = 0 => row.data
    BY <1>10, <2>5
  <2>11. k.pc \notin ArchivePCs /\ call[s].v = u
    BY <1>2, <1>4, <2>6
  <2>12. QED
    BY <1>1, <1>3, <1>5, <1>6, <1>9, <1>11, <2>3, <2>4, <2>5, <2>6, <2>7, <2>9, <2>10, <2>11, PlainStep
<1>14. CASE WakeReady(s) /\ ~(Done(s) /\ versions' = versions /\ Fault)
  <2>1. PICK up \in {"down", "recorded", "elsewhere"} :
          /\ SetVersion(u, [versions[u] EXCEPT !.status = "ready", !.up = up])
          /\ u \notin Elastic => up = versions[u].up
    <3>1. PICK up \in IF u \in Elastic THEN {"recorded", "elsewhere"} ELSE {versions[u].up} :
            SetVersion(u, [versions[u] EXCEPT !.status = "ready", !.up = up])
      BY <1>2, <1>14 DEF WakeReady
    <3>2. versions[u].up \in {"down", "recorded", "elsewhere"}
      BY <1>3 DEF VersionRow
    <3>3. up \in {"down", "recorded", "elsewhere"} /\ (u \notin Elastic => up = versions[u].up)
      BY <3>1, <3>2
    <3>4. QED BY <3>1, <3>3
  <2>2. PICK row : row = [versions[u] EXCEPT !.status = "ready", !.up = up]
    OBVIOUS
  <2>3. row \in VersionRow
    BY <1>3, <2>2 DEF VersionRow
  <2>4. row.route = versions[u].route /\ row.up = up /\ row.status = "ready"
    BY <1>3, <2>2 DEF VersionRow
  <2>5. row.armed = versions[u].armed /\ row.data = versions[u].data
    BY <1>3, <2>2 DEF VersionRow
  <2>6. call' = [call EXCEPT ![s] = NoCall] /\ call[s].pc = "wready"
    BY <1>14 DEF WakeReady, Done, SetCall
  <2>7. CallStep(s, NoCall, u, row)
    BY <1>6, <1>7, <1>8, <2>1, <2>2, <2>6 DEF CallStep, SetVersion
  <2>8. faults' = 0 => row.data
    BY <1>10, <2>5
  <2>9. Elastic = {} => row.up = "recorded"
    BY <1>5, <2>1, <2>4, <2>6
  <2>10. call[s].v = u
    BY <1>2
  <2>11. QED
    BY <1>1, <1>3, <1>4, <1>5, <1>6, <1>9, <1>11, <2>3, <2>4, <2>5, <2>6, <2>7, <2>8, <2>9, <2>10,
       NoCallFacts, PlainStep
<1>15. QED BY <1>12, <1>13, <1>14

LEMMA WakingKeeps == ASSUME AllInv, NEW s \in Slots, Waking(s) PROVE AllInv'
<1>1. CASE \E v \in Versions : WakeRead(s, v)
  BY <1>1, BeginsKeep
<1>2. CASE WakeRoute(s) \/ WakeReady(s)
  BY <1>2, WakesKeep
<1>3. QED BY <1>1, <1>2 DEF Waking

LEMMA DestroyingKeeps == ASSUME AllInv, NEW s \in Slots, Destroying(s) PROVE AllInv'
<1>1. CASE \E v \in Versions : DestroyRead(s, v)
  BY <1>1, BeginsKeep
<1>2. CASE DestroyCheck(s)
  BY <1>2, ChecksKeep, ActorFacts
<1>3. CASE DestroyDrain(s) \/ DestroyRoute(s) \/ DestroyData(s) \/ DestroySet(s)
  BY <1>3, DestroysKeep
<1>4. QED BY <1>1, <1>2, <1>3 DEF Destroying

-----------------------------------------------------------------------------
(* The reaper, and what is recorded beside the calls.                       *)

\* A step of the reaper's pass that makes no call.
LEMMA PassStep ==
  ASSUME AllInv, UNCHANGED <<project, versions, main, dep, call, cron>>, NoFault, Alone(Reaper),
         pass' \in Pass, PassFits'
  PROVE  AllInv'
<1>1. SwitchInv /\ TypeOK /\ Solo
  BY DEF AllInv, SwitchInv
<1>2. Solo'
  <2>1. Reaper \in Actors /\ Alone(Reaper)' /\ (call'[Reaper].pc = "idle" => call'[Reaper] = NoCall)
    BY <1>1, ActorFacts DEF Solo, Alone
  <2>2. QED BY <2>1, SoloAlone
<1>3. faults' = faults /\ cuts' = cuts
  BY DEF NoFault
<1>4. TypeOK' /\ NeverArchiveProd'
  BY <1>1, <1>3 DEF TypeOK, SwitchInv, NeverArchiveProd
<1>5. \A a \in Actors : call'[a].pc # "idle" => CallFits(a)'
  BY <1>1, <1>3 DEF SwitchInv, CallFits, PromoteFits, ArchiveFits
<1>6. \A s \in Slots : cron'[s].pc # "idle" => CronFits(cron[s])'
  BY <1>1 DEF SwitchInv, CronFits
<1>7. \A v \in Versions : DeployFits(v)'
  BY <1>1 DEF SwitchInv, DeployFits
<1>8. SwitchInv'
  BY <1>1, <1>2, <1>4, <1>5, <1>6, <1>7 DEF SwitchInv, OneCall
<1>9. ServesInv' /\ DataInv' /\ OffInv'
  BY <1>3 DEF AllInv, ServesInv, DataInv, OffInv, ServedHasData, Excuses
<1>10. ArmInv'
  <2>1. \A v \in Versions : (Live(v)' <=> Live(v)) /\ (ToDisarm(v)' <=> ToDisarm(v))
    BY DEF Live, ToDisarm
  <2>2. QED BY <1>3, <2>1 DEF AllInv, ArmInv
<1>11. QED BY <1>8, <1>9, <1>10 DEF AllInv

LEMMA ReaperTriesKeeps == ASSUME AllInv, NEW v \in Versions, ReaperTries(v) PROVE AllInv'
<1>1. SwitchInv /\ TypeOK /\ Solo /\ Reaper \in Actors
  BY ActorFacts DEF AllInv, SwitchInv
<1>2. Alone(Reaper) /\ call[Reaper] = NoCall
  BY <1>1, AlonePass DEF ReaperTries, Solo
<1>3. /\ UNCHANGED <<project, versions, main, dep, cron>> /\ NoFault
      /\ pass' = [pass EXCEPT !.rows = @ \ {v}] /\ pass.pc = "on"
  BY DEF ReaperTries
<1>4. pass' \in Pass /\ pass'.pc = pass.pc /\ pass'.project = pass.project
  <2>1. pass \in Pass
    BY <1>1 DEF TypeOK
  <2>2. QED BY <1>3, <2>1 DEF Pass
<1>5. PassFits'
  BY <1>1, <1>3, <1>4 DEF SwitchInv, PassFits
<1>6. CASE UNCHANGED call
  BY <1>2, <1>3, <1>4, <1>5, <1>6, PassStep
<1>7. CASE MayArchive(v) /\ Archivable(v) /\ SetCall(Reaper, [NoCall EXCEPT !.v = v, !.pc = "acheck"])
  <2>1. PICK k : k = [NoCall EXCEPT !.v = v, !.pc = "acheck"]
    OBVIOUS
  <2>2. k \in Call /\ k.pc = "acheck" /\ k.v = v
    BY <2>1 DEF NoCall, Call, Prods, ArchivePCs
  <2>3. call' = [call EXCEPT ![Reaper] = k]
    BY <1>7, <2>1 DEF SetCall
  <2>4. call'[Reaper] = k
    BY <1>1, <2>3 DEF TypeOK
  <2>5. "acheck" \in ArchivePCs /\ "acheck" \notin PromotePCs \cup UndoPCs \cup WakePCs \cup DestroyPCs
    BY DEF PromotePCs, UndoPCs, ArchivePCs, WakePCs, DestroyPCs
  <2>6. versions[v].status = "ready"
    BY <1>7 DEF Archivable
  <2>7. /\ faults' = faults /\ faults' \in 0..MaxFaults /\ cuts' \in 0..MaxCuts /\ faults' >= faults /\ cuts' >= cuts
    BY <1>1, <1>3, NoFaultFacts
  <2>8. faults' = 0 => versions[v].data
    BY <2>6, <2>7 DEF AllInv, DataInv, ServedHasData
  <2>9. ~(project.previous = v /\ project.kept)
    BY <1>1, <1>3, <1>7 DEF SwitchInv, PassFits, MayArchive
  <2>10. ArchiveFits(Reaper, k)'
    BY <1>3, <2>2, <2>6, <2>8, <2>9 DEF ArchiveFits
  <2>11. CallFits(Reaper)'
    BY <2>2, <2>4, <2>5, <2>10 DEF CallFits
  <2>12. /\ \A w \in Versions : ~Excuses(call[Reaper], w)
         /\ call[Reaper].pc \notin {"activate", "wready"}
    BY <1>2, NoCallFacts, ActorFacts DEF Excuses
  <2>13. k.v \in Versions /\ Live(k.v) /\ main' \in Versions \cup {NoVersion}
    BY <1>1, <1>3, <2>2, <2>6 DEF Live, TypeOK
  <2>14. k.pc # "idle" /\ versions[v].status # "deploying"
    BY <2>2, <2>6
  <2>15. QED
    BY <1>1, <1>2, <1>3, <1>4, <1>5, <2>2, <2>3, <2>7, <2>11, <2>12, <2>13, <2>14, NoWrite
<1>8. QED BY <1>6, <1>7 DEF ReaperTries

LEMMA ReaperKeeps == ASSUME AllInv, ReaperLists \/ ReaperReadsProject \/ ReaperEnds PROVE AllInv'
<1>1. SwitchInv /\ TypeOK /\ Solo /\ OneCall /\ Reaper \in Actors /\ pass \in Pass /\ project \in Project
  BY ActorFacts DEF AllInv, SwitchInv, TypeOK
<1>2. NewProject \in Project /\ NoPass \in Pass
  BY DEF NewProject, NoPass, Project, Pass, Prods
<1>3. CASE ReaperLists
  <2>1. PICK rows \in SUBSET Versions : pass' = [NoPass EXCEPT !.pc = "listed", !.rows = rows]
    BY <1>3 DEF ReaperLists
  <2>2. pass' \in Pass /\ pass'.pc = "listed"
    BY <1>2, <2>1 DEF NoPass, Pass
  <2>3. Alone(Reaper)
    BY <1>1, <1>3, RoomIsQuiet DEF ReaperLists
  <2>4. QED BY <1>3, <2>2, <2>3, PassStep DEF ReaperLists, PassFits
<1>4. CASE ReaperReadsProject
  <2>1. pass' \in Pass /\ pass'.pc = "on" /\ pass'.project = project
    BY <1>1, <1>4 DEF ReaperReadsProject, Pass
  <2>2. Alone(Reaper)
    BY <1>1, <1>4, AlonePass DEF ReaperReadsProject
  <2>3. PassFits'
    BY <1>4, <2>1 DEF ReaperReadsProject, PassFits
  <2>4. QED BY <1>4, <2>1, <2>2, <2>3, PassStep DEF ReaperReadsProject
<1>5. CASE ReaperEnds
  <2>1. Alone(Reaper)
    BY <1>1, <1>5, AlonePass DEF ReaperEnds
  <2>2. PassFits' /\ pass' \in Pass
    BY <1>2, <1>5 DEF ReaperEnds, PassFits, NoPass
  <2>3. QED BY <1>5, <2>1, <2>2, PassStep DEF ReaperEnds
<1>6. QED BY <1>3, <1>4, <1>5

LEMMA KeepExpiresKeeps == ASSUME AllInv, KeepExpires PROVE AllInv'
<1>1. SwitchInv /\ TypeOK /\ Solo
  BY DEF AllInv, SwitchInv
<1>2. /\ UNCHANGED <<versions, main, dep, call, cron, pass>> /\ faults' = faults /\ cuts' = cuts
      /\ project' = [project EXCEPT !.kept = FALSE]
  BY DEF KeepExpires, NoFault
<1>3. PICK off \in BOOLEAN : off = FALSE
  OBVIOUS
<1>4. project \in Project
  BY <1>1 DEF TypeOK
<1>5. project' = [project EXCEPT !.kept = off]
  BY <1>2, <1>3
<1>6. project' \in Project
  BY <1>4, <1>5 DEF Project
<1>7. project'.prod = project.prod /\ project'.previous = project.previous
  BY <1>4, <1>5 DEF Project
<1>8. ~project'.kept
  BY <1>3, <1>4, <1>5 DEF Project
<1>9. TypeOK' /\ Solo' /\ NeverArchiveProd' /\ PassFits'
  BY <1>1, <1>2, <1>6, <1>7, <1>8 DEF TypeOK, Solo, Underway, SwitchInv, NeverArchiveProd, PassFits
<1>10. ASSUME NEW a \in Actors, call[a].pc # "idle" PROVE CallFits(a)'
  <2>1. CallFits(a)
    BY <1>1, <1>10 DEF SwitchInv
  <2>2. PromoteFits(call[a]) => PromoteFits(call[a])'
    BY <1>2, <1>7 DEF PromoteFits
  <2>3. ArchiveFits(a, call[a]) => ArchiveFits(a, call[a])'
    BY <1>2, <1>7, <1>8 DEF ArchiveFits
  <2>4. QED BY <1>2, <2>1, <2>2, <2>3 DEF CallFits
<1>11. \A s \in Slots : cron'[s].pc # "idle" => CronFits(cron[s])'
  BY <1>1, <1>2, <1>7 DEF SwitchInv, CronFits
<1>12. \A v \in Versions : DeployFits(v)'
  BY <1>1, <1>2, <1>7 DEF SwitchInv, DeployFits
<1>13. SwitchInv'
  BY <1>1, <1>2, <1>9, <1>10, <1>11, <1>12 DEF SwitchInv, OneCall
<1>14. ServesInv' /\ DataInv' /\ OffInv'
  BY <1>2, <1>7 DEF AllInv, ServesInv, DataInv, OffInv, ServedHasData, Excuses
<1>15. ArmInv'
  <2>1. \A v \in Versions : (Live(v)' <=> Live(v)) /\ (ToDisarm(v)' <=> ToDisarm(v))
    BY <1>2 DEF Live, ToDisarm
  <2>2. QED BY <1>2, <1>7, <2>1 DEF AllInv, ArmInv
<1>16. QED BY <1>13, <1>14, <1>15 DEF AllInv

\* A write to a row that no call looks at: the pin, or where a replica runs.
LEMMA RowAside ==
  ASSUME AllInv, NEW u \in Versions, NEW row \in VersionRow, versions' = [versions EXCEPT ![u] = row],
         UNCHANGED <<project, main, dep, call, cron, pass>>, NoFault,
         row.status = versions[u].status, row.route = versions[u].route, row.data = versions[u].data,
         row.armed = versions[u].armed, u \in Elastic \/ row.up = versions[u].up
  PROVE  AllInv'
<1>1. SwitchInv /\ TypeOK /\ Solo
  BY DEF AllInv, SwitchInv
<1>2. faults' = faults /\ cuts' = cuts
  BY DEF NoFault
<1>3. versions' \in [Versions -> VersionRow]
  BY <1>1 DEF TypeOK
<1>4. \A v \in Versions : /\ versions'[v].status = versions[v].status /\ versions'[v].route = versions[v].route
                          /\ v \in Elastic \/ versions'[v].up = versions[v].up
  BY <1>1 DEF TypeOK
<1>5. \A v \in Versions : /\ versions'[v].data = versions[v].data /\ versions'[v].armed = versions[v].armed
  BY <1>1 DEF TypeOK
<1>6. TypeOK' /\ Solo' /\ NeverArchiveProd' /\ PassFits'
  BY <1>1, <1>2, <1>3, <1>4 DEF TypeOK, Solo, Underway, SwitchInv, NeverArchiveProd, PassFits
<1>7. ASSUME NEW a \in Actors, call[a].pc # "idle" PROVE CallFits(a)'
  <2>1. CallFits(a) /\ call[a] \in Call /\ call[a].v \in Versions
    BY <1>1, <1>7 DEF SwitchInv, TypeOK, CallFits
  <2>2. ASSUME PromoteFits(call[a]) PROVE PromoteFits(call[a])'
    <3>1. call[a].old # NoVersion => call[a].old \in Versions
      BY <2>1 DEF Call
    <3>2. QED BY <1>2, <1>4, <2>1, <2>2, <3>1 DEF PromoteFits
  <2>3. ArchiveFits(a, call[a]) => ArchiveFits(a, call[a])'
    BY <1>2, <1>4, <1>5, <2>1 DEF ArchiveFits
  <2>4. QED BY <1>2, <1>4, <2>1, <2>2, <2>3 DEF CallFits
<1>8. \A s \in Slots : cron'[s].pc # "idle" => CronFits(cron[s])'
  BY <1>1, <1>4 DEF SwitchInv, CronFits
<1>9. \A v \in Versions : DeployFits(v)'
  BY <1>1, <1>4, <1>5 DEF SwitchInv, DeployFits
<1>10. SwitchInv'
  BY <1>1, <1>6, <1>7, <1>8, <1>9 DEF SwitchInv, OneCall
<1>11. ServesInv'
  BY <1>2, <1>4 DEF AllInv, ServesInv, Excuses
<1>12. DataInv'
  BY <1>2, <1>4, <1>5 DEF AllInv, DataInv, ServedHasData
<1>13. OffInv'
  BY <1>2, <1>4 DEF AllInv, OffInv
<1>14. ArmInv'
  <2>1. \A v \in Versions : (Live(v)' <=> Live(v)) /\ (ToDisarm(v)' <=> ToDisarm(v))
    BY <1>4 DEF Live, ToDisarm
  <2>2. SUFFICES ASSUME faults' = 0, cuts' = 0, Elastic = {} PROVE ArmInv'
    BY DEF ArmInv
  <2>3. \A v \in Versions : versions'[v].up = versions[v].up
    BY <1>4, <2>2
  <2>4. QED BY <1>2, <1>4, <1>5, <2>1, <2>2, <2>3 DEF AllInv, ArmInv
<1>15. QED BY <1>10, <1>11, <1>12, <1>13, <1>14 DEF AllInv

LEMMA AsidesKeep == ASSUME AllInv, NEW v \in Versions, Pin(v) \/ Unpin(v) \/ ReplicaMoves(v) PROVE AllInv'
<1>1. versions[v] \in VersionRow
  BY DEF AllInv, SwitchInv, TypeOK
<1>2. CASE Pin(v) \/ Unpin(v)
  <2>1. PICK on \in BOOLEAN : versions' = [versions EXCEPT ![v] = [versions[v] EXCEPT !.pinned = on]]
    BY <1>2 DEF Pin, Unpin, SetVersion
  <2>2. PICK row : row = [versions[v] EXCEPT !.pinned = on]
    OBVIOUS
  <2>3. row \in VersionRow
    BY <1>1, <2>2 DEF VersionRow
  <2>4. row.status = versions[v].status /\ row.route = versions[v].route /\ row.up = versions[v].up
    BY <1>1, <2>2 DEF VersionRow
  <2>5. row.data = versions[v].data /\ row.armed = versions[v].armed
    BY <1>1, <2>2 DEF VersionRow
  <2>6. QED BY <1>2, <2>1, <2>2, <2>3, <2>4, <2>5, RowAside DEF Pin, Unpin
<1>3. CASE ReplicaMoves(v)
  <2>1. PICK up \in {"down", "elsewhere"} : versions' = [versions EXCEPT ![v] = [versions[v] EXCEPT !.up = up]]
    BY <1>3 DEF ReplicaMoves, SetVersion
  <2>2. PICK row : row = [versions[v] EXCEPT !.up = up]
    OBVIOUS
  <2>3. row \in VersionRow
    BY <1>1, <2>2 DEF VersionRow
  <2>4. row.status = versions[v].status /\ row.route = versions[v].route
    BY <1>1, <2>2 DEF VersionRow
  <2>5. row.data = versions[v].data /\ row.armed = versions[v].armed
    BY <1>1, <2>2 DEF VersionRow
  <2>6. QED BY <1>3, <2>1, <2>2, <2>3, <2>4, <2>5, RowAside DEF ReplicaMoves
<1>4. QED BY <1>2, <1>3

\* What is cut short leaves the rows as they are.
LEMMA CutShortKeeps == ASSUME AllInv, NEW a \in Actors, CutShort(a) PROVE AllInv'
<1>1. SwitchInv /\ TypeOK /\ Solo /\ DataInv
  BY DEF AllInv, SwitchInv
<1>2. /\ UNCHANGED <<project, versions, main, dep>> /\ faults' = faults /\ cuts' \in 0..MaxCuts /\ cuts' # 0
      /\ cuts' >= cuts
  BY <1>1, BoundsAssumption DEF CutShort, TypeOK
<1>3. faults' \in 0..MaxFaults /\ faults' >= faults
  BY <1>1, <1>2, BoundsAssumption DEF TypeOK
<1>4. DataInv' /\ ServesInv' /\ OffInv' /\ ArmInv'
  BY <1>1, <1>2 DEF DataInv, ServedHasData, ServesInv, OffInv, ArmInv
<1>5. CASE call[a].pc # "idle" /\ Done(a) /\ pass' = (IF a = Reaper THEN NoPass ELSE pass) /\ UNCHANGED cron
  <2>1. PICK u \in Versions : u = call[a].v
    BY <1>5, AtCall
  <2>2. /\ Alone(a) /\ versions[u].status # "deploying" /\ versions[u].route # "none" /\ NeverArchiveProd
        /\ versions[u] \in VersionRow
    BY <1>5, <2>1, AtCall
  <2>3. NoPass \in Pass
    BY DEF NoPass, NewProject, Pass, Project, Prods
  <2>4. CallStep(a, NoCall, u, versions[u])
    BY <1>1, <1>2, <1>3, <1>5, <2>3 DEF CallStep, Done, SetCall, TypeOK
  <2>5. PassFits'
    BY <1>1, <1>2, <1>5 DEF SwitchInv, PassFits, NoPass
  <2>6. NeverArchiveProd' /\ project' \in Project
    BY <1>1, <1>2 DEF SwitchInv, NeverArchiveProd, TypeOK
  <2>7. project'.prod \in Versions => versions[project'.prod].status # "deploying"
    BY <1>1, <1>2, <2>2 DEF SwitchInv, DeployFits, Alone
  <2>8. SwitchInv'
    BY <1>1, <2>2, <2>4, <2>5, <2>6, <2>7, NoCallFacts, StepKeepsSwitch
  <2>9. QED BY <1>4, <2>8 DEF AllInv
<1>6. CASE a \in Slots /\ cron[a].pc # "idle" /\ cron' = [cron EXCEPT ![a] = NoCron] /\ UNCHANGED <<call, pass>>
  <2>1. /\ \A b \in Actors : call[b] = NoCall
        /\ \A t \in Slots \ {a} : cron[t].pc = "idle"
        /\ \A v \in Versions : dep[v].pc \in {"new", "done"}
        /\ pass.pc = "off"
    BY <1>1, <1>6, AloneCron
  <2>2. NoCron \in Cron /\ NoCron.pc = "idle"
    BY DEF NoCron, Cron, Prods
  <2>3. cron' \in [Slots -> Cron] /\ \A t \in Slots : cron'[t].pc = "idle"
    BY <1>1, <1>6, <2>1, <2>2 DEF TypeOK
  <2>4. TypeOK'
    BY <1>1, <1>2, <1>3, <1>6, <2>3 DEF TypeOK
  <2>5. Alone(a)' /\ call'[a] = NoCall
    BY <1>2, <1>6, <2>1, <2>3 DEF Alone
  <2>6. Solo'
    BY <2>5, SoloAlone
  <2>7. NeverArchiveProd' /\ PassFits' /\ \A b \in Actors : call'[b].pc = "idle"
    BY <1>1, <1>2, <1>6, <2>1, NoCallFacts DEF SwitchInv, NeverArchiveProd, PassFits
  <2>8. \A v \in Versions : DeployFits(v)'
    BY <1>1, <1>2 DEF SwitchInv, DeployFits
  <2>9. QED BY <1>1, <1>4, <2>3, <2>4, <2>6, <2>7, <2>8 DEF AllInv, SwitchInv, OneCall
<1>7. QED BY <1>5, <1>6 DEF CutShort

LEMMA ArchivingKeeps == ASSUME AllInv, Archiving PROVE AllInv'
<1>1. CASE \E s \in Slots, v \in Versions : ArchiveRead(s, v)
  BY <1>1, BeginsKeep
<1>2. CASE \E a \in Actors : ArchiveCheck(a)
  BY <1>2, ChecksKeep
<1>3. CASE \E a \in Actors : ArchiveDrain(a) \/ ArchiveRoute(a) \/ ArchiveSet(a)
  BY <1>3, ArchivesKeep
<1>4. CASE ReaperLists \/ ReaperReadsProject \/ ReaperEnds
  BY <1>4, ReaperKeeps
<1>5. CASE KeepExpires
  BY <1>5, KeepExpiresKeeps
<1>6. CASE \E v \in Versions : ReaperTries(v)
  BY <1>6, ReaperTriesKeeps
<1>7. QED BY <1>1, <1>2, <1>3, <1>4, <1>5, <1>6 DEF Archiving

-----------------------------------------------------------------------------
(* The reconciliation.                                                      *)

\* A step of a reconciliation: it goes on as c, and may write the triggers of u.
LEMMA CronGoes ==
  ASSUME AllInv, NEW s \in Slots, cron[s].pc # "idle", NEW c \in Cron, cron' = [cron EXCEPT ![s] = c],
         NEW u \in Versions, NEW row \in VersionRow, versions' = [versions EXCEPT ![u] = row],
         row.status = versions[u].status, row.route = versions[u].route, row.up = versions[u].up,
         row.data = versions[u].data, NoFault \/ Fault,
         UNCHANGED <<project, main, dep, call, pass>>,
         c.pc # "idle" => CronFits(c),
         faults' = 0 /\ cuts' = 0 /\ Elastic = {} =>
           /\ \A w \in Versions \ {u} : cron[s].old = w => c.pc # "idle" /\ c.old = w
           /\ row.armed /\ row.status \in {"ready", "archived"} =>
                project.prod \in {u, NoVersion} \/ (c.pc # "idle" /\ c.old = u)
  PROVE  AllInv'
<1>1. SwitchInv /\ TypeOK /\ Solo
  BY DEF AllInv, SwitchInv
<1>2. /\ \A a \in Actors : call[a] = NoCall
      /\ \A t \in Slots \ {s} : cron[t].pc = "idle"
      /\ \A v \in Versions : dep[v].pc \in {"new", "done"}
      /\ pass.pc = "off"
  BY <1>1, AloneCron
<1>3. /\ faults' \in 0..MaxFaults /\ cuts' \in 0..MaxCuts
      /\ faults' <= 1 => faults <= 1
      /\ faults' = 0 => faults = 0
      /\ cuts' = 0 => cuts = 0
  BY <1>1, BoundsAssumption DEF TypeOK, NoFault, Fault
<1>4. /\ cron' \in [Slots -> Cron] /\ cron'[s] = c /\ \A t \in Slots \ {s} : cron'[t].pc = "idle"
  BY <1>1, <1>2 DEF TypeOK
<1>5. /\ versions' \in [Versions -> VersionRow] /\ versions'[u] = row
      /\ \A w \in Versions \ {u} : versions'[w] = versions[w]
  BY <1>1 DEF TypeOK
<1>6. \A v \in Versions : /\ versions'[v].status = versions[v].status /\ versions'[v].route = versions[v].route
                          /\ versions'[v].up = versions[v].up /\ versions'[v].data = versions[v].data
  BY <1>5
<1>7. TypeOK' /\ NeverArchiveProd' /\ PassFits'
  BY <1>1, <1>3, <1>4, <1>5, <1>6 DEF TypeOK, SwitchInv, NeverArchiveProd, PassFits
<1>8. Solo'
  <2>1. s \in Actors /\ s # Reaper
    BY ActorFacts
  <2>2. \A x \in Underway' : x = s
    BY <1>2, <1>4, <2>1, NoCallFacts DEF Underway
  <2>3. QED BY <1>2, <2>2, NoCallFacts, ActorFacts DEF Solo
<1>9. \A a \in Actors : call'[a].pc = "idle"
  BY <1>2, NoCallFacts
<1>10. \A t \in Slots : cron'[t].pc # "idle" => CronFits(cron[t])'
  BY <1>4, <1>6 DEF CronFits
<1>11. \A v \in Versions : DeployFits(v)'
  BY <1>1, <1>6 DEF SwitchInv, DeployFits
<1>12. SwitchInv'
  BY <1>1, <1>7, <1>8, <1>9, <1>10, <1>11 DEF SwitchInv, OneCall
<1>13. ServesInv'
  BY <1>3, <1>6 DEF AllInv, ServesInv, Excuses
<1>14. DataInv'
  BY <1>3, <1>6 DEF AllInv, DataInv, ServedHasData
<1>15. OffInv'
  BY <1>3, <1>6 DEF AllInv, OffInv
<1>16. ArmInv'
  <2>1. SUFFICES ASSUME faults' = 0, cuts' = 0, Elastic = {} PROVE ArmInv'
    BY DEF ArmInv
  <2>2. faults = 0 /\ cuts = 0
    BY <1>3, <2>1
  <2>3. /\ project.prod # Blank
        /\ project.prod = NoVersion => \A v \in Versions : dep[v].pc # "done"
        /\ \A v \in Versions : versions'[v].status = "ready" => versions'[v].up = "recorded"
    BY <1>6, <2>1, <2>2 DEF AllInv, ArmInv
  <2>4. \A v \in Versions : dep[v].pc \notin {"deploy", "serve", "bootstrap"}
    BY <1>2
  <2>5. ASSUME NEW v \in Versions, Live(v)', versions'[v].armed
        PROVE  project.prod \in {v, NoVersion} \/ ToDisarm(v)'
    <3>1. versions'[v].status \in {"ready", "archived"}
      <4>1. "idle" \notin ArchivePCs
        BY DEF ArchivePCs
      <4>2. QED BY <1>9, <2>5, <4>1 DEF Live
    <3>2. CASE v = u
      BY <1>4, <1>5, <2>1, <2>5, <3>1, <3>2 DEF ToDisarm
    <3>3. CASE v # u
      <4>1. Live(v) /\ versions[v].armed
        BY <1>5, <1>6, <2>5, <3>1, <3>3 DEF Live
      <4>2. project.prod \in {v, NoVersion} \/ ToDisarm(v)
        BY <2>1, <2>2, <4>1 DEF AllInv, ArmInv
      <4>3. ASSUME ToDisarm(v) PROVE cron[s].old = v
        BY <1>2, <4>3, NoCallFacts, ActorFacts DEF ToDisarm
      <4>4. QED BY <1>4, <2>1, <3>3, <4>2, <4>3 DEF ToDisarm
    <3>4. QED BY <3>2, <3>3
  <2>6. QED BY <2>3, <2>4, <2>5 DEF ArmInv
<1>17. QED BY <1>12, <1>13, <1>14, <1>15, <1>16 DEF AllInv

\* A reconciliation goes on to the old prod or ends.
LEMMA CronNextFacts ==
  ASSUME TypeOK, NEW s \in Slots, cron[s].pc = "step", CronFits(cron[s]),
         CronNext(s) \/ cron' = [cron EXCEPT ![s] = NoCron]
  PROVE  \E c \in Cron :
           /\ cron' = [cron EXCEPT ![s] = c] /\ (c.pc # "idle" => CronFits(c))
           /\ CronNext(s) /\ cron[s].new # NoVersion /\ cron[s].old # NoVersion =>
                c.pc # "idle" /\ c.old = cron[s].old
<1>1. cron[s] \in Cron /\ cron \in [Slots -> Cron]
  BY DEF TypeOK
<1>2. NoCron \in Cron /\ NoCron.pc = "idle"
  BY DEF NoCron, Cron, Prods
<1>3. CASE CronNext(s) /\ cron[s].new # NoVersion /\ cron[s].old # NoVersion
  <2>1. PICK c : c = [cron[s] EXCEPT !.new = NoVersion]
    OBVIOUS
  <2>2. c \in Cron /\ c.pc = "step" /\ c.old = cron[s].old /\ c.prod = cron[s].prod
    BY <1>1, <2>1 DEF Cron
  <2>3. cron' = [cron EXCEPT ![s] = c]
    BY <1>1, <1>3, <2>1 DEF CronNext
  <2>4. cron[s].old \in Versions
    BY <1>1, <1>3 DEF Cron
  <2>5. CronFits(c)
    BY <2>2, <2>4 DEF CronFits
  <2>6. QED BY <1>3, <2>2, <2>3, <2>5
<1>4. CASE CronNext(s) /\ ~(cron[s].new # NoVersion /\ cron[s].old # NoVersion)
  <2>1. cron' = [cron EXCEPT ![s] = NoCron]
    BY <1>1, <1>4 DEF CronNext
  <2>2. QED BY <1>2, <1>4, <2>1
<1>5. CASE ~CronNext(s)
  BY <1>2, <1>5
<1>6. QED BY <1>3, <1>4, <1>5

LEMMA CronReadsKeeps == ASSUME AllInv, NEW s \in Slots, CronReads(s) PROVE AllInv'
<1>1. TypeOK /\ CronFits(cron[s]) /\ cron[s] \in Cron /\ project.prod \in Prods
  BY DEF AllInv, SwitchInv, TypeOK, CronReads, Project
<1>2. PICK c : c = [cron[s] EXCEPT !.pc = "step", !.prod = project.prod]
  OBVIOUS
<1>3. c \in Cron /\ c.pc = "step" /\ c.new = cron[s].new /\ c.old = cron[s].old /\ c.prod = project.prod
  BY <1>1, <1>2 DEF Cron
<1>4. cron' = [cron EXCEPT ![s] = c]
  <2>1. cron \in [Slots -> Cron]
    BY <1>1 DEF TypeOK
  <2>2. cron' = [cron EXCEPT ![s].pc = "step", ![s].prod = project.prod]
    BY DEF CronReads
  <2>3. /\ cron' = [t \in Slots |-> cron'[t]] /\ \A t \in Slots \ {s} : cron'[t] = cron[t]
    BY <2>1, <2>2
  <2>4. cron'[s] = [pc |-> "step", new |-> cron[s].new, old |-> cron[s].old, prod |-> project.prod]
    BY <1>1, <2>1, <2>2 DEF Cron
  <2>5. c = [pc |-> "step", new |-> cron[s].new, old |-> cron[s].old, prod |-> project.prod]
    BY <1>1, <1>2 DEF Cron
  <2>6. cron'[s] = c
    BY <2>4, <2>5
  <2>7. [cron EXCEPT ![s] = c] = [t \in Slots |-> IF t = s THEN c ELSE cron[t]]
    BY <2>1
  <2>8. [t \in Slots |-> cron'[t]] = [t \in Slots |-> IF t = s THEN c ELSE cron[t]]
    BY <2>3, <2>6
  <2>9. QED BY <2>3, <2>7, <2>8
<1>5. CronFits(c)
  BY <1>1, <1>3 DEF CronFits
<1>6. PICK u \in Versions : u = cron[s].new \/ u = cron[s].old
  BY <1>1 DEF CronFits
<1>7. versions' = [versions EXCEPT ![u] = versions[u]] /\ versions[u] \in VersionRow
  BY <1>1 DEF CronReads, TypeOK
<1>8. ASSUME faults' = 0, cuts' = 0, Elastic = {}, versions[u].armed, versions[u].status \in {"ready", "archived"}
      PROVE  project.prod \in {u, NoVersion} \/ c.old = u
  <2>1. faults = 0 /\ cuts = 0
    BY <1>8 DEF CronReads, NoFault
  <2>2. Live(u)
    BY <1>8 DEF Live
  <2>3. project.prod \in {u, NoVersion} \/ ToDisarm(u)
    BY <1>8, <2>1, <2>2 DEF AllInv, ArmInv
  <2>4. /\ \A a \in Actors : call[a] = NoCall
        /\ \A t \in Slots \ {s} : cron[t].pc = "idle"
    BY AloneCron DEF AllInv, SwitchInv, CronReads
  <2>5. ToDisarm(u) => cron[s].old = u
    BY <2>4, NoCallFacts, ActorFacts DEF ToDisarm
  <2>6. QED BY <1>3, <2>3, <2>5
<1>9. /\ cron[s].pc # "idle" /\ UNCHANGED <<project, main, dep, call, pass>> /\ NoFault
      /\ c.pc # "idle" /\ \A w \in Versions \ {u} : cron[s].old = w => c.old = w
  BY <1>3 DEF CronReads
<1> DEFINE row == versions[u]
<1>10. row \in VersionRow /\ versions' = [versions EXCEPT ![u] = row]
  BY <1>7
<1>11. /\ row.status = versions[u].status /\ row.route = versions[u].route /\ row.up = versions[u].up
       /\ row.data = versions[u].data
  OBVIOUS
<1>12. faults' = 0 /\ cuts' = 0 /\ Elastic = {} /\ row.armed /\ row.status \in {"ready", "archived"} =>
         project.prod \in {u, NoVersion} \/ c.old = u
  BY <1>8
<1> HIDE DEF row
<1>13. QED BY <1>3, <1>4, <1>5, <1>9, <1>10, <1>11, <1>12, CronGoes

LEMMA CronStepKeeps == ASSUME AllInv, NEW s \in Slots, CronStep(s) PROVE AllInv'
<1>1. /\ TypeOK /\ SwitchInv /\ Solo /\ CronFits(cron[s]) /\ cron[s] \in Cron /\ cron[s].pc = "step"
      /\ versions \in [Versions -> VersionRow]
  BY DEF AllInv, SwitchInv, TypeOK, CronStep
<1>2. /\ \A a \in Actors : call[a] = NoCall
      /\ \A t \in Slots \ {s} : cron[t].pc = "idle"
  BY <1>1, AloneCron
<1>3. PICK u : u = IF cron[s].new # NoVersion THEN cron[s].new ELSE cron[s].old
  OBVIOUS
<1>4. u \in Versions /\ versions[u] \in VersionRow
  BY <1>1, <1>3 DEF CronFits, Cron
<1>5. CronNext(s) \/ cron' = [cron EXCEPT ![s] = NoCron]
  BY DEF CronStep
<1>6. PICK c \in Cron :
           /\ cron' = [cron EXCEPT ![s] = c] /\ (c.pc # "idle" => CronFits(c))
           /\ CronNext(s) /\ cron[s].new # NoVersion /\ cron[s].old # NoVersion =>
                c.pc # "idle" /\ c.old = cron[s].old
  BY <1>1, <1>5, CronNextFacts
<1>7. PICK arm \in BOOLEAN : arm = ShouldArm(cron[s].prod, u)
  <2>1. ShouldArm(cron[s].prod, u) \in BOOLEAN
    BY DEF ShouldArm
  <2>2. QED BY <2>1
<1>8. UNCHANGED <<project, main, dep, call, pass>> /\ (NoFault \/ Fault) /\ cron[s].pc # "idle"
  BY <1>1 DEF CronStep
<1>9. /\ faults' = 0 => faults = 0 /\ NoFault
      /\ cuts' = 0 => cuts = 0
  BY <1>1, <1>8, NoFaultFacts
\* Without a fault a version that is ready answers, so that the step ends in CronNext.
<1>10. ASSUME faults' = 0, cuts' = 0, Elastic = {}
       PROVE  /\ CronNext(s)
              /\ versions[u].status = "ready" => versions' = [versions EXCEPT ![u] = [versions[u] EXCEPT !.armed = arm]]
  <2>1. versions[u].status = "ready" => versions[u].up = "recorded"
    BY <1>4, <1>9, <1>10 DEF AllInv, ArmInv
  <2>2. ~Fault
    BY <1>1, <1>10, NoFaultFacts
  <2>3. QED BY <1>3, <1>7, <2>1, <2>2 DEF CronStep, SetVersion
<1>11. PICK row \in VersionRow :
         /\ versions' = [versions EXCEPT ![u] = row]
         /\ row.status = versions[u].status /\ row.route = versions[u].route /\ row.up = versions[u].up
         /\ row.data = versions[u].data
         /\ \/ row = [versions[u] EXCEPT !.armed = arm] /\ row.armed = arm
            \/ row = versions[u] /\ versions' = versions
  <2>1. CASE versions' = [versions EXCEPT ![u] = [versions[u] EXCEPT !.armed = arm]]
    <3>1. PICK row : row = [versions[u] EXCEPT !.armed = arm]
      OBVIOUS
    <3>2. row \in VersionRow
      BY <1>4, <3>1 DEF VersionRow
    <3>3. row.status = versions[u].status /\ row.route = versions[u].route /\ row.up = versions[u].up
      BY <1>4, <3>1 DEF VersionRow
    <3>4. row.data = versions[u].data /\ row.armed = arm
      BY <1>4, <3>1 DEF VersionRow
    <3>5. QED BY <2>1, <3>1, <3>2, <3>3, <3>4
  <2>2. CASE versions' = versions
    <3>1. versions' = [versions EXCEPT ![u] = versions[u]]
      BY <1>1, <1>4, <2>2
    <3>2. QED BY <1>4, <2>2, <3>1
  <2>3. QED BY <1>3, <1>7, <2>1, <2>2 DEF CronStep, SetVersion
<1>12. faults' = 0 /\ cuts' = 0 /\ Elastic = {} =>
         \A w \in Versions \ {u} : cron[s].old = w => c.pc # "idle" /\ c.old = w
  BY <1>3, <1>6, <1>10, ActorFacts
<1>13. ASSUME faults' = 0, cuts' = 0, Elastic = {}, row.armed, row.status \in {"ready", "archived"}
       PROVE  project.prod \in {u, NoVersion} \/ (c.pc # "idle" /\ c.old = u)
  <2>1. faults = 0 /\ cuts = 0 /\ project.prod # Blank
    BY <1>9, <1>13 DEF AllInv, ArmInv
  <2>2. CASE versions[u].status = "ready"
    <3>1. versions'[u] = [versions[u] EXCEPT !.armed = arm] /\ versions'[u] = row
      BY <1>1, <1>4, <1>10, <1>11, <1>13, <2>2
    <3>2. arm
      BY <1>4, <1>13, <3>1 DEF VersionRow
    <3>3. QED BY <1>1, <1>7, <2>1, <3>2 DEF ShouldArm, CronFits
  <2>3. CASE versions[u].status # "ready"
    <3>1. versions[u].status = "archived"
      BY <1>11, <1>13, <2>3
    <3>2. versions' = versions
      BY <1>3, <2>3 DEF CronStep
    <3>3. versions[u].armed /\ Live(u)
      BY <1>1, <1>4, <1>11, <1>13, <3>1, <3>2 DEF Live
    <3>4. project.prod \in {u, NoVersion} \/ ToDisarm(u)
      BY <1>4, <1>13, <2>1, <3>3 DEF AllInv, ArmInv
    <3>5. ToDisarm(u) => cron[s].old = u
      BY <1>2, NoCallFacts, ActorFacts DEF ToDisarm
    <3>6. cron[s].old # u
      BY <1>1, <1>4, <3>1 DEF CronFits
    <3>7. QED BY <3>4, <3>5, <3>6
  <2>4. QED BY <2>2, <2>3
<1>14. QED BY <1>4, <1>6, <1>8, <1>11, <1>12, <1>13, CronGoes

-----------------------------------------------------------------------------
(* The deploys.                                                             *)

\* Nothing but the deploy of v is under way.
OnlyDeploy(v) ==
  /\ \A a \in Actors : call[a] = NoCall
  /\ \A s \in Slots : cron[s].pc = "idle"
  /\ \A w \in Versions \ {v} : dep[w].pc \in {"new", "done"}
  /\ pass.pc = "off"

\* A step of a deploy, alone, keeps the invariant if it keeps these.
LEMMA DeployGoes ==
  ASSUME AllInv, NEW v \in Versions, OnlyDeploy(v), NEW d \in Deploy, NEW row \in VersionRow,
         dep' = [dep EXCEPT ![v] = d], versions' = [versions EXCEPT ![v] = row],
         UNCHANGED <<main, call, cron, pass>>, NoFault \/ Fault, project' \in Project,
         project' = project \/ (project'.prod = v /\ project.prod = NoVersion),
         row.status \in {"deploying", "ready"}, row.status = "ready" => row.route = "active", faults' = 0 => row.data,
         DeployFits(v)', project'.prod = v => row.status = "ready",
         faults' = 0 /\ cuts' = 0 /\ Elastic = {} =>
           /\ row.status = "ready" => row.up = "recorded"
           /\ d.pc \in {"deploy", "serve", "bootstrap"} =>
                (d.arm => project'.prod = NoVersion) /\ (d.boot <=> project'.prod = NoVersion)
           /\ d.pc \in {"serve", "bootstrap"} /\ row.armed => d.arm
           /\ project'.prod = NoVersion => d.pc # "done"
           /\ row.status = "ready" /\ row.armed => project'.prod \in {v, NoVersion}
  PROVE  AllInv'
<1>1. SwitchInv /\ TypeOK /\ Solo
  BY DEF AllInv, SwitchInv
<1>2. /\ dep' \in [Versions -> Deploy] /\ dep'[v] = d /\ \A w \in Versions \ {v} : dep'[w] = dep[w]
  BY <1>1 DEF TypeOK
<1>3. /\ versions' \in [Versions -> VersionRow] /\ versions'[v] = row
      /\ \A w \in Versions \ {v} : versions'[w] = versions[w]
  BY <1>1 DEF TypeOK
<1>4. /\ faults' \in 0..MaxFaults /\ cuts' \in 0..MaxCuts
      /\ faults' <= 1 => faults <= 1
      /\ faults' = 0 => faults = 0
      /\ cuts' = 0 => cuts = 0
  BY <1>1, BoundsAssumption DEF TypeOK, NoFault, Fault
<1>5. TypeOK'
  BY <1>1, <1>2, <1>3, <1>4 DEF TypeOK
<1>6. Solo'
  <2>1. \A x \in Underway' : x = v
    BY <1>2, NoCallFacts DEF Underway, OnlyDeploy
  <2>2. QED BY <2>1, NoCallFacts DEF Solo, OnlyDeploy
<1>7. NeverArchiveProd'
  BY <1>1, <1>3 DEF SwitchInv, NeverArchiveProd
<1>8. PassFits' /\ (\A a \in Actors : call'[a].pc = "idle") /\ \A s \in Slots : cron'[s].pc = "idle"
  BY NoCallFacts DEF OnlyDeploy, PassFits
<1>9. ASSUME NEW w \in Versions PROVE DeployFits(w)'
  <2>1. CASE w # v
    BY <1>1, <1>2, <1>3, <2>1 DEF SwitchInv, DeployFits
  <2>2. QED BY <2>1
<1>10. SwitchInv'
  BY <1>1, <1>5, <1>6, <1>7, <1>8, <1>9 DEF SwitchInv, OneCall
<1>11. ServesInv'
  <2>1. \A w \in Versions, s \in Slots : ~Excuses(call[s], w)
    BY NoCallFacts, ActorFacts DEF OnlyDeploy, Excuses
  <2>2. SUFFICES ASSUME faults' <= 1, cuts' = 0, NEW w \in Versions, project'.prod = w,
                        versions'[w].status = "ready", versions'[w].route # "active"
                 PROVE  FALSE
    BY DEF ServesInv
  <2>3. w # v /\ project'.prod = project.prod
    BY <1>3, <2>2
  <2>4. QED BY <1>3, <1>4, <2>1, <2>2, <2>3 DEF AllInv, ServesInv
<1>12. DataInv'
  <2>1. ASSUME faults' = 0, NEW w \in Versions, versions'[w].status \in {"ready", "archived"}
        PROVE  versions'[w].data
    <3>1. CASE w = v
      BY <1>3, <2>1, <3>1
    <3>2. CASE w # v
      BY <1>3, <1>4, <2>1, <3>2 DEF AllInv, DataInv, ServedHasData
    <3>3. QED BY <3>1, <3>2
  <2>2. QED BY <2>1 DEF DataInv, ServedHasData
<1>13. OffInv'
  BY <1>3, <1>4 DEF AllInv, OffInv
<1>14. ArmInv'
  <2>1. SUFFICES ASSUME faults' = 0, cuts' = 0, Elastic = {} PROVE ArmInv'
    BY DEF ArmInv
  <2>2. ArmInv /\ faults = 0 /\ cuts = 0
    BY <1>4, <2>1 DEF AllInv
  <2>3. project'.prod # Blank
    BY <2>1, <2>2, ActorFacts DEF ArmInv
  <2>4. project'.prod = NoVersion => project' = project
    BY ActorFacts
  <2>5. ASSUME project'.prod = NoVersion, NEW w \in Versions PROVE dep'[w].pc # "done"
    BY <1>2, <2>1, <2>2, <2>4, <2>5 DEF ArmInv
  <2>6. ASSUME NEW w \in Versions
        PROVE  /\ versions'[w].status = "ready" => versions'[w].up = "recorded"
               /\ dep'[w].pc \in {"deploy", "serve", "bootstrap"} =>
                    (dep'[w].arm => project'.prod = NoVersion) /\ (dep'[w].boot <=> project'.prod = NoVersion)
               /\ dep'[w].pc \in {"serve", "bootstrap"} /\ versions'[w].armed => dep'[w].arm
    <3>1. CASE w = v
      BY <1>2, <1>3, <2>1, <3>1
    <3>2. CASE w # v
      <4>1. dep'[w].pc \notin {"deploy", "serve", "bootstrap"}
        BY <1>2, <3>2 DEF OnlyDeploy
      <4>2. versions'[w].status = "ready" => versions'[w].up = "recorded"
        BY <1>3, <2>1, <2>2, <3>2 DEF ArmInv
      <4>3. QED BY <4>1, <4>2
    <3>3. QED BY <3>1, <3>2
  <2>7. ASSUME NEW w \in Versions, Live(w)', versions'[w].armed PROVE project'.prod \in {w, NoVersion}
    <3>1. versions'[w].status \in {"ready", "archived"}
      <4>1. "idle" \notin ArchivePCs
        BY DEF ArchivePCs
      <4>2. QED BY <1>8, <2>7, <4>1 DEF Live
    <3>2. CASE w = v
      BY <1>3, <2>1, <2>7, <3>1, <3>2
    <3>3. CASE w # v
      <4>1. Live(w) /\ versions[w].armed /\ versions[w].status \in {"ready", "archived"}
        BY <1>3, <2>7, <3>1, <3>3 DEF Live
      <4>2. ~ToDisarm(w)
        BY NoCallFacts, ActorFacts DEF OnlyDeploy, ToDisarm
      <4>3. project.prod \in {w, NoVersion}
        BY <2>1, <2>2, <4>1, <4>2 DEF ArmInv
      <4>4. dep[w].pc = "done"
        BY <1>1, <3>3, <4>1 DEF SwitchInv, DeployFits, OnlyDeploy
      <4>5. project.prod = w
        BY <2>1, <2>2, <4>3, <4>4 DEF ArmInv
      <4>6. QED BY <4>5, ActorFacts
    <3>4. QED BY <3>2, <3>3
  <2>8. QED BY <2>3, <2>5, <2>6, <2>7 DEF ArmInv
<1>15. QED BY <1>10, <1>11, <1>12, <1>13, <1>14 DEF AllInv

\* What holds while a deploy is under way or begins.
LEMMA AtDeploy ==
  ASSUME AllInv, NEW v \in Versions, dep[v].pc \notin {"new", "done"} \/ (dep[v].pc = "new" /\ Room)
  PROVE  /\ TypeOK /\ OnlyDeploy(v) /\ DeployFits(v) /\ versions[v] \in VersionRow /\ dep[v] \in Deploy
         /\ project \in Project /\ versions \in [Versions -> VersionRow] /\ dep \in [Versions -> Deploy]
<1>1. SwitchInv /\ TypeOK /\ Solo /\ OneCall
  BY DEF AllInv, SwitchInv
<1>2. OnlyDeploy(v)
  <2>1. CASE dep[v].pc \notin {"new", "done"}
    BY <1>1, <2>1, AloneDeploy DEF OnlyDeploy
  <2>2. CASE Room
    BY <1>1, <2>2, RoomIsQuiet, ActorFacts DEF OnlyDeploy, Alone
  <2>3. QED BY <2>1, <2>2
<1>3. QED BY <1>1, <1>2 DEF SwitchInv, TypeOK

LEMMA DeployReadsProjectKeeps == ASSUME AllInv, NEW v \in Versions, DeployReadsProject(v) PROVE AllInv'
<1>1. /\ TypeOK /\ OnlyDeploy(v) /\ DeployFits(v) /\ versions[v] \in VersionRow /\ dep[v] \in Deploy
      /\ project \in Project /\ versions \in [Versions -> VersionRow] /\ dep \in [Versions -> Deploy]
      /\ dep[v].pc = "new"
  BY AtDeploy DEF DeployReadsProject
<1>2. PICK arm \in BOOLEAN : arm = ShouldArm(project.prod, v)
  <2>1. ShouldArm(project.prod, v) \in BOOLEAN
    BY DEF ShouldArm
  <2>2. QED BY <2>1
<1>3. PICK boot \in BOOLEAN : boot <=> project.prod = NoVersion
  <2>1. (project.prod = NoVersion) \in BOOLEAN
    OBVIOUS
  <2>2. QED BY <2>1
<1>4. PICK d \in Deploy : d = [pc |-> "deploy", arm |-> arm, boot |-> boot]
  BY DEF Deploy
<1>5. d.pc = "deploy" /\ d.arm = arm /\ d.boot = boot
  BY <1>4
<1>6. dep' = [dep EXCEPT ![v] = d] /\ versions' = [versions EXCEPT ![v] = versions[v]]
  BY <1>1, <1>2, <1>3, <1>4 DEF DeployReadsProject
<1>7. dep'[v] = d
  BY <1>1, <1>6
<1>8. UNCHANGED <<project, versions, main, call, cron, pass>> /\ NoFault
  BY DEF DeployReadsProject
<1>9. versions[v].status = "deploying" /\ versions[v].data /\ project.prod # v
  BY <1>1 DEF DeployFits
<1>10. DeployFits(v)'
  BY <1>1, <1>5, <1>7, <1>8 DEF DeployFits
<1>11. faults' = 0 /\ cuts' = 0 /\ Elastic = {} => project.prod # Blank
  BY <1>8 DEF AllInv, ArmInv, NoFault
<1>12. faults' = 0 /\ cuts' = 0 /\ Elastic = {} =>
         (d.arm => project'.prod = NoVersion) /\ (d.boot <=> project'.prod = NoVersion)
  BY <1>2, <1>3, <1>5, <1>8, <1>9, <1>11 DEF ShouldArm
<1>13. d.pc \notin {"serve", "bootstrap", "done"}
  BY <1>5
<1> DEFINE row == versions[v]
<1>14. row \in VersionRow /\ row.status = "deploying" /\ row.data /\ versions' = [versions EXCEPT ![v] = row]
  BY <1>1, <1>6, <1>9
<1> HIDE DEF row
<1>15. QED BY <1>1, <1>6, <1>8, <1>9, <1>10, <1>12, <1>13, <1>14, DeployGoes

LEMMA DeployBundleKeeps == ASSUME AllInv, NEW v \in Versions, DeployBundle(v) PROVE AllInv'
<1>1. /\ TypeOK /\ OnlyDeploy(v) /\ DeployFits(v) /\ versions[v] \in VersionRow /\ dep[v] \in Deploy
      /\ project \in Project /\ versions \in [Versions -> VersionRow] /\ dep \in [Versions -> Deploy]
      /\ dep[v].pc = "deploy"
  BY AtDeploy DEF DeployBundle
<1>2. PICK d : d = [dep[v] EXCEPT !.pc = "serve"]
  OBVIOUS
<1>3. d \in Deploy /\ d.pc = "serve"
  BY <1>1, <1>2 DEF Deploy
<1>4. d.arm = dep[v].arm /\ d.boot = dep[v].boot
  BY <1>1, <1>2 DEF Deploy
<1>5. PICK row : row = [versions[v] EXCEPT !.armed = dep[v].arm]
  OBVIOUS
<1>6. row \in VersionRow
  BY <1>1, <1>5 DEF VersionRow, Deploy
<1>7. row.status = versions[v].status /\ row.route = versions[v].route
  BY <1>1, <1>5 DEF VersionRow
<1>8. row.data = versions[v].data /\ row.armed = dep[v].arm
  BY <1>1, <1>5 DEF VersionRow
<1>9. dep' = [dep EXCEPT ![v] = d] /\ versions' = [versions EXCEPT ![v] = row]
  BY <1>1, <1>2, <1>5 DEF DeployBundle, SetVersion
<1>10. UNCHANGED <<project, main, call, cron, pass>> /\ NoFault
  BY DEF DeployBundle
<1>11. versions[v].status = "deploying" /\ versions[v].route = "none" /\ versions[v].data /\ project.prod # v
  BY <1>1 DEF DeployFits
<1>12. dep'[v] = d /\ versions'[v] = row
  BY <1>1, <1>9
<1>13. DeployFits(v)'
  BY <1>3, <1>7, <1>8, <1>10, <1>11, <1>12 DEF DeployFits
<1>14. faults' = 0 /\ cuts' = 0 /\ Elastic = {} =>
         (d.arm => project'.prod = NoVersion) /\ (d.boot <=> project'.prod = NoVersion)
  BY <1>1, <1>4, <1>10 DEF AllInv, ArmInv, NoFault
<1>15. /\ row.status = "deploying" /\ row.data /\ d.pc # "done"
       /\ row.armed => d.arm
  BY <1>3, <1>4, <1>7, <1>8, <1>11
<1>16. QED BY <1>1, <1>3, <1>6, <1>9, <1>10, <1>11, <1>13, <1>14, <1>15, DeployGoes

LEMMA DeployServesKeeps == ASSUME AllInv, NEW v \in Versions, DeployServes(v) PROVE AllInv'
<1>1. /\ TypeOK /\ OnlyDeploy(v) /\ DeployFits(v) /\ versions[v] \in VersionRow /\ dep[v] \in Deploy
      /\ project \in Project /\ versions \in [Versions -> VersionRow] /\ dep \in [Versions -> Deploy]
      /\ dep[v].pc = "serve"
  BY AtDeploy DEF DeployServes
<1>2. PICK d : d = [dep[v] EXCEPT !.pc = "bootstrap"]
  OBVIOUS
<1>3. d \in Deploy /\ d.pc = "bootstrap"
  BY <1>1, <1>2 DEF Deploy
<1>4. d.arm = dep[v].arm /\ d.boot = dep[v].boot
  BY <1>1, <1>2 DEF Deploy
<1>5. PICK row : row = [versions[v] EXCEPT !.status = "ready", !.route = "active", !.up = "recorded"]
  OBVIOUS
<1>6. row \in VersionRow
  BY <1>1, <1>5 DEF VersionRow
<1>7. row.status = "ready" /\ row.route = "active" /\ row.up = "recorded"
  BY <1>1, <1>5 DEF VersionRow
<1>8. row.data = versions[v].data /\ row.armed = versions[v].armed
  BY <1>1, <1>5 DEF VersionRow
<1>9. dep' = [dep EXCEPT ![v] = d] /\ versions' = [versions EXCEPT ![v] = row]
  BY <1>1, <1>2, <1>5 DEF DeployServes, SetVersion
<1>10. UNCHANGED <<project, main, call, cron, pass>> /\ NoFault
  BY DEF DeployServes
<1>11. versions[v].data /\ project.prod # v
  BY <1>1 DEF DeployFits
<1>12. dep'[v] = d /\ versions'[v] = row
  BY <1>1, <1>9
<1>13. DeployFits(v)'
  BY <1>3, <1>7, <1>12 DEF DeployFits
<1>14. faults' = 0 /\ cuts' = 0 /\ Elastic = {} =>
         /\ (d.arm => project'.prod = NoVersion) /\ (d.boot <=> project'.prod = NoVersion)
         /\ row.armed => d.arm
  BY <1>1, <1>4, <1>8, <1>10 DEF AllInv, ArmInv, NoFault
<1>15. row.data /\ d.pc # "done"
  BY <1>3, <1>8, <1>11
<1>16. QED BY <1>1, <1>3, <1>6, <1>7, <1>9, <1>10, <1>11, <1>13, <1>14, <1>15, DeployGoes

LEMMA DeployBootstrapsKeeps == ASSUME AllInv, NEW v \in Versions, DeployBootstraps(v) PROVE AllInv'
<1>1. /\ TypeOK /\ OnlyDeploy(v) /\ DeployFits(v) /\ versions[v] \in VersionRow /\ dep[v] \in Deploy
      /\ project \in Project /\ versions \in [Versions -> VersionRow] /\ dep \in [Versions -> Deploy]
      /\ dep[v].pc = "bootstrap"
  BY AtDeploy DEF DeployBootstraps
<1>2. PICK d : d = [dep[v] EXCEPT !.pc = "done"]
  OBVIOUS
<1>3. d \in Deploy /\ d.pc = "done"
  BY <1>1, <1>2 DEF Deploy
<1>4. PICK row \in VersionRow : row = versions[v]
  BY <1>1
<1>5. dep' = [dep EXCEPT ![v] = d] /\ versions' = [versions EXCEPT ![v] = row]
  BY <1>1, <1>2, <1>4 DEF DeployBootstraps
<1>6. UNCHANGED <<versions, main, call, cron, pass>> /\ (NoFault \/ Fault)
  BY DEF DeployBootstraps
<1>7. row.status = "ready" /\ row.route = "active"
  BY <1>1, <1>4 DEF DeployFits
<1>8. dep'[v] = d /\ versions'[v] = row
  BY <1>1, <1>5
<1>9. DeployFits(v)'
  BY <1>3, <1>7, <1>8 DEF DeployFits
<1>10. project' = project \/ (project' = Swapped(NoVersion, v) /\ project.prod = NoVersion)
  BY DEF DeployBootstraps, CASHolds
<1>11. Swapped(NoVersion, v) \in Project /\ Swapped(NoVersion, v).prod = v
  BY <1>1, SwappedFacts, ActorFacts
<1>12. project' \in Project /\ (project' = project \/ (project'.prod = v /\ project.prod = NoVersion))
  BY <1>1, <1>10, <1>11
<1>13. faults' = 0 => faults = 0 /\ NoFault /\ ~Fault
  BY <1>1, <1>6, NoFaultFacts
<1>14. ASSUME faults' = 0, cuts' = 0, Elastic = {}
       PROVE  row.up = "recorded" /\ project'.prod # NoVersion /\ (row.armed => project'.prod \in {v, NoVersion})
  <2>1. faults = 0 /\ cuts = 0 /\ ArmInv
    BY <1>13, <1>14 DEF AllInv, NoFault
  <2>2. row.up = "recorded" /\ (dep[v].boot <=> project.prod = NoVersion)
    BY <1>1, <1>4, <1>7, <1>14, <2>1 DEF ArmInv
  <2>3. CASE project.prod = NoVersion
    <3>1. project' = Swapped(NoVersion, v)
      BY <1>13, <1>14, <2>2, <2>3 DEF DeployBootstraps, CASHolds
    <3>2. QED BY <1>11, <2>2, <3>1, ActorFacts
  <2>4. CASE project.prod # NoVersion
    <3>1. project'.prod = project.prod
      BY <1>12, <2>4
    <3>2. row.armed => dep[v].arm
      BY <1>1, <1>4, <1>14, <2>1 DEF ArmInv
    <3>3. dep[v].arm => project.prod = NoVersion
      BY <1>1, <1>14, <2>1 DEF ArmInv
    <3>4. QED BY <2>2, <2>4, <3>1, <3>2, <3>3
  <2>5. QED BY <2>3, <2>4
<1>15. faults' = 0 => row.data
  BY <1>1, <1>4, <1>7, <1>13 DEF AllInv, DataInv, ServedHasData
<1>16. QED BY <1>1, <1>3, <1>5, <1>6, <1>7, <1>9, <1>12, <1>14, <1>15, DeployGoes

LEMMA DeployingKeeps == ASSUME AllInv, NEW v \in Versions, Deploying(v) PROVE AllInv'
BY DeployReadsProjectKeeps, DeployBundleKeeps, DeployServesKeeps, DeployBootstrapsKeeps DEF Deploying

-----------------------------------------------------------------------------
(* The invariant.                                                           *)

\* The invariant holds at first.
LEMMA AllInvInit == ASSUME OneCall, Init PROVE AllInv
<1>1. /\ \A a \in Actors : call[a] = NoCall
      /\ \A s \in Slots : cron[s] = NoCron /\ cron[s].pc = "idle"
      /\ \A v \in Versions : dep[v].pc = "new"
      /\ pass.pc = "off"
  BY DEF Init, NoCron, NoPass
<1>2. NoCron \in Cron /\ NewProject \in Project /\ NoPass \in Pass
  BY DEF NoCron, Cron, NewProject, Project, NoPass, Pass, Prods
<1>3. dep \in [Versions -> Deploy]
  BY DEF Init, Deploy
<1>4. versions \in [Versions -> VersionRow]
  BY DEF Init, VersionRow
<1>5. \A v \in Versions : /\ versions[v].status = "deploying" /\ versions[v].route = "none"
                          /\ versions[v].data
  BY DEF Init
<1>6. TypeOK
  BY <1>2, <1>3, <1>4, NoCallFacts, BoundsAssumption DEF Init, TypeOK
<1>7. project.prod = NoVersion
  BY DEF Init, NewProject
<1>8. Underway = {}
  BY <1>1, NoCallFacts DEF Underway
<1>9. Solo
  BY <1>1, <1>8 DEF Solo
<1>10. NeverArchiveProd /\ PassFits /\ \A v \in Versions : DeployFits(v)
  BY <1>1, <1>5, <1>7, ActorFacts DEF NeverArchiveProd, PassFits, DeployFits
<1>11. SwitchInv
  BY <1>1, <1>6, <1>9, <1>10, NoCallFacts DEF SwitchInv
<1>12. ServesInv /\ DataInv /\ OffInv
  BY <1>5 DEF ServesInv, DataInv, OffInv, ServedHasData
<1>13. ArmInv
  <2>1. "idle" \notin ArchivePCs
    BY DEF ArchivePCs
  <2>2. \A v \in Versions : ~Live(v)
    BY <1>1, <1>5, <2>1, NoCallFacts DEF Live
  <2>3. QED BY <1>1, <1>5, <1>7, <2>2, ActorFacts DEF ArmInv
<1>14. QED BY <1>11, <1>12, <1>13 DEF AllInv

\* A step that changes nothing keeps it.
LEMMA Stutters == ASSUME AllInv, UNCHANGED vars PROVE AllInv'
<1>1. UNCHANGED <<project, versions, main, dep, call, cron, pass, faults, cuts>>
  BY DEF vars
<1>2. \A v \in Versions : (Live(v)' <=> Live(v)) /\ (ToDisarm(v)' <=> ToDisarm(v))
  BY <1>1 DEF Live, ToDisarm
<1>3. ArmInv'
  BY <1>1, <1>2 DEF AllInv, ArmInv
<1>4. ServesInv' /\ DataInv' /\ OffInv'
  BY <1>1 DEF AllInv, ServesInv, DataInv, OffInv, ServedHasData, Excuses
<1>5. SwitchInv'
  <2>1. TypeOK' /\ Solo' /\ NeverArchiveProd' /\ PassFits' /\ OneCall'
    BY <1>1 DEF AllInv, SwitchInv, TypeOK, Solo, Underway, NeverArchiveProd, PassFits, OneCall
  <2>2. \A a \in Actors : call'[a].pc # "idle" => CallFits(a)'
    BY <1>1 DEF AllInv, SwitchInv, CallFits, PromoteFits, ArchiveFits
  <2>3. \A s \in Slots : cron'[s].pc # "idle" => CronFits(cron[s])'
    BY <1>1 DEF AllInv, SwitchInv, CronFits
  <2>4. \A v \in Versions : DeployFits(v)'
    BY <1>1 DEF AllInv, SwitchInv, DeployFits
  <2>5. QED BY <2>1, <2>2, <2>3, <2>4 DEF SwitchInv
<1>6. QED BY <1>3, <1>4, <1>5 DEF AllInv

\* Every step keeps it.
LEMMA AllInvNext == ASSUME AllInv, [Next]_vars PROVE AllInv'
<1>1. CASE \E v \in Versions : Deploying(v) \/ Pin(v) \/ Unpin(v) \/ ReplicaMoves(v)
  BY <1>1, DeployingKeeps, AsidesKeep
<1>2. CASE \E s \in Slots : Promoting(s)
  BY <1>2, PromotingKeeps
<1>3. CASE \E s \in Slots : CronReads(s) \/ CronStep(s)
  BY <1>3, CronReadsKeeps, CronStepKeeps
<1>4. CASE \E s \in Slots : Waking(s) \/ Destroying(s)
  BY <1>4, WakingKeeps, DestroyingKeeps
<1>5. CASE Archiving
  BY <1>5, ArchivingKeeps
<1>6. CASE \E a \in Actors : CutShort(a)
  BY <1>6, CutShortKeeps
<1>7. CASE UNCHANGED vars
  BY <1>7, Stutters
<1>8. QED BY <1>1, <1>2, <1>3, <1>4, <1>5, <1>6, <1>7 DEF Next

\* The invariant of calls made one after the other.
THEOREM SwitchCorrect == OneCall /\ Spec => []AllInv
<1>1. OneCall /\ Init => AllInv
  BY AllInvInit
<1>2. AllInv /\ [Next]_vars => AllInv'
  BY AllInvNext
<1>3. QED BY <1>1, <1>2, PTL DEF Spec

\* When it is quiet nobody is at work.
LEMMA QuietFacts ==
  ASSUME Quiet
  PROVE  /\ \A a \in Actors : call[a].pc = "idle"
         /\ \A s \in Slots : cron[s].pc = "idle"
BY UnderwayFacts DEF Quiet

\* With one call at a time the rows keep their types, and prod is not archived.
THEOREM RowsStayKept == OneCall /\ Spec => []RowsKept
<1>1. AllInv => RowsKept
  BY DEF AllInv, SwitchInv, RowsKept
<1>2. QED BY <1>1, SwitchCorrect, PTL

\* Once no call is under way the route of a ready prod is on, even if one call to the
\* registry or a tool failed: whichever step of a promotion it was that failed.
THEOREM ProdGoesOnServing == OneCall /\ Spec => []ProdServes
<1>1. AllInv => ProdServes
  <2>1. SUFFICES ASSUME AllInv, Quiet, faults <= 1, cuts = 0, NEW v \in Versions, project.prod = v,
                        versions[v].status = "ready", versions[v].route # "active"
                 PROVE  FALSE
    BY DEF ProdServes
  <2>2. PICK s \in Slots : Excuses(call[s], v)
    BY <2>1 DEF AllInv, ServesInv
  <2>3. call[s].pc = "idle"
    BY <2>1, QuietFacts, ActorFacts
  <2>4. call[s] = NoCall
    BY <2>1, <2>3, ActorFacts DEF AllInv, SwitchInv, Solo
  <2>5. QED BY <2>2, <2>4, NoCallFacts, ActorFacts DEF Excuses
<1>2. QED BY <1>1, SwitchCorrect, PTL

\* Until a call fails, a version that serves or may be woken has its data branch.
THEOREM DataIsKept == OneCall /\ Spec => [](faults = 0 => ServedHasData)
<1>1. AllInv => (faults = 0 => ServedHasData)
  BY DEF AllInv, DataInv
<1>2. QED BY <1>1, SwitchCorrect, PTL

\* Until a call fails, an archived version has no process and its route is off.
THEOREM ArchivedStaysOff == OneCall /\ Spec => [](faults = 0 => ArchivedIsOff)
<1>1. AllInv => (faults = 0 => ArchivedIsOff)
  BY DEF AllInv, OffInv, ArchivedIsOff
<1>2. QED BY <1>1, SwitchCorrect, PTL

\* Until a call fails, and for versions whose process stays where it was started, only
\* prod runs with its cron triggers once the reconciliations are done.
THEOREM ArmedIsProd == OneCall /\ Elastic = {} /\ Spec => [](faults = 0 => OnlyProdArmed)
<1> SUFFICES ASSUME Elastic = {} PROVE OneCall /\ Spec => [](faults = 0 => OnlyProdArmed)
  OBVIOUS
<1>1. AllInv => (faults = 0 => OnlyProdArmed)
  <2>1. SUFFICES ASSUME AllInv, Quiet, faults = 0, cuts = 0, NEW v \in Versions,
                        versions[v].status = "ready", versions[v].armed
                 PROVE  project.prod \in {v, NoVersion, Blank}
    BY DEF OnlyProdArmed
  <2>2. ArmInv
    BY <2>1 DEF AllInv
  <2>3. Live(v)
    BY <2>1 DEF Live
  <2>4. ~ToDisarm(v)
    BY <2>1, QuietFacts, ActorFacts DEF ToDisarm
  <2>5. QED BY <2>1, <2>2, <2>3, <2>4 DEF ArmInv
<1>2. QED BY <1>1, SwitchCorrect, PTL

-----------------------------------------------------------------------------
(* What a step does to the status of a version.                             *)

\* A status that changes is not "destroyed", and becomes "archived" at the end of an archive.
StatusSafe(v) ==
  \/ versions'[v].status = versions[v].status
  \/ /\ versions[v].status # "destroyed"
     /\ versions'[v].status = "archived" => \E a \in Actors : call[a].v = v /\ call[a].pc = "aset"

\* A row is written with a status that is safe.
LEMMA RowSafe ==
  ASSUME TypeOK, NEW u \in Versions, NEW row, SetVersion(u, row), NEW v \in Versions,
         \/ row.status = versions[u].status
         \/ /\ versions[u].status # "destroyed"
            /\ row.status = "archived" => \E a \in Actors : call[a].v = u /\ call[a].pc = "aset"
  PROVE  StatusSafe(v)
<1>1. versions'[v] = IF v = u THEN row ELSE versions[v]
  BY DEF SetVersion, TypeOK
<1>2. QED BY <1>1 DEF StatusSafe

\* A switched route leaves the status.
LEMMA RouteSafe ==
  ASSUME TypeOK, NEW u, NEW t \in {"active", "inactive"}, SetRoute(u, t) \/ UNCHANGED versions, NEW v \in Versions
  PROVE  StatusSafe(v)
<1>1. CASE UNCHANGED versions
  BY <1>1 DEF StatusSafe
<1>2. CASE SetRoute(u, t)
  <2>1. versions'[v] = IF v = u THEN Switched(versions[u], t) ELSE versions[v]
    BY <1>2 DEF SetRoute, SetVersion, TypeOK
  <2>2. CASE v = u
    <3>1. versions[u] \in VersionRow
      BY <2>2 DEF TypeOK
    <3>2. Switched(versions[u], t).status = versions[u].status
      BY <3>1, RowRoute
    <3>3. QED BY <2>1, <2>2, <3>2 DEF StatusSafe
  <2>3. QED BY <2>1, <2>2 DEF StatusSafe
<1>3. QED BY <1>1, <1>2

\* A promotion leaves every status.
LEMMA PromotingSafe ==
  ASSUME AllInv, NEW s \in Slots, Promoting(s), NEW v \in Versions PROVE StatusSafe(v)
<1>1. TypeOK
  BY DEF AllInv, SwitchInv
<1>2. CASE UNCHANGED versions
  BY <1>2 DEF StatusSafe
<1>3. CASE \E u \in {call[s].v, call[s].old}, t \in {"active", "inactive"} : SetRoute(u, t)
  BY <1>1, <1>3, RouteSafe
<1>4. UNCHANGED versions \/ \E u \in {call[s].v, call[s].old}, t \in {"active", "inactive"} : SetRoute(u, t)
  <2>1. \A v1 \in Versions : PromoteRead(s, v1) => UNCHANGED versions
    BY DEF PromoteRead
  <2>2. PromoteValidate(s) \/ PromoteReadProd(s) \/ HardGate(s) \/ Activate(s) \/ UndoCAS(s) => UNCHANGED versions
    BY DEF PromoteValidate, PromoteReadProd, HardGate, Activate, UndoCAS, Dropping
  <2>3. DrainOld(s) \/ DeactivateOld(s) => SetRoute(call[s].old, "inactive") \/ UNCHANGED versions
    BY DEF DrainOld, DeactivateOld, Dropping
  <2>4. GateRefused(s) \/ UndoTarget(s) => SetRoute(call[s].v, "inactive") \/ UNCHANGED versions
    BY DEF GateRefused, UndoTarget, Dropping
  <2>5. Commit(s) => SetRoute(call[s].v, "active") \/ UNCHANGED versions
    BY DEF Commit
  <2>6. UndoOld(s) => SetRoute(call[s].old, "active") \/ UNCHANGED versions
    BY DEF UndoOld, Dropping
  <2>7. QED BY <2>1, <2>2, <2>3, <2>4, <2>5, <2>6 DEF Promoting
<1>5. QED BY <1>2, <1>3, <1>4

\* The status of the version a call or a deploy writes.
LEMMA WrittenStatus ==
  ASSUME AllInv, NEW a \in Actors,
         call[a].pc \in {"adrain", "aroute", "aset", "wroute", "wready", "ddrain", "droute", "ddata", "dset"}
  PROVE  call[a].v \in Versions /\ versions[call[a].v].status # "destroyed" /\ versions[call[a].v] \in VersionRow
         /\ TypeOK
<1>1. CallFits(a) /\ call[a].v \in Versions /\ TypeOK /\ versions[call[a].v] \in VersionRow
  BY AtCall
<1>2. /\ \A pc \in {"adrain", "aroute", "aset"} : pc \in ArchivePCs
      /\ \A pc \in {"wroute", "wready"} : pc \in WakePCs
      /\ \A pc \in {"ddrain", "droute", "ddata", "dset"} : pc \in DestroyPCs
  BY DEF ArchivePCs, WakePCs, DestroyPCs
<1>3. QED BY <1>1, <1>2 DEF CallFits, ArchiveFits

\* A stop leaves the status.
LEMMA StoppedStatus == ASSUME NEW r \in VersionRow, NEW u PROVE Stopped(u, r).status = r.status
BY RowStopped

\* Archive, wake and destroy: the status they write follows from the one they found.
LEMMA CallsSafe ==
  ASSUME AllInv, NEW a \in Actors, NEW v \in Versions,
         \/ ArchiveDrain(a) \/ ArchiveRoute(a) \/ ArchiveSet(a) \/ WakeRoute(a) \/ WakeReady(a)
         \/ DestroyDrain(a) \/ DestroyRoute(a) \/ DestroyData(a) \/ DestroySet(a)
  PROVE  StatusSafe(v)
<1>1. call[a].pc \in {"adrain", "aroute", "aset", "wroute", "wready", "ddrain", "droute", "ddata", "dset"}
  BY DEF ArchiveDrain, ArchiveRoute, ArchiveSet, WakeRoute, WakeReady, DestroyDrain, DestroyRoute, DestroyData, DestroySet
<1>2. PICK u \in Versions : u = call[a].v
  BY <1>1, WrittenStatus
<1>3. versions[u].status # "destroyed" /\ versions[u] \in VersionRow /\ TypeOK
  BY <1>1, <1>2, WrittenStatus
<1>4. PICK r \in VersionRow : r = versions[u]
  BY <1>3
<1>5. CASE UNCHANGED versions
  BY <1>5 DEF StatusSafe
<1>6. CASE \E st \in {"draining", "destroyed"} : SetStatus(u, st)
  <2>1. PICK st \in {"draining", "destroyed"} : SetVersion(u, [r EXCEPT !.status = st])
    BY <1>4, <1>6 DEF SetStatus
  <2>2. PICK row : row = [r EXCEPT !.status = st]
    OBVIOUS
  <2>3. row.status = st
    BY <2>2 DEF VersionRow
  <2>4. QED BY <1>3, <2>1, <2>2, <2>3, RowSafe
<1>7. CASE SetStatus(u, "archived") /\ call[a].pc = "aset"
  BY <1>2, <1>3, <1>7, RowSafe DEF SetStatus
<1>8. CASE \/ SetVersion(u, Stopped(u, Switched(r, "inactive")))
           \/ SetVersion(u, Stopped(u, r))
  <2>1. Switched(r, "inactive") \in VersionRow /\ Switched(r, "inactive").status = r.status
    BY RowRoute
  <2>2. Stopped(u, Switched(r, "inactive")).status = r.status /\ Stopped(u, r).status = r.status
    BY <2>1, StoppedStatus
  <2>3. QED BY <1>3, <1>4, <1>8, <2>2, RowSafe
<1>9. CASE SetVersion(u, [r EXCEPT !.route = "active", !.up = "recorded"])
  <2>1. PICK row : row = [r EXCEPT !.route = "active", !.up = "recorded"]
    OBVIOUS
  <2>2. row.status = r.status
    BY <2>1 DEF VersionRow
  <2>3. QED BY <1>3, <1>4, <1>9, <2>1, <2>2, RowSafe
<1>10. CASE \E up \in {"down", "recorded", "elsewhere"} : SetVersion(u, [r EXCEPT !.status = "ready", !.up = up])
  <2>1. PICK up \in {"down", "recorded", "elsewhere"} : SetVersion(u, [r EXCEPT !.status = "ready", !.up = up])
    BY <1>10
  <2>2. PICK row : row = [r EXCEPT !.status = "ready", !.up = up]
    OBVIOUS
  <2>3. row.status = "ready"
    BY <2>2 DEF VersionRow
  <2>4. QED BY <1>3, <2>1, <2>2, <2>3, RowSafe
<1>11. CASE SetVersion(u, [r EXCEPT !.data = FALSE])
  <2>1. PICK row : row = [r EXCEPT !.data = FALSE]
    OBVIOUS
  <2>2. row.status = r.status
    BY <2>1 DEF VersionRow
  <2>3. QED BY <1>3, <1>4, <1>11, <2>1, <2>2, RowSafe
<1>12. CASE ArchiveDrain(a) \/ ArchiveRoute(a) \/ ArchiveSet(a)
  BY <1>2, <1>4, <1>5, <1>6, <1>7, <1>8, <1>12 DEF ArchiveDrain, ArchiveRoute, ArchiveSet, Dropping
<1>13. CASE WakeRoute(a)
  BY <1>2, <1>4, <1>5, <1>9, <1>13 DEF WakeRoute
<1>14. CASE WakeReady(a)
  <2>1. r.up \in {"down", "recorded", "elsewhere"}
    BY DEF VersionRow
  <2>2. QED BY <1>2, <1>4, <1>5, <1>10, <1>14, <2>1 DEF WakeReady
<1>15. CASE DestroyDrain(a) \/ DestroyRoute(a) \/ DestroyData(a) \/ DestroySet(a)
  BY <1>2, <1>4, <1>5, <1>6, <1>8, <1>11, <1>15 DEF DestroyDrain, DestroyRoute, DestroyData, DestroySet, Dropping
<1>16. QED BY <1>12, <1>13, <1>14, <1>15

\* A deploy makes a deploying version ready.
LEMMA DeploySafe == ASSUME AllInv, NEW u \in Versions, Deploying(u), NEW v \in Versions PROVE StatusSafe(v)
<1>1. CASE UNCHANGED versions
  BY <1>1 DEF StatusSafe
<1>2. CASE DeployBundle(u) \/ DeployServes(u)
  <2>1. dep[u].pc \in {"serve", "deploy"}
    BY <1>2 DEF DeployBundle, DeployServes
  <2>2. TypeOK /\ DeployFits(u) /\ versions[u] \in VersionRow
    BY <2>1, AtDeploy
  <2>3. versions[u].status = "deploying"
    BY <2>1, <2>2 DEF DeployFits
  <2>4. PICK r \in VersionRow : r = versions[u]
    BY <2>2
  <2>5. CASE DeployBundle(u)
    <3>1. PICK row : row = [r EXCEPT !.armed = dep[u].arm]
      OBVIOUS
    <3>2. row.status = r.status
      BY <3>1 DEF VersionRow
    <3>3. SetVersion(u, row)
      BY <2>4, <2>5, <3>1 DEF DeployBundle
    <3>4. QED BY <2>2, <2>4, <3>2, <3>3, RowSafe
  <2>6. CASE DeployServes(u)
    <3>1. PICK row : row = [r EXCEPT !.status = "ready", !.route = "active", !.up = "recorded"]
      OBVIOUS
    <3>2. row.status = "ready"
      BY <3>1 DEF VersionRow
    <3>3. SetVersion(u, row)
      BY <2>4, <2>6, <3>1 DEF DeployServes
    <3>4. QED BY <2>2, <2>3, <3>2, <3>3, RowSafe
  <2>7. QED BY <1>2, <2>5, <2>6
<1>3. CASE DeployReadsProject(u) \/ DeployBootstraps(u)
  BY <1>1, <1>3 DEF DeployReadsProject, DeployBootstraps
<1>4. QED BY <1>2, <1>3 DEF Deploying

\* A reconciliation leaves every status.
LEMMA CronSafe ==
  ASSUME AllInv, NEW s \in Slots, CronReads(s) \/ CronStep(s), NEW v \in Versions PROVE StatusSafe(v)
<1>1. CASE UNCHANGED versions
  BY <1>1 DEF StatusSafe
<1>2. CASE CronReads(s)
  BY <1>1, <1>2 DEF CronReads
<1>3. CASE CronStep(s)
  <2>1. TypeOK /\ CronFits(cron[s])
    BY <1>3 DEF CronStep, AllInv, SwitchInv
  <2>2. PICK u : u = IF cron[s].new # NoVersion THEN cron[s].new ELSE cron[s].old
    OBVIOUS
  <2>3. u \in Versions
    BY <2>1, <2>2, ActorFacts DEF CronFits, TypeOK, Cron
  <2>4. PICK r \in VersionRow : r = versions[u]
    BY <2>1, <2>3 DEF TypeOK
  <2>5. PICK arm : arm = ShouldArm(cron[s].prod, u)
    OBVIOUS
  <2>6. SetVersion(u, [r EXCEPT !.armed = arm]) \/ UNCHANGED versions
    BY <1>3, <2>2, <2>4, <2>5 DEF CronStep
  <2>7. PICK row : row = [r EXCEPT !.armed = arm]
    OBVIOUS
  <2>8. row.status = r.status
    BY <2>7 DEF VersionRow
  <2>9. QED BY <1>1, <2>1, <2>3, <2>4, <2>6, <2>7, <2>8, RowSafe
<1>4. QED BY <1>2, <1>3

\* Pins and moves leave every status.
LEMMA AsideSafe ==
  ASSUME AllInv, NEW u \in Versions, Pin(u) \/ Unpin(u) \/ ReplicaMoves(u), NEW v \in Versions PROVE StatusSafe(v)
<1>1. TypeOK
  BY DEF AllInv, SwitchInv
<1>2. PICK r \in VersionRow : r = versions[u]
  BY <1>1 DEF TypeOK
<1>3. CASE \E b \in BOOLEAN : SetVersion(u, [r EXCEPT !.pinned = b])
  <2>1. PICK b \in BOOLEAN : SetVersion(u, [r EXCEPT !.pinned = b])
    BY <1>3
  <2>2. PICK row : row = [r EXCEPT !.pinned = b]
    OBVIOUS
  <2>3. row.status = r.status
    BY <2>2 DEF VersionRow
  <2>4. QED BY <1>1, <1>2, <2>1, <2>2, <2>3, RowSafe
<1>4. CASE \E up \in {"down", "elsewhere"} : SetVersion(u, [r EXCEPT !.up = up])
  <2>1. PICK up \in {"down", "elsewhere"} : SetVersion(u, [r EXCEPT !.up = up])
    BY <1>4
  <2>2. PICK row : row = [r EXCEPT !.up = up]
    OBVIOUS
  <2>3. row.status = r.status
    BY <2>2 DEF VersionRow
  <2>4. QED BY <1>1, <1>2, <2>1, <2>2, <2>3, RowSafe
<1>5. CASE Pin(u) \/ Unpin(u)
  BY <1>2, <1>3, <1>5 DEF Pin, Unpin
<1>6. CASE ReplicaMoves(u)
  BY <1>2, <1>4, <1>6 DEF ReplicaMoves
<1>7. QED BY <1>5, <1>6

\* Every step.
LEMMA NextSafe == ASSUME AllInv, [Next]_vars, NEW v \in Versions PROVE StatusSafe(v)
<1>1. CASE UNCHANGED versions
  BY <1>1 DEF StatusSafe
<1>2. CASE \E u \in Versions : Deploying(u) \/ Pin(u) \/ Unpin(u) \/ ReplicaMoves(u)
  BY <1>2, DeploySafe, AsideSafe
<1>3. CASE \E s \in Slots : Promoting(s)
  BY <1>3, PromotingSafe
<1>4. CASE \E s \in Slots : CronReads(s) \/ CronStep(s)
  BY <1>4, CronSafe
<1>5. CASE \E s \in Slots : Waking(s) \/ Destroying(s)
  <2>1. PICK s \in Slots : Waking(s) \/ Destroying(s)
    BY <1>5
  <2>2. s \in Actors
    BY ActorFacts
  <2>3. CASE \/ WakeRoute(s) \/ WakeReady(s)
             \/ DestroyDrain(s) \/ DestroyRoute(s) \/ DestroyData(s) \/ DestroySet(s)
    BY <2>2, <2>3, CallsSafe
  <2>4. CASE DestroyCheck(s) \/ \E u \in Versions : WakeRead(s, u) \/ DestroyRead(s, u)
    BY <1>1, <2>4 DEF DestroyCheck, WakeRead, DestroyRead
  <2>5. QED BY <2>1, <2>3, <2>4 DEF Waking, Destroying
<1>6. CASE Archiving
  <2>1. CASE \E a \in Actors : ArchiveDrain(a) \/ ArchiveRoute(a) \/ ArchiveSet(a)
    BY <2>1, CallsSafe
  <2>2. CASE (\E s \in Slots, u \in Versions : ArchiveRead(s, u)) \/ (\E a \in Actors : ArchiveCheck(a))
    BY <1>1, <2>2 DEF ArchiveRead, ArchiveCheck
  <2>3. CASE ReaperLists \/ ReaperReadsProject \/ ReaperEnds \/ KeepExpires \/ \E u \in Versions : ReaperTries(u)
    BY <1>1, <2>3 DEF ReaperLists, ReaperReadsProject, ReaperEnds, KeepExpires, ReaperTries
  <2>4. QED BY <1>6, <2>1, <2>2, <2>3 DEF Archiving
<1>7. CASE (\E a \in Actors : CutShort(a)) \/ UNCHANGED vars
  BY <1>1, <1>7 DEF CutShort, vars
<1>8. QED BY <1>2, <1>3, <1>4, <1>5, <1>6, <1>7 DEF Next

\* A destroyed version stays destroyed, and the reaper does not take the previous prod
\* while it is kept for rollback: it read the project before, and nothing has changed it since.
THEOREM LifeGoesOn == OneCall /\ Spec => LifeKept
<1>1. AllInv /\ [Next]_vars =>
        [\A v \in Versions : versions[v].status = "destroyed" => versions'[v].status = "destroyed"]_vars
  BY NextSafe DEF StatusSafe
<1>2. AllInv /\ [Next]_vars =>
        [\A v \in Versions :
           call[Reaper].v = v /\ versions'[v].status = "archived" /\ versions[v].status # "archived"
           => ~(project.previous = v /\ project.kept)]_vars
  <2>1. SUFFICES ASSUME AllInv, [Next]_vars, NEW v \in Versions, call[Reaper].v = v,
                        versions'[v].status = "archived", versions[v].status # "archived"
                 PROVE  ~(project.previous = v /\ project.kept)
    OBVIOUS
  <2>2. PICK a \in Actors : call[a].v = v /\ call[a].pc = "aset"
    BY <2>1, NextSafe DEF StatusSafe
  <2>3. call[Reaper] # NoCall /\ Reaper \in Actors
    BY <2>1, NoCallFacts, ActorFacts
  <2>4. call[Reaper].pc # "idle"
    BY <2>1, <2>3 DEF AllInv, SwitchInv, Solo
  <2>5. Alone(Reaper) /\ CallFits(Reaper)
    BY <2>1, <2>3, <2>4, AtCall
  <2>6. ArchiveFits(Reaper, call[Reaper])
    BY <2>5 DEF CallFits
  <2>7. QED BY <2>1, <2>6 DEF ArchiveFits
<1>3. QED BY <1>1, <1>2, SwitchCorrect, PTL DEF LifeKept, DestroyedIsFinal, RollbackKept, Spec

-----------------------------------------------------------------------------
(* However many calls there are at a time: types.                           *)

\* A row that is written is a row.
LEMMA RowsTyped ==
  ASSUME versions \in [Versions -> VersionRow], NEW v, NEW row, SetVersion(v, row), v \in Versions => row \in VersionRow
  PROVE  versions' \in [Versions -> VersionRow]
BY DEF SetVersion

\* So does the helper that sets a status, and the one that sets a route.
LEMMA FieldsTyped ==
  ASSUME NEW r \in VersionRow
  PROVE  /\ \A x \in {"deploying", "ready", "archived", "draining", "destroyed"} : [r EXCEPT !.status = x] \in VersionRow
         /\ \A x \in {"active", "inactive"} : Switched(r, x) \in VersionRow
         /\ \A x \in BOOLEAN : /\ [r EXCEPT !.pinned = x] \in VersionRow
                               /\ [r EXCEPT !.armed = x] \in VersionRow
                               /\ [r EXCEPT !.data = x] \in VersionRow
         /\ \A x \in {"down", "recorded", "elsewhere"} :
              /\ [r EXCEPT !.up = x] \in VersionRow
              /\ [r EXCEPT !.status = "ready", !.up = x] \in VersionRow
         /\ \A v : Stopped(v, r) \in VersionRow
         /\ [r EXCEPT !.status = "ready", !.route = "active", !.up = "recorded"] \in VersionRow
         /\ [r EXCEPT !.route = "active", !.up = "recorded"] \in VersionRow
BY DEF VersionRow, Switched, Stopped

\* A call that is written is a call.
LEMMA CallTyped ==
  ASSUME call \in [Actors -> Call], NEW a, NEW k, SetCall(a, k), a \in Actors => k \in Call
  PROVE  call' \in [Actors -> Call]
BY DEF SetCall

\* The program counters of a call.
LEMMA CallFacts ==
  /\ NoCall \in Call
  /\ \A k \in Call, pc \in PCs : [k EXCEPT !.pc = pc] \in Call
BY DEF Call, NoCall, PCs, Prods

\* Ending a call, moving it on and starting one.
LEMMA MovesTyped ==
  ASSUME call \in [Actors -> Call], NEW a \in Actors
  PROVE  /\ Done(a) => call' \in [Actors -> Call]
         /\ \A pc \in PCs : Go(a, pc) => call' \in [Actors -> Call]
         /\ UndoOldNext(a) => call' \in [Actors -> Call]
         /\ \A v \in Versions, pc \in PCs : Start(a, v, pc) => call' \in [Actors -> Call]
<1>1. Done(a) => call' \in [Actors -> Call]
  BY CallTyped, CallFacts DEF Done
<1>2. ASSUME NEW pc \in PCs, Go(a, pc) PROVE call' \in [Actors -> Call]
  <2>1. [call[a] EXCEPT !.pc = pc] \in Call
    BY CallFacts
  <2>2. QED BY <1>2, <2>1, CallTyped DEF Go
<1>3. UndoOldNext(a) => call' \in [Actors -> Call]
  <2>1. "undoagain" \in PCs
    BY DEF PCs, UndoPCs
  <2>2. QED BY <1>1, <1>2, <2>1 DEF UndoOldNext
<1>4. ASSUME NEW v \in Versions, NEW pc \in PCs, Start(a, v, pc) PROVE call' \in [Actors -> Call]
  <2>1. [NoCall EXCEPT !.v = v, !.pc = pc] \in Call
    BY DEF Call, NoCall, PCs, Prods
  <2>2. QED BY <1>4, <2>1, CallTyped DEF Start
<1>5. QED BY <1>1, <1>2, <1>3, <1>4

\* The counts stay within their bounds.
LEMMA CountsTyped ==
  ASSUME TypeOK
  PROVE  /\ NoFault => faults' \in 0..MaxFaults /\ cuts' \in 0..MaxCuts
         /\ Fault   => faults' \in 0..MaxFaults /\ cuts' \in 0..MaxCuts
         /\ faults \in Nat /\ cuts \in Nat
BY BoundsAssumption DEF TypeOK, NoFault, Fault

Counts == faults \in 0..MaxFaults /\ cuts \in 0..MaxCuts

\* A write of a route or a status, whose error may be dropped.
LEMMA DroppingTyped ==
  ASSUME TypeOK, NEW v,
         \/ \E x \in {"active", "inactive"} : Dropping(SetRoute(v, x) /\ UNCHANGED project)
         \/ \E x \in {"draining", "archived", "destroyed"} : Dropping(SetStatus(v, x) /\ UNCHANGED project)
         \/ Dropping(SetVersion(v, [versions[v] EXCEPT !.data = FALSE]) /\ UNCHANGED project)
  PROVE  versions' \in [Versions -> VersionRow] /\ project' = project /\ Counts'
<1>1. versions \in [Versions -> VersionRow]
  BY DEF TypeOK
<1>2. v \in Versions => versions[v] \in VersionRow
  BY <1>1
<1>3. ASSUME NEW x \in {"active", "inactive"}, SetRoute(v, x) PROVE versions' \in [Versions -> VersionRow]
  <2>1. v \in Versions => Switched(versions[v], x) \in VersionRow
    BY <1>2, FieldsTyped
  <2>2. QED BY <1>1, <1>3, <2>1, RowsTyped DEF SetRoute
<1>4. ASSUME NEW x \in {"draining", "archived", "destroyed"}, SetStatus(v, x) PROVE versions' \in [Versions -> VersionRow]
  <2>1. v \in Versions => [versions[v] EXCEPT !.status = x] \in VersionRow
    BY <1>2, FieldsTyped
  <2>2. QED BY <1>1, <1>4, <2>1, RowsTyped DEF SetStatus
<1>5. ASSUME SetVersion(v, [versions[v] EXCEPT !.data = FALSE]) PROVE versions' \in [Versions -> VersionRow]
  <2>1. v \in Versions => [versions[v] EXCEPT !.data = FALSE] \in VersionRow
    BY <1>2, FieldsTyped
  <2>2. QED BY <1>1, <1>5, <2>1, RowsTyped
<1>6. QED BY <1>1, <1>3, <1>4, <1>5, CountsTyped DEF Dropping, Counts

\* The route of a version switched, its row as it is or stopped.
LEMMA SwitchTyped ==
  ASSUME TypeOK, NEW v
  PROVE  /\ \A x \in {"active", "inactive"} : SetRoute(v, x) => versions' \in [Versions -> VersionRow]
         /\ SetVersion(v, Stopped(v, Switched(versions[v], "inactive"))) => versions' \in [Versions -> VersionRow]
         /\ SetVersion(v, Stopped(v, versions[v])) => versions' \in [Versions -> VersionRow]
<1>1. versions \in [Versions -> VersionRow]
  BY DEF TypeOK
<1>2. v \in Versions =>
        /\ \A x \in {"active", "inactive"} : Switched(versions[v], x) \in VersionRow
        /\ Stopped(v, versions[v]) \in VersionRow
  BY <1>1, FieldsTyped
<1>3. v \in Versions => Stopped(v, Switched(versions[v], "inactive")) \in VersionRow
  BY <1>2, FieldsTyped
<1>4. ASSUME NEW x \in {"active", "inactive"}, SetRoute(v, x) PROVE versions' \in [Versions -> VersionRow]
  BY <1>1, <1>2, <1>4, RowsTyped DEF SetRoute
<1>5. SetVersion(v, Stopped(v, Switched(versions[v], "inactive"))) => versions' \in [Versions -> VersionRow]
  BY <1>1, <1>3, RowsTyped
<1>6. SetVersion(v, Stopped(v, versions[v])) => versions' \in [Versions -> VersionRow]
  BY <1>1, <1>2, RowsTyped
<1>7. QED BY <1>4, <1>5, <1>6

\* The compare-and-set of prod.
LEMMA SwappedTyped ==
  ASSUME project \in Project, NEW e \in Versions \cup {NoVersion}, NEW n \in Versions \cup {NoVersion}
  PROVE  Swapped(e, n) \in Project
BY DEF Swapped, Project, Prods

LEMMA PCFacts ==
  /\ {"idle", "validate", "readprod", "drain", "deactivate", "gate", "commit", "activate"} \subseteq PCs
  /\ {"gateoff", "undocas", "undotarget", "undoagain", "undoold"} \subseteq PCs
  /\ {"acheck", "adrain", "aroute", "aset", "wroute", "wready"} \subseteq PCs
  /\ {"dcheck", "ddrain", "droute", "ddata", "dset"} \subseteq PCs
BY DEF PCs, PromotePCs, UndoPCs, ArchivePCs, WakePCs, DestroyPCs

\* What most steps leave alone, and what is then left to show.
LEMMA RestTyped ==
  ASSUME TypeOK, project' \in Project, versions' \in [Versions -> VersionRow], call' \in [Actors -> Call],
         UNCHANGED <<main, dep, cron, pass>>, NoFault \/ Fault
  PROVE  TypeOK'
BY CountsTyped DEF TypeOK

\* A promotion's steps.
LEMMA PromotingTyped == ASSUME TypeOK, NEW s \in Slots, Promoting(s) PROVE TypeOK'
<1>1. s \in Actors /\ call \in [Actors -> Call] /\ versions \in [Versions -> VersionRow] /\ project \in Project
  BY ActorFacts DEF TypeOK
<1>2. call[s] \in Call
  BY <1>1
<1>3. call[s].v \in Versions \cup {NoVersion} /\ call[s].old \in Versions \cup {NoVersion}
  BY <1>2 DEF Call
<1>4. CASE (\E v \in Versions : PromoteRead(s, v)) \/ HardGate(s)
  <2>1. call' \in [Actors -> Call]
    BY <1>1, <1>4, MovesTyped, PCFacts DEF PromoteRead, HardGate
  <2>2. main' \in Versions \cup {NoVersion}
    BY <1>3, <1>4 DEF PromoteRead, HardGate, TypeOK
  <2>3. QED BY <1>4, <2>1, <2>2, CountsTyped DEF PromoteRead, HardGate, TypeOK
<1>5. CASE PromoteValidate(s)
  <2>1. call' \in [Actors -> Call]
    BY <1>1, <1>5, MovesTyped, PCFacts DEF PromoteValidate
  <2>2. QED BY <1>1, <1>5, <2>1, RestTyped DEF PromoteValidate
<1>6. CASE PromoteReadProd(s)
  <2>1. PICK old : old = IF project.prod \in Versions THEN project.prod ELSE NoVersion
    OBVIOUS
  <2>2. old \in Versions \cup {NoVersion} /\ project.prod \in Prods
    BY <1>1, <2>1 DEF Project
  <2>3. CASE old = call[s].v
    <3>1. Done(s) /\ cron' = [cron EXCEPT ![s] = [NoCron EXCEPT !.pc = "read", !.new = call[s].v]]
      BY <1>6, <2>1, <2>3 DEF PromoteReadProd
    <3>2. call' \in [Actors -> Call]
      BY <1>1, <3>1, MovesTyped
    <3>3. [NoCron EXCEPT !.pc = "read", !.new = call[s].v] \in Cron
      BY <1>3 DEF NoCron, Cron, Prods
    <3>4. cron' \in [Slots -> Cron]
      BY <3>1, <3>3 DEF TypeOK
    <3>5. QED BY <1>6, <3>2, <3>4, CountsTyped DEF PromoteReadProd, TypeOK
  <2>4. CASE old # call[s].v
    <3>1. PICK pc : pc = IF old = NoVersion THEN "gate" ELSE "drain"
      OBVIOUS
    <3>2. SetCall(s, [call[s] EXCEPT !.pc = pc, !.old = old, !.was = project.prod]) /\ UNCHANGED cron
      BY <1>6, <2>1, <2>4, <3>1 DEF PromoteReadProd
    <3>3. pc \in PCs
      BY <3>1, PCFacts
    <3>4. [call[s] EXCEPT !.pc = pc, !.old = old, !.was = project.prod] \in Call
      BY <1>2, <2>2, <3>3 DEF Call, PCs
    <3>5. call' \in [Actors -> Call]
      BY <1>1, <3>2, <3>4, CallTyped
    <3>6. QED BY <1>1, <1>6, <3>2, <3>5, RestTyped DEF PromoteReadProd
  <2>5. QED BY <2>3, <2>4
<1>7. CASE DrainOld(s) \/ GateRefused(s) \/ UndoTarget(s) \/ UndoOld(s)
  <2>1. call' \in [Actors -> Call]
    BY <1>1, <1>7, MovesTyped, PCFacts DEF DrainOld, GateRefused, UndoTarget, UndoOld
  <2>2. PICK v : \E x \in {"active", "inactive"} : Dropping(SetRoute(v, x) /\ UNCHANGED project)
    BY <1>7 DEF DrainOld, GateRefused, UndoTarget, UndoOld
  <2>3. versions' \in [Versions -> VersionRow] /\ project' = project /\ Counts'
    BY <2>2, DroppingTyped
  <2>4. UNCHANGED <<main, dep, cron, pass>>
    BY <1>7 DEF DrainOld, GateRefused, UndoTarget, UndoOld
  <2>5. QED BY <2>1, <2>3, <2>4 DEF TypeOK, Counts
<1>8. CASE DeactivateOld(s)
  <2>1. call' \in [Actors -> Call]
    BY <1>1, <1>8, MovesTyped, PCFacts DEF DeactivateOld
  <2>2. versions' \in [Versions -> VersionRow]
    BY <1>1, <1>8, SwitchTyped DEF DeactivateOld
  <2>3. QED BY <1>1, <1>8, <2>1, <2>2, RestTyped DEF DeactivateOld
<1>9. CASE Commit(s)
  <2>1. call' \in [Actors -> Call]
    BY <1>1, <1>9, MovesTyped, PCFacts DEF Commit
  <2>2. versions' \in [Versions -> VersionRow]
    BY <1>1, <1>9, SwitchTyped DEF Commit
  <2>3. project' \in Project
    BY <1>1, <1>3, <1>9, SwappedTyped DEF Commit
  <2>4. QED BY <1>9, <2>1, <2>2, <2>3, RestTyped DEF Commit
<1>10. CASE Activate(s)
  <2>1. call' \in [Actors -> Call]
    BY <1>1, <1>10, MovesTyped, PCFacts DEF Activate
  <2>2. [NoCron EXCEPT !.pc = "read", !.new = call[s].v, !.old = call[s].old] \in Cron
    BY <1>3 DEF NoCron, Cron, Prods
  <2>3. cron' \in [Slots -> Cron]
    BY <1>10, <2>2 DEF Activate, TypeOK
  <2>4. QED BY <1>10, <2>1, <2>3, CountsTyped DEF Activate, TypeOK
<1>11. CASE UndoCAS(s)
  <2>1. call' \in [Actors -> Call]
    BY <1>1, <1>11, MovesTyped, PCFacts DEF UndoCAS
  <2>2. project' \in Project /\ versions' = versions
    BY <1>1, <1>3, <1>11, SwappedTyped DEF UndoCAS, Dropping
  <2>3. NoFault \/ Fault
    BY <1>11 DEF UndoCAS, Dropping
  <2>4. QED BY <1>1, <1>11, <2>1, <2>2, <2>3, RestTyped DEF UndoCAS
<1>12. QED BY <1>4, <1>5, <1>6, <1>7, <1>8, <1>9, <1>10, <1>11 DEF Promoting

\* Deploys.
LEMMA DeployingTyped == ASSUME TypeOK, NEW v \in Versions, Deploying(v) PROVE TypeOK'
<1>1. versions \in [Versions -> VersionRow] /\ versions[v] \in VersionRow /\ project \in Project
  BY DEF TypeOK
<1>2. dep \in [Versions -> Deploy] /\ dep[v] \in Deploy
  BY DEF TypeOK
<1>3. dep[v].arm \in BOOLEAN
  BY <1>2 DEF Deploy
<1>4. dep' \in [Versions -> Deploy]
  <2>1. CASE DeployReadsProject(v)
    <3>1. ShouldArm(project.prod, v) \in BOOLEAN
      BY DEF ShouldArm
    <3>2. [pc |-> "deploy", arm |-> ShouldArm(project.prod, v), boot |-> project.prod = NoVersion] \in Deploy
      BY <3>1 DEF Deploy
    <3>3. QED BY <1>2, <2>1, <3>2 DEF DeployReadsProject
  <2>2. ASSUME NEW pc \in {"serve", "bootstrap", "done"}, dep' = [dep EXCEPT ![v].pc = pc]
        PROVE dep' \in [Versions -> Deploy]
    <3>1. [dep[v] EXCEPT !.pc = pc] \in Deploy
      BY <1>2 DEF Deploy
    <3>2. QED BY <1>2, <2>2, <3>1
  <2>3. QED BY <2>1, <2>2 DEF Deploying, DeployBundle, DeployServes, DeployBootstraps
<1>5. versions' \in [Versions -> VersionRow]
  <2>1. CASE DeployBundle(v) \/ DeployServes(v)
    <3>1. [versions[v] EXCEPT !.armed = dep[v].arm] \in VersionRow
      BY <1>1, <1>3, FieldsTyped
    <3>2. [versions[v] EXCEPT !.status = "ready", !.route = "active", !.up = "recorded"] \in VersionRow
      BY <1>1, FieldsTyped
    <3>3. QED BY <1>1, <2>1, <3>1, <3>2, RowsTyped DEF DeployBundle, DeployServes
  <2>2. QED BY <1>1, <2>1 DEF Deploying, DeployReadsProject, DeployBootstraps
<1>6. project' \in Project
  BY <1>1, SwappedTyped DEF Deploying, DeployReadsProject, DeployBundle, DeployServes, DeployBootstraps
<1>7. (NoFault \/ Fault) /\ UNCHANGED <<main, call, cron, pass>>
  BY DEF Deploying, DeployReadsProject, DeployBundle, DeployServes, DeployBootstraps
<1>8. QED BY <1>4, <1>5, <1>6, <1>7, CountsTyped DEF TypeOK

\* Reconciliations.
LEMMA CronTyped == ASSUME TypeOK, NEW s \in Slots, CronReads(s) \/ CronStep(s) PROVE TypeOK'
<1>1. cron \in [Slots -> Cron] /\ cron[s] \in Cron /\ versions \in [Versions -> VersionRow] /\ project.prod \in Prods
  BY DEF TypeOK, Project
<1>2. NoCron \in Cron
  BY DEF NoCron, Cron, Prods
<1>3. CronNext(s) => cron' \in [Slots -> Cron]
  <2>1. [cron[s] EXCEPT !.new = NoVersion] \in Cron
    BY <1>1 DEF Cron
  <2>2. QED BY <1>1, <1>2, <2>1 DEF CronNext
<1>4. CASE CronReads(s)
  <2>1. [cron[s] EXCEPT !.pc = "step", !.prod = project.prod] \in Cron
    BY <1>1 DEF Cron
  <2>2. cron' = [cron EXCEPT ![s] = [cron[s] EXCEPT !.pc = "step", !.prod = project.prod]]
    BY <1>1, <1>4 DEF CronReads
  <2>3. cron' \in [Slots -> Cron]
    BY <1>1, <2>1, <2>2
  <2>4. QED BY <1>4, <2>3, CountsTyped DEF CronReads, TypeOK
<1>5. CASE CronStep(s)
  <2>1. cron' \in [Slots -> Cron]
    BY <1>1, <1>2, <1>3, <1>5 DEF CronStep
  <2>2. PICK v : v = IF cron[s].new # NoVersion THEN cron[s].new ELSE cron[s].old
    OBVIOUS
  <2>3. PICK arm : arm = ShouldArm(cron[s].prod, v)
    OBVIOUS
  <2>4. SetVersion(v, [versions[v] EXCEPT !.armed = arm]) \/ UNCHANGED versions
    BY <1>5, <2>2, <2>3 DEF CronStep
  <2>5. arm \in BOOLEAN
    BY <2>3 DEF ShouldArm
  <2>6. v \in Versions => [versions[v] EXCEPT !.armed = arm] \in VersionRow
    BY <1>1, <2>5, FieldsTyped
  <2>7. versions' \in [Versions -> VersionRow]
    BY <1>1, <2>4, <2>6, RowsTyped
  <2>8. (NoFault \/ Fault) /\ UNCHANGED <<project, main, dep, call, pass>>
    BY <1>5 DEF CronStep
  <2>9. QED BY <2>1, <2>7, <2>8, CountsTyped DEF TypeOK
<1>6. QED BY <1>4, <1>5

\* The calls that archive, wake and destroy a version.
LEMMA CallsTyped ==
  ASSUME TypeOK, NEW a \in Actors,
         \/ (\E v \in Versions : ArchiveRead(a, v) /\ a \in Slots) \/ ArchiveCheck(a) \/ ArchiveDrain(a) \/ ArchiveRoute(a)
         \/ ArchiveSet(a) \/ (a \in Slots /\ (Waking(a) \/ Destroying(a)))
  PROVE  TypeOK'
<1>1. call \in [Actors -> Call] /\ versions \in [Versions -> VersionRow] /\ project \in Project
  BY DEF TypeOK
<1>2. CASE \/ (\E v \in Versions : ArchiveRead(a, v) \/ WakeRead(a, v) \/ DestroyRead(a, v))
           \/ ArchiveCheck(a) \/ DestroyCheck(a)
  <2>1. call' \in [Actors -> Call]
    BY <1>1, <1>2, MovesTyped, PCFacts DEF ArchiveRead, WakeRead, DestroyRead, ArchiveCheck, DestroyCheck
  <2>2. NoFault /\ UNCHANGED <<project, versions, main, dep, cron, pass>>
    BY <1>2 DEF ArchiveRead, WakeRead, DestroyRead, ArchiveCheck, DestroyCheck
  <2>3. QED BY <1>1, <2>1, <2>2, RestTyped
<1>3. CASE ArchiveDrain(a) \/ ArchiveSet(a) \/ DestroyDrain(a) \/ DestroyData(a) \/ DestroySet(a)
  <2>1. call' \in [Actors -> Call]
    BY <1>1, <1>3, MovesTyped, PCFacts DEF ArchiveDrain, ArchiveSet, DestroyDrain, DestroyData, DestroySet
  <2>2. PICK v : \/ \E x \in {"draining", "archived", "destroyed"} : Dropping(SetStatus(v, x) /\ UNCHANGED project)
                 \/ Dropping(SetVersion(v, [versions[v] EXCEPT !.data = FALSE]) /\ UNCHANGED project)
    BY <1>3 DEF ArchiveDrain, ArchiveSet, DestroyDrain, DestroyData, DestroySet
  <2>3. versions' \in [Versions -> VersionRow] /\ project' = project /\ Counts'
    BY <2>2, DroppingTyped
  <2>4. UNCHANGED <<main, dep, cron, pass>>
    BY <1>3 DEF ArchiveDrain, ArchiveSet, DestroyDrain, DestroyData, DestroySet
  <2>5. QED BY <2>1, <2>3, <2>4 DEF TypeOK, Counts
<1>4. CASE ArchiveRoute(a) \/ DestroyRoute(a)
  <2>1. call' \in [Actors -> Call]
    BY <1>1, <1>4, MovesTyped, PCFacts DEF ArchiveRoute, DestroyRoute
  <2>2. versions' \in [Versions -> VersionRow]
    BY <1>4, SwitchTyped DEF ArchiveRoute, DestroyRoute
  <2>3. (NoFault \/ Fault) /\ UNCHANGED <<project, main, dep, cron, pass>>
    BY <1>4 DEF ArchiveRoute, DestroyRoute
  <2>4. QED BY <1>1, <2>1, <2>2, <2>3, RestTyped
<1>5. CASE WakeRoute(a) \/ WakeReady(a)
  <2>1. call' \in [Actors -> Call]
    BY <1>1, <1>5, MovesTyped, PCFacts DEF WakeRoute, WakeReady
  <2>2. PICK v : v = call[a].v
    OBVIOUS
  <2>3. ASSUME SetVersion(v, [versions[v] EXCEPT !.route = "active", !.up = "recorded"])
        PROVE  versions' \in [Versions -> VersionRow]
    <3>1. PICK row : row = [versions[v] EXCEPT !.route = "active", !.up = "recorded"]
      OBVIOUS
    <3>2. v \in Versions => row \in VersionRow
      BY <1>1, <3>1, FieldsTyped
    <3>3. SetVersion(v, row)
      BY <2>3, <3>1
    <3>4. QED BY <1>1, <3>2, <3>3, RowsTyped
  <2>4. ASSUME \E u \in IF v \in Elastic THEN {"recorded", "elsewhere"} ELSE {versions[v].up} :
                 SetVersion(v, [versions[v] EXCEPT !.status = "ready", !.up = u])
        PROVE  versions' \in [Versions -> VersionRow]
    <3>1. PICK u \in IF v \in Elastic THEN {"recorded", "elsewhere"} ELSE {versions[v].up} :
                 SetVersion(v, [versions[v] EXCEPT !.status = "ready", !.up = u])
      BY <2>4
    <3>2. v \in Versions => versions[v] \in VersionRow
      BY <1>1
    <3>3. v \in Versions => u \in {"down", "recorded", "elsewhere"}
      BY <3>1, <3>2 DEF VersionRow
    <3>4. PICK row : row = [versions[v] EXCEPT !.status = "ready", !.up = u]
      OBVIOUS
    <3>5. v \in Versions => row \in VersionRow
      BY <3>2, <3>3, <3>4, FieldsTyped
    <3>6. SetVersion(v, row)
      BY <3>1, <3>4
    <3>7. QED BY <1>1, <3>5, <3>6, RowsTyped
  <2>5. versions' \in [Versions -> VersionRow]
    <3>1. CASE UNCHANGED versions
      BY <1>1, <3>1
    <3>2. CASE WakeRoute(a)
      BY <2>2, <2>3, <3>1, <3>2 DEF WakeRoute
    <3>3. CASE WakeReady(a)
      BY <2>2, <2>4, <3>1, <3>3 DEF WakeReady
    <3>4. QED BY <1>5, <3>2, <3>3
  <2>6. (NoFault \/ Fault) /\ UNCHANGED <<project, main, dep, cron, pass>>
    BY <1>5 DEF WakeRoute, WakeReady
  <2>7. QED BY <1>1, <2>1, <2>5, <2>6, RestTyped
<1>6. QED BY <1>2, <1>3, <1>4, <1>5 DEF Waking, Destroying

\* The reaper's pass.
LEMMA ReaperTyped ==
  ASSUME TypeOK,
         ReaperLists \/ ReaperReadsProject \/ ReaperEnds \/ KeepExpires \/ (\E v \in Versions : ReaperTries(v))
  PROVE  TypeOK'
<1>1. call \in [Actors -> Call] /\ pass \in Pass /\ project \in Project /\ Reaper \in Actors
  BY ActorFacts DEF TypeOK
<1>2. NoPass \in Pass
  BY DEF NoPass, NewProject, Pass, Project, Prods
<1>3. pass' \in Pass
  <2>1. CASE ReaperLists
    <3>1. PICK rows \in SUBSET Versions : pass' = [NoPass EXCEPT !.pc = "listed", !.rows = rows]
      BY <2>1 DEF ReaperLists
    <3>2. QED BY <1>2, <3>1 DEF Pass
  <2>2. CASE ReaperReadsProject
    BY <1>1, <2>2 DEF ReaperReadsProject, Pass
  <2>3. CASE \E v \in Versions : ReaperTries(v)
    BY <1>1, <2>3 DEF ReaperTries, Pass
  <2>4. QED BY <1>1, <1>2, <2>1, <2>2, <2>3 DEF ReaperEnds, KeepExpires
<1>4. call' \in [Actors -> Call]
  <2>1. ASSUME NEW v \in Versions PROVE [NoCall EXCEPT !.v = v, !.pc = "acheck"] \in Call
    BY PCFacts DEF NoCall, Call, PCs, Prods
  <2>2. QED BY <1>1, <2>1, CallTyped DEF ReaperLists, ReaperReadsProject, ReaperEnds, KeepExpires, ReaperTries
<1>5. project' \in Project
  BY <1>1 DEF ReaperLists, ReaperReadsProject, ReaperEnds, KeepExpires, ReaperTries, Project
<1>6. NoFault /\ UNCHANGED <<versions, main, dep, cron>>
  BY DEF ReaperLists, ReaperReadsProject, ReaperEnds, KeepExpires, ReaperTries
<1>7. QED BY <1>3, <1>4, <1>5, <1>6, CountsTyped DEF TypeOK

\* Pins, moves, and calls that are cut short.
LEMMA AsidesTyped ==
  ASSUME TypeOK, (\E v \in Versions : Pin(v) \/ Unpin(v) \/ ReplicaMoves(v)) \/ (\E a \in Actors : CutShort(a))
  PROVE  TypeOK'
<1>1. CASE \E v \in Versions : Pin(v) \/ Unpin(v) \/ ReplicaMoves(v)
  <2>1. PICK v \in Versions : Pin(v) \/ Unpin(v) \/ ReplicaMoves(v)
    BY <1>1
  <2>2. versions \in [Versions -> VersionRow] /\ versions[v] \in VersionRow
    BY DEF TypeOK
  <2>3. versions' \in [Versions -> VersionRow]
    BY <2>1, <2>2, FieldsTyped, RowsTyped DEF Pin, Unpin, ReplicaMoves
  <2>4. NoFault /\ UNCHANGED <<project, main, dep, call, cron, pass>>
    BY <2>1 DEF Pin, Unpin, ReplicaMoves
  <2>5. QED BY <2>3, <2>4, CountsTyped DEF TypeOK
<1>2. CASE \E a \in Actors : CutShort(a)
  <2>1. PICK a \in Actors : CutShort(a)
    BY <1>2
  <2>2. call' \in [Actors -> Call]
    BY <2>1, MovesTyped DEF CutShort, TypeOK
  <2>3. NoPass \in Pass /\ NoCron \in Cron
    BY DEF NoPass, NewProject, Pass, Project, Prods, NoCron, Cron
  <2>4. pass' \in Pass /\ cron' \in [Slots -> Cron]
    BY <2>1, <2>3 DEF CutShort, TypeOK
  <2>5. faults' \in 0..MaxFaults /\ cuts' \in 0..MaxCuts
    BY <2>1, BoundsAssumption DEF CutShort, TypeOK
  <2>6. QED BY <2>1, <2>2, <2>4, <2>5 DEF CutShort, TypeOK
<1>3. QED BY <1>1, <1>2

LEMMA TypeNext == ASSUME TypeOK, [Next]_vars PROVE TypeOK'
<1>1. CASE Next
  BY <1>1, ActorFacts, DeployingTyped, AsidesTyped, PromotingTyped, CronTyped, CallsTyped, ReaperTyped DEF Next, Archiving
<1>2. CASE UNCHANGED vars
  BY <1>2 DEF vars, TypeOK
<1>3. QED BY <1>1, <1>2

LEMMA TypeInit == ASSUME Init PROVE TypeOK
<1>1. NewProject \in Project
  BY DEF NewProject, Project, Prods
<1>2. versions \in [Versions -> VersionRow] /\ dep \in [Versions -> Deploy]
  BY DEF Init, VersionRow, Deploy
<1>3. NoCall \in Call /\ NoCron \in Cron /\ NoPass \in Pass
  BY <1>1, CallFacts DEF NoCron, Cron, NoPass, Pass, Prods
<1>4. 0 \in 0..MaxFaults /\ 0 \in 0..MaxCuts
  BY BoundsAssumption
<1>5. QED BY <1>1, <1>2, <1>3, <1>4 DEF Init, TypeOK

\* However many calls are under way and whatever fails, every row, call and pass keeps its type.
THEOREM TypesKept == Spec => []TypeOK
BY TypeInit, TypeNext, PTL DEF Spec
-----------------------------------------------------------------------------
(* Promotions at the same time.                                             *)

\* Versions are deployed, promoted, pinned and moved, and nothing else is asked of them.
OnlyPromotes == Ops \subseteq {"promote", "pin", "move"}

\* The promotions that have drained a version and not yet given it its route back.
Owes(k, v) == k.old = v /\ k.pc \in {"deactivate", "gate", "commit", "undoagain", "undoold"}

RacePCs == {"idle", "undoagain", "undoold"} \cup PromotePCs

\* A promotion knows what it promotes and what it drains; nothing is drained before the first prod.
RaceCall(k) ==
  /\ k.pc \in RacePCs /\ (k.pc # "idle" => k.v \in Versions)
  /\ k.pc \in {"drain", "deactivate", "undoagain", "undoold"} => k.old \in Versions
  /\ project.prod = NoVersion => k.old = NoVersion

\* Prod's route is on, or a promotion under way owes it: its commit moves prod on, or its undoing
\* switches the route on again.
RaceFits ==
  /\ pass.pc = "off"
  /\ \A a \in Actors : RaceCall(call[a])
  /\ project.prod = NoVersion => \A v \in Versions : dep[v].pc = "bootstrap" => versions[v].route = "active"
  /\ \A v \in Versions : project.prod = v =>
       /\ versions[v].route # "none"
       /\ versions[v].route = "active" \/ \E a \in Actors : Owes(call[a], v)

RaceInv == OnlyPromotes /\ TypeOK /\ (faults = 0 /\ cuts = 0 => RaceFits)

\* What is known when a step leaves both counts at zero.
Unfailing == RaceInv /\ RaceFits /\ ~Fault

LEMMA RoutesSet ==
  ASSUME versions \in [Versions -> VersionRow], NEW v \in Versions, NEW x \in {"active", "inactive"}, SetRoute(v, x)
  PROVE  \A u \in Versions :
           versions'[u].route = IF u = v /\ versions[u].route # "none" THEN x ELSE versions[u].route
<1>1. PICK r \in VersionRow : r = versions[v]
  OBVIOUS
<1>2. Switched(r, x).route = IF r.route = "none" THEN "none" ELSE x
  BY DEF Switched, VersionRow
<1>3. QED BY <1>1, <1>2 DEF SetRoute, SetVersion

\* The step of a promotion that leaves prod: the route of prod is switched on, or off by a promotion
\* that now owes it, or is left and still owed.
LEMMA RaceGoes ==
  ASSUME Unfailing, NEW a \in Actors, NEW k, SetCall(a, k), RaceCall(k), UNCHANGED <<project, dep, pass>>,
         project.prod = NoVersion => UNCHANGED versions,
         \A v \in Versions : project.prod = v =>
           \/ versions'[v].route = "active"
           \/ versions'[v].route # "none" /\ Owes(k, v)
           \/ versions'[v].route = versions[v].route /\ (Owes(call[a], v) => Owes(k, v))
  PROVE  RaceFits'
<1>1. call'[a] = k /\ \A b \in Actors : b # a => call'[b] = call[b]
  BY DEF SetCall, Unfailing, RaceInv, TypeOK
<1>2. \A b \in Actors : RaceCall(call'[b])
  BY <1>1 DEF Unfailing, RaceFits
<1>3. (\A b \in Actors : RaceCall(call[b]))'
  BY <1>2 DEF RaceCall
<1>4. ASSUME NEW v \in Versions, project.prod = v
      PROVE  /\ versions'[v].route # "none"
             /\ versions'[v].route = "active" \/ \E b \in Actors : Owes(call'[b], v)
  BY <1>1, <1>4 DEF Unfailing, RaceFits
<1>5. (\A v \in Versions : project.prod = v =>
         /\ versions[v].route # "none"
         /\ versions[v].route = "active" \/ \E b \in Actors : Owes(call[b], v))'
  BY <1>4 DEF Owes
<1>6. QED BY <1>3, <1>5 DEF RaceFits, Unfailing

\* A step beside the promotions switches no route off.
LEMMA RaceAside ==
  ASSUME Unfailing, UNCHANGED <<project, call, pass>>,
         \A v \in Versions : versions'[v].route \in {versions[v].route, "active"},
         \A v \in Versions : dep'[v].pc = "bootstrap" => dep[v].pc = "bootstrap" \/ versions'[v].route = "active"
  PROVE  RaceFits'
<1>1. (\A a \in Actors : RaceCall(call[a]))'
  BY DEF Unfailing, RaceFits, RaceCall
<1>2. (\A v \in Versions : project.prod = v =>
         /\ versions[v].route # "none"
         /\ versions[v].route = "active" \/ \E a \in Actors : Owes(call[a], v))'
  BY DEF Unfailing, RaceFits, Owes
<1>3. (project.prod = NoVersion => \A v \in Versions : dep[v].pc = "bootstrap" => versions[v].route = "active")'
  BY DEF Unfailing, RaceFits
<1>4. QED BY <1>1, <1>2, <1>3 DEF RaceFits, Unfailing

\* A promotion begins, is refused, or passes a check.
LEMMA RaceChecks ==
  ASSUME Unfailing, NEW s \in Slots,
         \/ (\E v \in Versions : PromoteRead(s, v)) \/ PromoteValidate(s) \/ PromoteReadProd(s)
         \/ HardGate(s) \/ Activate(s)
  PROVE  RaceFits'
<1>1. s \in Actors /\ RaceCall(call[s]) /\ call[s] \in Call /\ project.prod \in Prods
  BY ActorFacts DEF Unfailing, RaceFits, RaceInv, TypeOK, Project
<1>2. RaceCall(NoCall) /\ NoCall.pc = "idle"
  BY DEF RaceCall, NoCall, RacePCs
<1>3. UNCHANGED <<project, versions, dep, pass>>
  BY DEF PromoteRead, PromoteValidate, PromoteReadProd, HardGate, Activate
<1>4. CASE \E v \in Versions : PromoteRead(s, v)
  <2>1. PICK v \in Versions : PromoteRead(s, v)
    BY <1>4
  <2>2. PICK k : k = [NoCall EXCEPT !.v = v, !.pc = "validate"]
    OBVIOUS
  <2>3. RaceCall(k)
    BY <2>2 DEF RaceCall, NoCall, RacePCs, PromotePCs
  <2>4. SetCall(s, k) /\ call[s].pc = "idle"
    BY <2>1, <2>2 DEF PromoteRead, Start
  <2>5. \A u : ~Owes(call[s], u)
    BY <2>4 DEF Owes
  <2>6. QED BY <1>1, <1>3, <2>3, <2>4, <2>5, RaceGoes
<1>5. CASE Done(s) /\ call[s].pc \in {"validate", "readprod", "activate"}
  <2>1. \A u : ~Owes(call[s], u)
    BY <1>5 DEF Owes
  <2>2. SetCall(s, NoCall)
    BY <1>5 DEF Done
  <2>3. QED BY <1>1, <1>2, <1>3, <2>1, <2>2, RaceGoes
<1>6. CASE PromoteValidate(s) /\ Go(s, "readprod")
  <2>1. PICK k : k = [call[s] EXCEPT !.pc = "readprod"]
    OBVIOUS
  <2>2. RaceCall(k) /\ SetCall(s, k) /\ \A u : ~Owes(call[s], u)
    BY <1>1, <1>6, <2>1 DEF RaceCall, RacePCs, PromotePCs, Owes, Go, PromoteValidate, Call
  <2>3. QED BY <1>1, <1>3, <2>2, RaceGoes
<1>7. CASE HardGate(s)
  <2>1. PICK k : k = [call[s] EXCEPT !.pc = "commit"]
    OBVIOUS
  <2>2. SetCall(s, k) /\ call[s].pc = "gate"
    BY <1>7, <2>1 DEF HardGate, Go, Unfailing
  <2>3. RaceCall(k) /\ \A u : Owes(call[s], u) => Owes(k, u)
    BY <1>1, <2>1, <2>2 DEF RaceCall, RacePCs, PromotePCs, Owes, Call
  <2>4. QED BY <1>1, <1>3, <2>2, <2>3, RaceGoes
<1>8. CASE PromoteReadProd(s) /\ ~Done(s)
  <2>1. PICK old : old = IF project.prod \in Versions THEN project.prod ELSE NoVersion
    OBVIOUS
  <2>2. PICK pc : pc = IF old = NoVersion THEN "gate" ELSE "drain"
    OBVIOUS
  <2>3. PICK k : k = [call[s] EXCEPT !.pc = pc, !.old = old, !.was = project.prod]
    OBVIOUS
  <2>4. SetCall(s, k) /\ call[s].pc = "readprod"
    BY <1>8, <2>1, <2>2, <2>3 DEF PromoteReadProd
  <2>5. RaceCall(k) /\ \A u : ~Owes(call[s], u)
    BY <1>1, <2>1, <2>2, <2>3, <2>4, ActorFacts DEF RaceCall, RacePCs, PromotePCs, Owes, Call
  <2>6. QED BY <1>1, <1>3, <2>4, <2>5, RaceGoes
<1>9. CASE Activate(s)
  BY <1>5, <1>9 DEF Activate, Unfailing
<1>10. QED BY <1>4, <1>5, <1>6, <1>7, <1>8, <1>9 DEF PromoteValidate, PromoteReadProd

\* The old prod is drained, and given its route back.
LEMMA RaceRoutes ==
  ASSUME Unfailing, NEW s \in Slots, DrainOld(s) \/ DeactivateOld(s) \/ UndoOld(s)
  PROVE  RaceFits'
<1>1. s \in Actors /\ RaceCall(call[s]) /\ call[s] \in Call /\ versions \in [Versions -> VersionRow]
  BY ActorFacts DEF Unfailing, RaceFits, RaceInv, TypeOK
<1>2. call[s].old \in Versions /\ project.prod # NoVersion
  BY <1>1, ActorFacts DEF RaceCall, DrainOld, DeactivateOld, UndoOld
<1>3. UNCHANGED <<project, dep, pass>>
  BY DEF DrainOld, DeactivateOld, UndoOld, Dropping, Unfailing
<1>4. \A v \in Versions : project.prod = v => versions[v].route # "none"
  BY DEF Unfailing, RaceFits
<1>5. CASE DrainOld(s) \/ DeactivateOld(s)
  <2>1. PICK pc \in {"deactivate", "gate"} : Go(s, pc)
    BY <1>5 DEF DrainOld, DeactivateOld, Unfailing
  <2>2. PICK k : k = [call[s] EXCEPT !.pc = pc]
    OBVIOUS
  <2>3. SetRoute(call[s].old, "inactive") /\ SetCall(s, k)
    BY <1>5, <2>1, <2>2 DEF DrainOld, DeactivateOld, Dropping, Unfailing, Go
  <2>4. RaceCall(k) /\ Owes(k, call[s].old) /\ \A u : Owes(call[s], u) => Owes(k, u)
    BY <1>1, <1>2, <1>5, <2>1, <2>2 DEF RaceCall, RacePCs, PromotePCs, Owes, Call, DrainOld, DeactivateOld
  <2>5. \A u \in Versions :
          versions'[u].route = IF u = call[s].old /\ versions[u].route # "none" THEN "inactive" ELSE versions[u].route
    BY <1>1, <1>2, <2>3, RoutesSet
  <2>6. QED BY <1>1, <1>2, <1>3, <1>4, <2>3, <2>4, <2>5, RaceGoes
<1>6. CASE UndoOld(s)
  <2>1. SetRoute(call[s].old, "active")
    BY <1>6 DEF UndoOld, Dropping, Unfailing
  <2>2. PICK k : k = IF call[s].pc = "undoagain" THEN [call[s] EXCEPT !.pc = "undoold"] ELSE NoCall
    OBVIOUS
  <2>3. SetCall(s, k)
    BY <1>6, <2>2 DEF UndoOld, Go, Done
  <2>4. RaceCall(k)
    BY <1>1, <1>2, <1>6, <2>2 DEF RaceCall, RacePCs, PromotePCs, Call, NoCall, UndoOld
  <2>5. \A u : Owes(call[s], u) => u = call[s].old
    BY DEF Owes
  <2>6. \A u \in Versions :
          versions'[u].route = IF u = call[s].old /\ versions[u].route # "none" THEN "active" ELSE versions[u].route
    BY <1>1, <1>2, <2>1, RoutesSet
  <2>7. QED BY <1>1, <1>2, <1>3, <1>4, <2>3, <2>4, <2>5, <2>6, RaceGoes
<1>7. QED BY <1>5, <1>6

\* The commit: prod moves to a version whose route it switches on, or the promotion is undone.
LEMMA RaceCommit == ASSUME Unfailing, NEW s \in Slots, Commit(s) PROVE RaceFits'
<1>1. /\ s \in Actors /\ RaceCall(call[s]) /\ call[s] \in Call /\ versions \in [Versions -> VersionRow]
      /\ project \in Project /\ call[s].pc = "commit" /\ call \in [Actors -> Call]
  BY ActorFacts DEF Unfailing, RaceFits, RaceInv, TypeOK, Commit
<1>2. call[s].v \in Versions /\ call[s].old \in Versions \cup {NoVersion}
  BY <1>1 DEF RaceCall, Call
<1>3. PICK v \in Versions : v = call[s].v
  BY <1>2
<1>4. CASE /\ CASHolds(call[s].old) /\ versions[v].route # "none"
           /\ project' = Swapped(call[s].old, v) /\ SetRoute(v, "active") /\ Go(s, "activate")
  <2>1. project'.prod = v /\ v # NoVersion
    BY <1>3, <1>4, ActorFacts DEF Swapped
  <2>2. versions'[v].route = "active"
    BY <1>1, <1>3, <1>4, RoutesSet
  <2>3. PICK k : k = [call[s] EXCEPT !.pc = "activate"]
    OBVIOUS
  <2>4. k.pc = "activate" /\ k.v = v
    BY <1>1, <1>3, <2>3 DEF Call
  <2>5. call'[s] = k /\ \A b \in Actors : b # s => call'[b] = call[b]
    BY <1>1, <1>4, <2>3 DEF Go, SetCall
  <2>6. (\A b \in Actors : RaceCall(call[b]))'
    <3>1. ASSUME NEW b \in Actors PROVE RaceCall(call[b])'
      <4>1. CASE b = s
        BY <2>1, <2>4, <2>5, <4>1 DEF RaceCall, RacePCs, PromotePCs
      <4>2. CASE b # s
        BY <2>1, <2>5, <4>2 DEF RaceCall, Unfailing, RaceFits
      <4>3. QED BY <4>1, <4>2
    <3>2. QED BY <3>1
  <2>7. QED BY <1>4, <2>1, <2>2, <2>6 DEF RaceFits, Unfailing, Commit
<1>5. CASE UndoOldNext(s) /\ UNCHANGED <<project, versions>>
  <2>1. PICK k : k = IF call[s].old = NoVersion THEN NoCall ELSE [call[s] EXCEPT !.pc = "undoagain"]
    OBVIOUS
  <2>2. SetCall(s, k)
    BY <1>5, <2>1 DEF UndoOldNext, Done, Go
  <2>3. RaceCall(k)
    BY <1>1, <1>2, <2>1 DEF RaceCall, RacePCs, PromotePCs, Call, NoCall
  <2>4. \A u \in Versions : Owes(call[s], u) => Owes(k, u)
    BY <1>1, <2>1, ActorFacts DEF Owes, Call
  <2>5. UNCHANGED <<dep, pass>>
    BY DEF Commit
  <2>6. QED BY <1>1, <1>5, <2>2, <2>3, <2>4, <2>5, RaceGoes
<1>6. QED BY <1>3, <1>4, <1>5 DEF Commit, Unfailing

\* The undoing of what only a fault brings about is not reached.
LEMMA RacePromoting == ASSUME Unfailing, NEW s \in Slots, Promoting(s) PROVE RaceFits'
<1>1. call[s].pc \in RacePCs
  BY ActorFacts DEF Unfailing, RaceFits, RaceCall
<1>2. ~GateRefused(s) /\ ~UndoCAS(s) /\ ~UndoTarget(s)
  BY <1>1 DEF RacePCs, PromotePCs, GateRefused, UndoCAS, UndoTarget
<1>3. QED BY <1>2, RaceChecks, RaceRoutes, RaceCommit DEF Promoting

\* A deploy: the first one to end makes its version prod, whose route it has switched on.
LEMMA RaceDeploying == ASSUME Unfailing, NEW v \in Versions, Deploying(v) PROVE RaceFits'
<1>1. versions \in [Versions -> VersionRow] /\ versions[v] \in VersionRow /\ dep \in [Versions -> Deploy] /\ dep[v] \in Deploy
  BY DEF Unfailing, RaceInv, TypeOK
<1>2. CASE DeployReadsProject(v)
  <2>1. \A u \in Versions : dep'[u].pc = "bootstrap" => dep[u].pc = "bootstrap"
    BY <1>1, <1>2 DEF DeployReadsProject
  <2>2. QED BY <1>2, <2>1, RaceAside DEF DeployReadsProject
<1>3. CASE DeployBundle(v)
  <2>1. PICK row : row = [versions[v] EXCEPT !.armed = dep[v].arm]
    OBVIOUS
  <2>2. row.route = versions[v].route
    BY <1>1, <2>1 DEF VersionRow
  <2>3. versions' = [versions EXCEPT ![v] = row]
    BY <1>3, <2>1 DEF DeployBundle, SetVersion
  <2>4. \A u \in Versions : dep'[u].pc = "bootstrap" => dep[u].pc = "bootstrap"
    BY <1>1, <1>3 DEF DeployBundle, Deploy
  <2>5. QED BY <1>1, <1>3, <2>2, <2>3, <2>4, RaceAside DEF DeployBundle
<1>4. CASE DeployServes(v)
  <2>1. PICK row : row = [versions[v] EXCEPT !.status = "ready", !.route = "active", !.up = "recorded"]
    OBVIOUS
  <2>2. row.route = "active"
    BY <1>1, <2>1 DEF VersionRow
  <2>3. versions' = [versions EXCEPT ![v] = row]
    BY <1>4, <2>1 DEF DeployServes, SetVersion
  <2>4. \A u \in Versions : u # v => dep'[u] = dep[u]
    BY <1>1, <1>4 DEF DeployServes
  <2>5. QED BY <1>1, <1>4, <2>2, <2>3, <2>4, RaceAside DEF DeployServes
<1>5. CASE DeployBootstraps(v)
  <2>1. \A u \in Versions : dep'[u].pc = "bootstrap" => dep[u].pc = "bootstrap"
    BY <1>1, <1>5 DEF DeployBootstraps, Deploy
  <2>2. CASE UNCHANGED project
    BY <1>5, <2>1, <2>2, RaceAside DEF DeployBootstraps
  <2>3. CASE project.prod = NoVersion /\ project' = Swapped(NoVersion, v)
    <3>1. project'.prod = v /\ v # NoVersion
      BY <2>3, ActorFacts DEF Swapped
    <3>2. versions'[v].route = "active"
      BY <1>5, <2>3 DEF DeployBootstraps, Unfailing, RaceFits
    <3>3. (\A a \in Actors : RaceCall(call[a]))'
      BY <1>5, <3>1 DEF DeployBootstraps, Unfailing, RaceFits, RaceCall
    <3>4. QED BY <1>5, <3>1, <3>2, <3>3 DEF RaceFits, Unfailing, DeployBootstraps
  <2>4. QED BY <1>5, <2>2, <2>3 DEF DeployBootstraps, CASHolds
<1>6. QED BY <1>2, <1>3, <1>4, <1>5 DEF Deploying

\* Pins, moves and reconciliations.
LEMMA RaceAsides ==
  ASSUME Unfailing, \/ \E v \in Versions : Pin(v) \/ Unpin(v) \/ ReplicaMoves(v)
               \/ \E s \in Slots : CronReads(s) \/ CronStep(s)
  PROVE  RaceFits'
<1>1. versions \in [Versions -> VersionRow]
  BY DEF Unfailing, RaceInv, TypeOK
<1>2. \A v \in Versions :
        /\ \A x : [versions[v] EXCEPT !.pinned = x].route = versions[v].route
        /\ \A x : [versions[v] EXCEPT !.up = x].route = versions[v].route
        /\ \A x : [versions[v] EXCEPT !.armed = x].route = versions[v].route
  BY <1>1 DEF VersionRow
<1>3. ASSUME NEW v, NEW row, SetVersion(v, row), v \in Versions => row.route = versions[v].route
      PROVE  \A u \in Versions : versions'[u].route = versions[u].route
  BY <1>1, <1>3 DEF SetVersion
<1>4. CASE \E v \in Versions : Pin(v) \/ Unpin(v) \/ ReplicaMoves(v)
  <2>1. \A u \in Versions : versions'[u].route = versions[u].route
    BY <1>2, <1>3, <1>4 DEF Pin, Unpin, ReplicaMoves
  <2>2. QED BY <1>4, <2>1, RaceAside DEF Pin, Unpin, ReplicaMoves
<1>5. CASE \E s \in Slots : CronReads(s) \/ CronStep(s)
  <2>1. UNCHANGED versions \/ \E v, arm : SetVersion(v, [versions[v] EXCEPT !.armed = arm])
    BY <1>5 DEF CronReads, CronStep
  <2>2. \A u \in Versions : versions'[u].route = versions[u].route
    <3>1. CASE \E v, arm : SetVersion(v, [versions[v] EXCEPT !.armed = arm])
      <4>1. PICK v, arm : SetVersion(v, [versions[v] EXCEPT !.armed = arm])
        BY <3>1
      <4>2. QED BY <1>2, <1>3, <4>1
    <3>2. QED BY <2>1, <3>1
  <2>3. QED BY <1>5, <2>2, RaceAside DEF CronReads, CronStep
<1>6. QED BY <1>4, <1>5

LEMMA RaceNext == ASSUME RaceInv, [Next]_vars PROVE RaceInv'
<1>1. TypeOK' /\ OnlyPromotes'
  BY TypeNext DEF RaceInv, OnlyPromotes
<1>2. ASSUME faults' = 0, cuts' = 0 PROVE RaceFits'
  <2>1. faults \in Nat /\ cuts \in Nat
    BY CountsTyped DEF RaceInv
  <2>2. ~Fault
    BY <1>2, <2>1 DEF Fault
  <2>3. \A a \in Actors : ~CutShort(a)
    BY <1>2, <2>1 DEF CutShort
  <2>4. [Next]_vars => faults = 0 /\ cuts = 0
    <3>1. CASE UNCHANGED vars
      BY <1>2, <3>1 DEF vars
    <3>2. CASE Next
      <4>1. faults' = faults /\ cuts' = cuts
        BY <2>2, <2>3, <3>2 DEF Next, NoFault, Dropping, Deploying, DeployReadsProject, DeployBundle, DeployServes,
          DeployBootstraps, Promoting, PromoteRead, PromoteValidate, PromoteReadProd, DrainOld, DeactivateOld, HardGate,
          GateRefused, Commit, Activate, UndoCAS, UndoTarget, UndoOld, CronReads, CronStep, Archiving, ArchiveRead,
          ArchiveCheck, ArchiveDrain, ArchiveRoute, ArchiveSet, ReaperLists, ReaperReadsProject, ReaperTries, ReaperEnds,
          KeepExpires, Waking, WakeRead, WakeRoute, WakeReady, Destroying, DestroyRead, DestroyCheck, DestroyDrain,
          DestroyRoute, DestroyData, DestroySet, Pin, Unpin, ReplicaMoves
      <4>2. QED BY <1>2, <4>1
    <3>3. QED BY <3>1, <3>2
  <2>5. Unfailing
    BY <2>2, <2>4 DEF Unfailing, RaceInv
  <2>6. CASE UNCHANGED vars
    BY <2>5, <2>6 DEF vars, Unfailing, RaceFits, RaceCall, Owes
  <2>7. CASE Next
    <3>1. ~Archiving /\ \A s \in Slots : ~Waking(s) /\ ~Destroying(s)
      <4>1. \A a \in Actors : call[a].pc \in RacePCs
        BY <2>5 DEF Unfailing, RaceFits, RaceCall
      <4>2. "archive" \notin Ops /\ "wake" \notin Ops /\ "destroy" \notin Ops /\ "reap" \notin Ops
        BY DEF RaceInv, OnlyPromotes
      <4>3. pass.pc = "off"
        BY <2>5 DEF Unfailing, RaceFits
      <4>4. ~Archiving
        BY <4>1, <4>2, <4>3 DEF Archiving, ArchiveRead, ArchiveCheck, ArchiveDrain, ArchiveRoute, ArchiveSet,
          ReaperLists, ReaperReadsProject, ReaperEnds, KeepExpires, ReaperTries, RacePCs, PromotePCs
      <4>5. ASSUME NEW s \in Slots PROVE ~Waking(s) /\ ~Destroying(s)
        <5>1. call[s].pc \in RacePCs
          BY <4>1, ActorFacts
        <5>2. QED BY <4>2, <5>1 DEF Waking, WakeRead, WakeRoute, WakeReady, Destroying, DestroyRead, DestroyCheck,
                DestroyDrain, DestroyRoute, DestroyData, DestroySet, RacePCs, PromotePCs
      <4>6. QED BY <4>4, <4>5
    <3>2. QED BY <2>3, <2>5, <2>7, <3>1, RaceDeploying, RaceAsides, RacePromoting DEF Next
  <2>8. QED BY <2>6, <2>7
<1>3. QED BY <1>1, <1>2 DEF RaceInv

LEMMA RaceInit == ASSUME OnlyPromotes, Init PROVE RaceInv
<1>1. RaceFits
  BY ActorFacts DEF Init, RaceFits, RaceCall, RacePCs, NoCall, NoPass, NewProject
<1>2. QED BY <1>1, TypeInit DEF RaceInv

\* However many promotions overlap, with deploys, reconciliations, pins and moves in between: once no
\* call is under way the route of prod is on, as long as no call to the registry or a tool has failed.
THEOREM RacesGoOnServing == OnlyPromotes /\ Spec => [](faults = 0 => ProdServes)
<1>1. OnlyPromotes /\ Spec => []RaceInv
  <2>1. RaceInv /\ [Next]_vars => RaceInv'
    BY RaceNext
  <2>2. OnlyPromotes /\ Init => RaceInv
    BY RaceInit
  <2>3. QED BY <2>1, <2>2, PTL DEF Spec
<1>2. RaceInv => (faults = 0 => ProdServes)
  <2>1. SUFFICES ASSUME RaceInv, faults = 0, cuts = 0, Quiet, NEW v \in Versions, project.prod = v
                 PROVE  versions[v].route = "active"
    BY DEF ProdServes
  <2>2. RaceFits
    BY <2>1 DEF RaceInv
  <2>3. \A a \in Actors : call[a].pc = "idle"
    BY <2>1 DEF Quiet, Underway
  <2>4. QED BY <2>1, <2>2, <2>3 DEF RaceFits, Owes
<1>3. QED BY <1>1, <1>2, PTL

===============================================================================
