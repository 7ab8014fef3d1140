--------------------------- MODULE VersionRows_proofs -------------------------
(***************************************************************************)
(* Proofs about the rows of versions: for any number of versions, requests *)
(* and stops of cellpd, what is left of a version fits together.           *)
(***************************************************************************)
EXTENDS VersionRows, TLAPS, FiniteSetTheorems

VRow == [status : VrStatuses, job : {"none", "pending", "claimed", "undoing", "done"},
         stage : {"none", "parent", "rows"}, route : {"none", "on", "off"},
         kin : BOOLEAN, aged : BOOLEAN]

Request == [op : {"create", "archive", "wake", "promote", "destroy"}, v : VrVersions,
            at : {"insert", "enqueue", "drain", "route", "branch", "ready", "commit", "last"}]

VrTyped ==
  /\ vrows \in [VrVersions -> VRow] /\ vprod \in VrVersions \cup {NoVr}
  /\ calls \in [Callers -> Request \cup {NoRequest}]

\* The steps a request goes through.
StepsOf(op) ==
  IF op = "create" THEN {"insert", "enqueue"}
  ELSE IF op = "archive" THEN {"drain", "route", "last"}
  ELSE IF op = "wake" THEN {"route", "ready"}
  ELSE IF op = "promote" THEN {"commit"} ELSE {"drain", "route", "branch", "last"}

\* A version that only creates and its deploy may be at.
Early == {"none", "pending", "deploying"}

\* What a row's own columns say fits together.
RowFits(row) ==
  /\ row.status = "none" => row.job = "none" /\ row.route = "none" /\ ~row.kin
  /\ row.status = "pending" => row.job \in {"none", "pending"}
  /\ row.job = "pending" => row.status = "pending"
  /\ row.job = "claimed" <=> row.status = "deploying"
  /\ row.aged => row.status = "destroyed"

\* A request and the row it is about.
RequestFits(k, row) ==
  /\ k.op # "create" => row.status \notin Early /\ ~row.aged
  /\ k.at = "enqueue" => row.status = "pending" /\ row.job = "none"

RowsFit ==
  /\ \A v \in VrVersions : RowFits(vrows[v])
  /\ vprod # NoVr => vrows[vprod].status # "none"

RequestsFit ==
  /\ \A c \in Callers : calls[c] # NoRequest =>
       calls[c].at \in StepsOf(calls[c].op) /\ RequestFits(calls[c], vrows[calls[c].v])
  /\ \A c, d \in Callers :
       calls[c].at = "enqueue" /\ calls[d].at = "enqueue" /\ calls[c].v = calls[d].v => c = d

\* The request that will take a draining version further.
Drainer(k) == k.op \in {"archive", "destroy"} /\ k.at \in {"route", "branch", "last"}

\* A version that is pending without a job, or draining, is in a request's hands.
InHand ==
  \A v \in VrVersions \ cut :
    /\ vrows[v].status = "pending" /\ vrows[v].job # "pending" =>
         \E c \in Callers : calls[c].v = v /\ calls[c].at = "enqueue"
    /\ vrows[v].status = "draining" => \E c \in Callers : calls[c].v = v /\ Drainer(calls[c])

Creators == {c \in Callers : calls[c].op = "create"}

QueueHeld == IsFiniteSet(PendingJobs) /\ QueueOvershoot

VrInv == VrTyped /\ RowsFit /\ RequestsFit /\ InHand /\ QueueHeld

-----------------------------------------------------------------------------
\* NoRequest is no request.
LEMMA RequestFacts ==
  /\ NoRequest \notin Request /\ NoRequest.op = "none" /\ NoRequest.at = "none" /\ NoRequest.v = NoVr
  /\ NoVr \notin VrVersions
  /\ \A k \in Request : k # NoRequest /\ k.v \in VrVersions
BY VrAssumption DEF NoRequest, Request

\* Counting what is pending and who is creating.
LEMMA QueueFacts ==
  /\ IsFiniteSet(Creators) /\ Cardinality(Creators) \in Nat /\ Cardinality(Callers) \in Nat
  /\ Cardinality(Creators) <= Cardinality(Callers) /\ QueueMax \in Nat \ {0}
  /\ QueueOvershoot <=>
       Cardinality(PendingJobs) + Cardinality(Creators) <= QueueMax + Cardinality(Callers) - 1
<1>1. IsFiniteSet(Callers) /\ QueueMax \in Nat \ {0} /\ Creators \subseteq Callers
  BY VrAssumption DEF Creators
<1>2. QED BY <1>1, FS_Subset, FS_CardinalityType DEF QueueOvershoot, Creators

\* Neither more jobs nor more creates.
LEMMA QueueShrinks ==
  ASSUME QueueHeld, PendingJobs' \subseteq PendingJobs, Creators' \subseteq Creators PROVE QueueHeld'
<1>1. /\ IsFiniteSet(PendingJobs') /\ Cardinality(PendingJobs') <= Cardinality(PendingJobs)
      /\ Cardinality(PendingJobs') \in Nat /\ Cardinality(PendingJobs) \in Nat
  BY FS_Subset, FS_CardinalityType DEF QueueHeld
<1>2. /\ Cardinality(Creators') <= Cardinality(Creators)
      /\ Cardinality(Creators') \in Nat /\ Cardinality(Creators) \in Nat
  BY QueueFacts, FS_Subset, FS_CardinalityType
<1>3. Cardinality(Callers) \in Nat /\ QueueMax \in Nat
  BY QueueFacts
<1>4. Cardinality(PendingJobs') + Cardinality(Creators') <= QueueMax + Cardinality(Callers) - 1
  BY <1>1, <1>2, <1>3, QueueFacts DEF QueueHeld
<1>5. QED BY <1>1, <1>4 DEF QueueHeld, QueueOvershoot, Creators

-----------------------------------------------------------------------------
\* The invariant holds at first.
LEMMA VrInitially == VrInit => VrInv
<1> SUFFICES ASSUME VrInit PROVE VrInv
  OBVIOUS
<1>1. NoVersionRow \in VRow /\ RowFits(NoVersionRow) /\ NoVersionRow.status = "none" /\ NoVersionRow.job = "none"
  BY DEF NoVersionRow, VRow, VrStatuses, RowFits
<1>2. /\ vrows = [v \in VrVersions |-> NoVersionRow] /\ vprod = NoVr
      /\ calls = [c \in Callers |-> NoRequest]
  BY DEF VrInit
<1>3. VrTyped
  BY <1>1, <1>2 DEF VrTyped
<1>4. RowsFit /\ RequestsFit /\ InHand
  BY <1>1, <1>2, RequestFacts DEF RowsFit, RequestsFit, InHand
<1>5. PendingJobs = {} /\ Creators = {}
  BY <1>1, <1>2, RequestFacts DEF PendingJobs, Creators
<1>6. QueueHeld
  BY <1>5, FS_EmptySet, QueueFacts DEF QueueHeld
<1>7. QED BY <1>3, <1>4, <1>6 DEF VrInv

\* It implies the property the runs check.
LEMMA VrSuffices == VrInv => RowsSound
<1> SUFFICES ASSUME VrInv PROVE RowsSound
  OBVIOUS
<1>1. VrTypeOK
  BY DEF VrInv, VrTyped, VRow, Request, VrTypeOK
<1>2. NoDanglingRows
  BY DEF VrInv, VrTyped, RowsFit, RowFits, NoDanglingRows, Is
<1>3. StuckOnlyByStop
  BY DEF VrInv, InHand, StuckOnlyByStop, Is, Busy
<1>4. QED BY <1>1, <1>2, <1>3 DEF RowsSound, VrInv, QueueHeld

-----------------------------------------------------------------------------
(* The rows a step writes.                                                  *)

\* A row is written, and no other.
Only(v) == \A w \in VrVersions \ {v} : vrows'[w] = vrows[w]

\* A step of a version's own life, no request's.
LEMMA LifeMoves ==
  ASSUME VrInv, NEW v \in VrVersions, vrows' \in [VrVersions -> VRow], Only(v),
         RowFits(vrows'[v]), vrows'[v].status # "none", vprod' \in {vprod, v}, UNCHANGED <<calls, cut>>,
         vrows'[v].job = "pending" => vrows[v].job = "pending",
         vrows'[v].status \in {"pending", "draining"} => vrows'[v].status = vrows[v].status,
         vrows'[v].status = "pending" => vrows'[v].job = vrows[v].job,
         \A c \in Callers : calls[c].v = v => RequestFits(calls[c], vrows'[v])
  PROVE  VrInv'
<1>1. VrTyped'
  BY DEF VrInv, VrTyped
<1>2. RowsFit'
  BY RequestFacts DEF VrInv, VrTyped, RowsFit, Only, RowFits
<1>3. RequestsFit'
  <2>1. ASSUME NEW c \in Callers, calls[c] # NoRequest
        PROVE  RequestFits(calls[c], vrows'[calls[c].v])
    <3>1. calls[c].v \in VrVersions
      BY <2>1, RequestFacts DEF VrInv, VrTyped
    <3>2. QED BY <2>1, <3>1 DEF VrInv, RequestsFit, Only
  <2>2. QED BY <2>1 DEF VrInv, RequestsFit, RequestFits
<1>4. InHand'
  BY DEF VrInv, InHand, Only, Drainer
<1>5. PendingJobs' \subseteq PendingJobs /\ Creators' = Creators
  BY DEF PendingJobs, Only, Creators
<1>6. QED BY <1>1, <1>2, <1>3, <1>4, <1>5, QueueShrinks DEF VrInv

\* A step of a request, other than a create, at its version.
LEMMA RequestMoves ==
  ASSUME VrInv, NEW c \in Callers, calls[c] # NoRequest, calls[c].op # "create",
         vrows' \in [VrVersions -> VRow], Only(calls[c].v), vprod' \in {vprod, calls[c].v}, UNCHANGED cut,
         RowFits(vrows'[calls[c].v]), vrows'[calls[c].v].status \notin Early, ~vrows'[calls[c].v].aged,
         vrows'[calls[c].v].job = vrows[calls[c].v].job,
         NEW k \in Request \cup {NoRequest}, calls' = [calls EXCEPT ![c] = k],
         k # NoRequest => k.op = calls[c].op /\ k.v = calls[c].v /\ k.at \in StepsOf(k.op),
         vrows'[calls[c].v].status = "draining" =>
           \/ k # NoRequest /\ Drainer(k)
           \/ vrows[calls[c].v].status = "draining" /\ ~Drainer(calls[c])
  PROVE  VrInv'
<1> DEFINE v == calls[c].v
<1>1. v \in VrVersions /\ calls' \in [Callers -> Request \cup {NoRequest}] /\ calls'[c] = k
      /\ \A d \in Callers \ {c} : calls'[d] = calls[d]
  BY RequestFacts DEF VrInv, VrTyped
<1>2. vrows[v].status \notin Early
  BY DEF VrInv, RequestsFit, RequestFits
<1>3. k # NoRequest => k.op # "create" /\ k.at # "enqueue"
  BY DEF StepsOf
<1>4. VrTyped'
  BY <1>1 DEF VrInv, VrTyped
<1>5. RowsFit'
  BY <1>1, RequestFacts DEF VrInv, VrTyped, RowsFit, Only, Early
<1>6. RequestsFit'
  <2>1. ASSUME NEW d \in Callers, d # c, calls[d] # NoRequest
        PROVE  RequestFits(calls[d], vrows'[calls[d].v])
    <3>1. calls[d].v \in VrVersions /\ RequestFits(calls[d], vrows[calls[d].v])
      BY <2>1, RequestFacts DEF VrInv, VrTyped, RequestsFit
    <3>2. CASE calls[d].v = v
      BY <1>2, <3>1, <3>2 DEF RequestFits, Early
    <3>3. CASE calls[d].v # v
      BY <3>1, <3>3 DEF Only
    <3>4. QED BY <3>2, <3>3
  <2>2. k # NoRequest => RequestFits(k, vrows'[v])
    BY <1>3 DEF RequestFits
  <2>3. ASSUME NEW d \in Callers, calls'[d] # NoRequest
        PROVE  calls'[d].at \in StepsOf(calls'[d].op) /\ RequestFits(calls'[d], vrows'[calls'[d].v])
    BY <1>1, <2>1, <2>2, <2>3 DEF VrInv, RequestsFit
  <2>4. \A d \in Callers : calls'[d].at = "enqueue" => d # c /\ calls'[d] = calls[d]
    BY <1>1, <1>3, RequestFacts
  <2>5. ASSUME NEW d \in Callers, NEW e \in Callers, calls'[d].at = "enqueue", calls'[e].at = "enqueue",
               calls'[d].v = calls'[e].v
        PROVE  d = e
    BY <2>4, <2>5 DEF VrInv, RequestsFit
  <2>6. QED BY <2>3, <2>5 DEF RequestsFit, RequestFits
<1>7. InHand'
  <2>1. ASSUME NEW w \in VrVersions \ cut, vrows'[w].status = "pending", vrows'[w].job # "pending"
        PROVE  \E d \in Callers : calls'[d].v = w /\ calls'[d].at = "enqueue"
    <3>1. w # v /\ vrows'[w] = vrows[w]
      BY <2>1 DEF Only, Early
    <3>2. PICK d \in Callers : calls[d].v = w /\ calls[d].at = "enqueue"
      BY <2>1, <3>1 DEF VrInv, InHand
    <3>3. QED BY <1>1, <3>1, <3>2
  <2>2. ASSUME NEW w \in VrVersions \ cut, vrows'[w].status = "draining"
        PROVE  \E d \in Callers : calls'[d].v = w /\ Drainer(calls'[d])
    <3>1. CASE w = v /\ k # NoRequest /\ Drainer(k)
      BY <1>1, <3>1
    <3>2. CASE ~(w = v /\ k # NoRequest /\ Drainer(k))
      <4>1. w = v => vrows[v].status = "draining" /\ ~Drainer(calls[c])
        BY <2>2, <3>2
      <4>2. vrows[w].status = "draining"
        BY <2>2, <4>1 DEF Only
      <4>3. PICK d \in Callers : calls[d].v = w /\ Drainer(calls[d])
        BY <4>2 DEF VrInv, InHand
      <4>4. d # c
        BY <4>1, <4>3
      <4>5. QED BY <1>1, <4>3, <4>4
    <3>3. QED BY <3>1, <3>2
  <2>3. QED BY <2>1, <2>2 DEF InHand, Drainer
<1>8. PendingJobs' \subseteq PendingJobs /\ Creators' \subseteq Creators
  BY <1>1, <1>3, RequestFacts DEF PendingJobs, Only, Creators
<1>9. QED BY <1>4, <1>5, <1>6, <1>7, <1>8, QueueShrinks DEF VrInv

\* A request begins at a version whose rows stay.
LEMMA RequestOpens ==
  ASSUME VrInv, NEW c \in Callers, calls[c] = NoRequest, NEW k \in Request,
         calls' = [calls EXCEPT ![c] = k], UNCHANGED <<vrows, vprod, cut>>,
         k.at \in StepsOf(k.op), k.at # "enqueue",
         k.op = "create" => RoomInQueue,
         k.op # "create" => vrows[k.v].status \notin Early /\ vrows[k.v].status # "destroyed"
  PROVE  VrInv'
<1>1. calls' \in [Callers -> Request \cup {NoRequest}] /\ calls'[c] = k
      /\ \A d \in Callers \ {c} : calls'[d] = calls[d]
  BY DEF VrInv, VrTyped
<1>2. VrTyped' /\ RowsFit'
  BY <1>1 DEF VrInv, VrTyped, RowsFit
<1>3. RequestsFit'
  <2>1. RequestFits(k, vrows[k.v])
    <3>1. k.v \in VrVersions
      BY RequestFacts
    <3>2. QED BY <3>1 DEF VrInv, RowsFit, RowFits, RequestFits
  <2>2. ASSUME NEW d \in Callers, calls'[d] # NoRequest
        PROVE  calls'[d].at \in StepsOf(calls'[d].op) /\ RequestFits(calls'[d], vrows'[calls'[d].v])
    BY <1>1, <2>1, <2>2 DEF VrInv, RequestsFit
  <2>3. ASSUME NEW d \in Callers, NEW e \in Callers, calls'[d].at = "enqueue", calls'[e].at = "enqueue",
               calls'[d].v = calls'[e].v
        PROVE  d = e
    BY <1>1, <2>3 DEF VrInv, RequestsFit
  <2>4. QED BY <2>2, <2>3 DEF RequestsFit, RequestFits
<1>4. InHand'
  <2>1. ASSUME NEW d \in Callers, calls[d].at = "enqueue" \/ Drainer(calls[d]) PROVE calls'[d] = calls[d]
    BY <1>1, <2>1, RequestFacts DEF Drainer
  <2>2. ASSUME NEW w \in VrVersions \ cut, vrows[w].status = "pending", vrows[w].job # "pending"
        PROVE  \E d \in Callers : calls'[d].v = w /\ calls'[d].at = "enqueue"
    BY <2>1, <2>2 DEF VrInv, InHand
  <2>3. ASSUME NEW w \in VrVersions \ cut, vrows[w].status = "draining"
        PROVE  \E d \in Callers : calls'[d].v = w /\ Drainer(calls'[d])
    <3>1. PICK d \in Callers : calls[d].v = w /\ Drainer(calls[d])
      BY <2>3 DEF VrInv, InHand
    <3>2. QED BY <2>1, <3>1
  <2>4. QED BY <2>2, <2>3 DEF InHand, Drainer
<1>5. PendingJobs' = PendingJobs
  BY DEF PendingJobs
<1>6. QueueHeld'
  <2>1. CASE k.op # "create"
    <3>1. Creators' \subseteq Creators
      BY <1>1, <2>1 DEF Creators
    <3>2. QED BY <1>5, <3>1, QueueShrinks DEF VrInv
  <2>2. CASE k.op = "create"
    <3>1. IsFiniteSet(PendingJobs') /\ Cardinality(PendingJobs') \in Nat /\ Cardinality(PendingJobs') < QueueMax
      BY <1>5, <2>2, FS_CardinalityType DEF VrInv, QueueHeld, RoomInQueue
    <3>2. Creators' \subseteq Callers /\ IsFiniteSet(Callers) /\ QueueMax \in Nat
      BY VrAssumption DEF Creators
    <3>3. /\ Cardinality(Creators') \in Nat /\ Cardinality(Callers) \in Nat
          /\ Cardinality(Creators') <= Cardinality(Callers)
      BY <3>2, FS_Subset, FS_CardinalityType
    <3>4. Cardinality(PendingJobs') + Cardinality(Creators') <= QueueMax + Cardinality(Callers) - 1
      BY <3>1, <3>2, <3>3
    <3>5. QED BY <3>1, <3>4 DEF QueueHeld, QueueOvershoot, Creators
  <2>3. QED BY <2>1, <2>2
<1>7. QED BY <1>2, <1>3, <1>4, <1>6 DEF VrInv

-----------------------------------------------------------------------------
(* What the assignments of the actions make of a row.                       *)

\* UpdateVersionStatus writes a row.
LEMMA RowStatus ==
  ASSUME NEW r \in VRow, NEW s \in VrStatuses PROVE [r EXCEPT !.status = s, !.aged = FALSE] \in VRow
BY DEF VRow

\* SetRouteActive writes a row.
LEMMA RowRoute ==
  ASSUME NEW r \in VRow, NEW t \in {"none", "on", "off"} PROVE [r EXCEPT !.route = t] \in VRow
BY DEF VRow

\* UpdateVersionStatus of a row that is there.
LEMMA StatusWrites ==
  ASSUME VrTyped, NEW v \in VrVersions, NEW s \in VrStatuses, vrows[v].status # "none", VrStatus(v, s)
  PROVE  /\ vrows' \in [VrVersions -> VRow] /\ Only(v)
         /\ vrows'[v].status = s /\ ~vrows'[v].aged
         /\ vrows'[v].job = vrows[v].job /\ vrows'[v].kin = vrows[v].kin /\ vrows'[v].route = vrows[v].route
<1>1. vrows' = [vrows EXCEPT ![v].status = s, ![v].aged = FALSE]
  BY DEF VrStatus, Is
<1>2. vrows' \in [VrVersions -> VRow]
  BY <1>1, RowStatus DEF VrTyped
<1>3. Only(v)
  BY <1>1 DEF VrTyped, Only
<1>4. vrows[v] \in VRow
  BY DEF VrTyped
<1>5. vrows'[v].status = s /\ vrows'[v].job = vrows[v].job /\ vrows'[v].route = vrows[v].route
  BY <1>1, <1>4 DEF VrTyped, VRow
<1>6. vrows'[v].kin = vrows[v].kin /\ ~vrows'[v].aged
  BY <1>1, <1>4 DEF VrTyped, VRow
<1>7. QED BY <1>2, <1>3, <1>5, <1>6

\* SetRoute or SetRouteActive of a row that is there.
LEMMA RouteWrites ==
  ASSUME VrTyped, NEW v \in VrVersions, NEW t \in {"none", "on", "off"},
         vrows' = [vrows EXCEPT ![v].route = t]
  PROVE  /\ vrows' \in [VrVersions -> VRow] /\ Only(v) /\ vrows'[v].route = t
         /\ vrows'[v].status = vrows[v].status /\ vrows'[v].job = vrows[v].job
         /\ vrows'[v].aged = vrows[v].aged /\ vrows'[v].kin = vrows[v].kin
<1>1. vrows' \in [VrVersions -> VRow]
  BY RowRoute DEF VrTyped
<1>2. Only(v)
  BY DEF VrTyped, Only
<1>3. vrows[v] \in VRow
  BY DEF VrTyped
<1>4. vrows'[v].status = vrows[v].status /\ vrows'[v].job = vrows[v].job /\ vrows'[v].route = t
  BY <1>3 DEF VrTyped, VRow
<1>5. vrows'[v].aged = vrows[v].aged /\ vrows'[v].kin = vrows[v].kin
  BY <1>3 DEF VrTyped, VRow
<1>6. QED BY <1>1, <1>2, <1>4, <1>5

-----------------------------------------------------------------------------
(* Requests.                                                                *)

LEMMA OpensKeep ==
  ASSUME VrInv, NEW c \in Callers, NEW v \in VrVersions,
         \/ CreateCounts(c, v) \/ ArchiveReads(c, v) \/ VrWakeReads(c, v)
         \/ PromoteReads(c, v) \/ DestroyReads(c, v)
  PROVE  VrInv'
<1>1. ASSUME NEW op \in {"create", "archive", "wake", "promote", "destroy"},
             NEW at \in {"insert", "route", "drain", "commit"}, Opens(c, op, v, at), UNCHANGED vrows, Keep,
             at \in StepsOf(op), op = "create" => RoomInQueue,
             op # "create" => vrows[v].status \notin Early \cup {"destroyed"}
      PROVE  VrInv'
  <2>1. PICK k \in Request : k = [op |-> op, v |-> v, at |-> at]
    BY DEF Request
  <2>2. k.op = op /\ k.v = v /\ k.at = at /\ calls' = [calls EXCEPT ![c] = k] /\ calls[c] = NoRequest
    BY <1>1, <2>1 DEF Opens
  <2>3. QED BY <1>1, <2>2, RequestOpens DEF Keep
<1>2. CASE CreateCounts(c, v)
  BY <1>1, <1>2 DEF CreateCounts, StepsOf
<1>3. CASE ArchiveReads(c, v)
  BY <1>1, <1>3 DEF ArchiveReads, StepsOf, Is, Early
<1>4. CASE VrWakeReads(c, v)
  BY <1>1, <1>4 DEF VrWakeReads, StepsOf, Is, Early
<1>5. CASE PromoteReads(c, v)
  BY <1>1, <1>5 DEF PromoteReads, StepsOf, Is, Early
<1>6. CASE DestroyReads(c, v)
  BY <1>1, <1>6 DEF DestroyReads, StepsOf, Is, Early
<1>7. QED BY <1>2, <1>3, <1>4, <1>5, <1>6

\* A request is at one of its steps, and its version is past its deploy.
LEMMA RequestAt ==
  ASSUME VrInv, NEW c \in Callers, calls[c] # NoRequest
  PROVE  /\ calls[c] \in Request /\ calls[c].v \in VrVersions /\ calls[c].at \in StepsOf(calls[c].op)
         /\ calls[c].op # "create" =>
              /\ vrows[calls[c].v].status \notin Early /\ ~vrows[calls[c].v].aged
              /\ vrows[calls[c].v].job \notin {"pending", "claimed"}
<1>1. calls[c] \in Request /\ calls[c].v \in VrVersions /\ calls[c].at \in StepsOf(calls[c].op)
  BY RequestFacts DEF VrInv, VrTyped, RequestsFit
<1>2. RequestFits(calls[c], vrows[calls[c].v]) /\ RowFits(vrows[calls[c].v])
  BY <1>1 DEF VrInv, RequestsFit, RowsFit
<1>3. QED BY <1>1, <1>2 DEF RequestFits, RowFits, Early

\* The next step of a request.
LEMMA RequestSteps ==
  ASSUME VrInv, NEW c \in Callers, calls[c] \in Request,
         NEW at \in {"enqueue", "route", "branch", "ready", "last"}, Step(c, at)
  PROVE  \E k \in Request : /\ calls' = [calls EXCEPT ![c] = k]
                            /\ k.op = calls[c].op /\ k.v = calls[c].v /\ k.at = at
<1>1. [calls[c] EXCEPT !.at = at] \in Request
  BY DEF Request
<1>2. PICK k \in Request : k = [calls[c] EXCEPT !.at = at]
  BY <1>1
<1>3. k.op = calls[c].op /\ k.v = calls[c].v /\ k.at = at
  BY <1>2 DEF Request
<1>4. calls' = [calls EXCEPT ![c] = k]
  BY <1>2 DEF Step
<1>5. QED BY <1>3, <1>4

\* A row that says what its status should.
LEMMA LateFits ==
  ASSUME NEW r, r.status \notin Early, ~r.aged, r.job \notin {"pending", "claimed"} PROVE RowFits(r)
BY DEF RowFits, Early

\* A request writes the status of its version.
LEMMA StatusKeeps ==
  ASSUME VrInv, NEW c \in Callers, Drains(c) \/ LastStatus(c) \/ WakeEnds(c) PROVE VrInv'
<1> DEFINE v == calls[c].v
<1>1. calls[c].at \in {"drain", "last", "ready"} /\ UNCHANGED <<vprod, cut>>
  BY DEF Drains, LastStatus, WakeEnds, In, Keep
<1>2. calls[c] # NoRequest
  BY <1>1, RequestFacts
<1>3. calls[c] \in Request /\ v \in VrVersions /\ calls[c].at \in StepsOf(calls[c].op) /\ calls[c].op # "create"
  BY <1>1, <1>2, RequestAt DEF StepsOf
<1>4. vrows[v].status \notin Early /\ ~vrows[v].aged /\ vrows[v].job \notin {"pending", "claimed"}
  BY <1>2, <1>3, RequestAt
<1>5. ASSUME NEW s \in VrStatuses \ Early, VrStatus(v, s), NEW k \in Request \cup {NoRequest},
             calls' = [calls EXCEPT ![c] = k],
             k # NoRequest => k.op = calls[c].op /\ k.v = v /\ k.at \in StepsOf(k.op),
             s = "draining" => k # NoRequest /\ Drainer(k)
      PROVE  VrInv'
  <2>1. /\ vrows' \in [VrVersions -> VRow] /\ Only(v) /\ vrows'[v].status = s /\ ~vrows'[v].aged
        /\ vrows'[v].job = vrows[v].job
    BY <1>3, <1>4, <1>5, StatusWrites DEF VrInv, Early
  <2>2. RowFits(vrows'[v])
    BY <1>4, <1>5, <2>1, LateFits
  <2>3. QED BY <1>1, <1>2, <1>3, <1>5, <2>1, <2>2, RequestMoves
<1>6. CASE Drains(c)
  <2>1. calls[c].at = "drain" /\ VrStatus(v, "draining") /\ Step(c, "route")
    BY <1>6 DEF Drains
  <2>2. PICK k \in Request : calls' = [calls EXCEPT ![c] = k] /\ k.op = calls[c].op /\ k.v = v /\ k.at = "route"
    BY <1>3, <2>1, RequestSteps
  <2>3. k.op \in {"archive", "destroy"}
    BY <1>3, <2>1, <2>2 DEF Request, StepsOf
  <2>4. k # NoRequest /\ Drainer(k) /\ k.at \in StepsOf(k.op)
    BY <2>2, <2>3, RequestFacts DEF Drainer, StepsOf
  <2>5. "draining" \in VrStatuses \ Early
    BY DEF VrStatuses, Early
  <2>6. QED BY <1>5, <2>1, <2>2, <2>4, <2>5
<1>7. CASE LastStatus(c) \/ WakeEnds(c)
  <2>1. PICK s \in {"ready", "archived", "destroyed"} : VrStatus(v, s)
    BY <1>7 DEF LastStatus, WakeEnds
  <2>2. s \in VrStatuses \ Early /\ s # "draining"
    BY DEF VrStatuses, Early
  <2>3. calls' = [calls EXCEPT ![c] = NoRequest]
    BY <1>7 DEF LastStatus, WakeEnds, Over
  <2>4. QED BY <1>5, <2>1, <2>2, <2>3
<1>8. QED BY <1>6, <1>7

\* A request switches the route of its version, or leaves its row.
LEMMA RouteKeeps ==
  ASSUME VrInv, NEW c \in Callers,
         Unroutes(c) \/ WakeRoutes(c) \/ VrPromoteCommits(c) \/ DestroysBranch(c)
  PROVE  VrInv'
<1> DEFINE v == calls[c].v
<1>1. calls[c].op \in {"archive", "destroy", "wake", "promote"} /\ UNCHANGED cut
  BY DEF Unroutes, WakeRoutes, VrPromoteCommits, DestroysBranch, In, Keep
<1>2. calls[c] # NoRequest /\ calls[c].op # "create"
  BY <1>1, RequestFacts
<1>3. /\ calls[c] \in Request /\ v \in VrVersions /\ vrows[v].status \notin Early /\ ~vrows[v].aged
      /\ vrows[v].job \notin {"pending", "claimed"} /\ vrows[v].route \in {"none", "on", "off"}
  <2>1. vrows[v] \in VRow
    BY <1>2, RequestAt DEF VrInv, VrTyped
  <2>2. QED BY <1>2, <2>1, RequestAt DEF VRow
<1>4. \E t \in {"none", "on", "off"} : vrows' = [vrows EXCEPT ![v].route = t]
  <2>1. CASE Unroutes(c)
    BY <1>3, <2>1 DEF Unroutes, RouteOff
  <2>2. CASE WakeRoutes(c)
    BY <2>2 DEF WakeRoutes
  <2>3. ASSUME UNCHANGED vrows PROVE vrows' = [vrows EXCEPT ![v].route = vrows[v].route]
    BY <1>3, <2>3 DEF VrInv, VrTyped, VRow
  <2>4. CASE VrPromoteCommits(c)
    BY <1>3, <2>3, <2>4 DEF VrPromoteCommits
  <2>5. CASE DestroysBranch(c)
    BY <1>3, <2>3, <2>5 DEF DestroysBranch
  <2>6. QED BY <2>1, <2>2, <2>4, <2>5
<1>5. /\ vrows' \in [VrVersions -> VRow] /\ Only(v)
      /\ vrows'[v].status = vrows[v].status /\ vrows'[v].job = vrows[v].job /\ ~vrows'[v].aged
  BY <1>3, <1>4, RouteWrites DEF VrInv
<1>6. RowFits(vrows'[v])
  BY <1>3, <1>5, LateFits
<1>7. vprod' \in {vprod, v}
  BY DEF Unroutes, WakeRoutes, VrPromoteCommits, DestroysBranch, Keep
<1>8. ASSUME NEW k \in Request \cup {NoRequest}, calls' = [calls EXCEPT ![c] = k],
             k # NoRequest => k.op = calls[c].op /\ k.v = v /\ k.at \in StepsOf(k.op),
             (k # NoRequest /\ Drainer(k)) \/ ~Drainer(calls[c])
      PROVE  VrInv'
  BY <1>1, <1>2, <1>3, <1>5, <1>6, <1>7, <1>8, RequestMoves
<1>9. CASE Unroutes(c) \/ DestroysBranch(c)
  <2>1. PICK at \in {"branch", "last"} : Step(c, at) /\ at \in StepsOf(calls[c].op)
    BY <1>9 DEF Unroutes, DestroysBranch, In, StepsOf
  <2>2. PICK k \in Request : calls' = [calls EXCEPT ![c] = k] /\ k.op = calls[c].op /\ k.v = v /\ k.at = at
    BY <1>3, <2>1, RequestSteps
  <2>3. k # NoRequest /\ Drainer(k)
    BY <1>9, <2>2, RequestFacts DEF Drainer, Unroutes, DestroysBranch, In
  <2>4. QED BY <1>8, <2>1, <2>2, <2>3
<1>10. CASE WakeRoutes(c)
  <2>1. Step(c, "ready") /\ calls[c].op = "wake"
    BY <1>10 DEF WakeRoutes, In
  <2>2. PICK k \in Request : calls' = [calls EXCEPT ![c] = k] /\ k.op = calls[c].op /\ k.v = v /\ k.at = "ready"
    BY <1>3, <2>1, RequestSteps
  <2>3. k.at \in StepsOf(k.op) /\ ~Drainer(calls[c])
    BY <2>1, <2>2 DEF Drainer, StepsOf
  <2>4. QED BY <1>8, <2>2, <2>3
<1>11. CASE VrPromoteCommits(c)
  <2>1. calls' = [calls EXCEPT ![c] = NoRequest] /\ ~Drainer(calls[c])
    BY <1>11 DEF VrPromoteCommits, In, Over, Drainer
  <2>2. QED BY <1>8, <2>1
<1>12. QED BY <1>9, <1>10, <1>11

\* POST /versions inserts the row, or finds it there.
LEMMA InsertsKeep == ASSUME VrInv, NEW c \in Callers, CreateInserts(c) PROVE VrInv'
<1> DEFINE v == calls[c].v
<1>1. /\ calls[c] # NoRequest /\ calls[c].op = "create" /\ calls[c].at = "insert"
      /\ UNCHANGED <<vprod, cut>>
  BY RequestFacts DEF CreateInserts, In, Keep
<1>2. calls[c] \in Request /\ v \in VrVersions
  BY <1>1, RequestAt
<1>3. CASE ~Is(v, {"none"})
  <2>1. UNCHANGED vrows /\ calls' = [calls EXCEPT ![c] = NoRequest]
    BY <1>3 DEF CreateInserts, Over
  <2>2. calls' \in [Callers -> Request \cup {NoRequest}] /\ calls'[c] = NoRequest
        /\ \A d \in Callers \ {c} : calls'[d] = calls[d]
    BY <2>1 DEF VrInv, VrTyped
  <2>3. VrTyped' /\ RowsFit'
    BY <1>1, <2>1, <2>2 DEF VrInv, VrTyped, RowsFit
  <2>4. RequestsFit'
    BY <2>1, <2>2, RequestFacts DEF VrInv, RequestsFit, RequestFits
  <2>5. ASSUME NEW d \in Callers, calls[d].at = "enqueue" \/ Drainer(calls[d]) PROVE calls'[d] = calls[d]
    BY <1>1, <2>2, <2>5 DEF Drainer
  <2>6. InHand'
    <3>1. ASSUME NEW w \in VrVersions \ cut, vrows[w].status = "pending", vrows[w].job # "pending"
          PROVE  \E d \in Callers : calls'[d].v = w /\ calls'[d].at = "enqueue"
      BY <2>5, <3>1 DEF VrInv, InHand
    <3>2. ASSUME NEW w \in VrVersions \ cut, vrows[w].status = "draining"
          PROVE  \E d \in Callers : calls'[d].v = w /\ Drainer(calls'[d])
      <4>1. PICK d \in Callers : calls[d].v = w /\ Drainer(calls[d])
        BY <3>2 DEF VrInv, InHand
      <4>2. QED BY <2>5, <4>1
    <3>3. QED BY <1>1, <2>1, <3>1, <3>2 DEF InHand, Drainer
  <2>7. PendingJobs' \subseteq PendingJobs /\ Creators' \subseteq Creators
    BY <2>1, <2>2, RequestFacts DEF PendingJobs, Creators
  <2>8. QED BY <2>3, <2>4, <2>6, <2>7, QueueShrinks DEF VrInv
<1>4. CASE Is(v, {"none"})
  <2>1. vrows' = [vrows EXCEPT ![v].status = "pending"] /\ Step(c, "enqueue") /\ vrows[v].status = "none"
    BY <1>4 DEF CreateInserts, Is
  <2>2. PICK k \in Request : calls' = [calls EXCEPT ![c] = k]
                            /\ k.op = "create" /\ k.v = v /\ k.at = "enqueue"
    BY <1>1, <1>2, <2>1, RequestSteps
  <2>3. calls' \in [Callers -> Request \cup {NoRequest}] /\ calls'[c] = k
        /\ \A d \in Callers \ {c} : calls'[d] = calls[d]
    BY <2>2 DEF VrInv, VrTyped
  <2>4. vrows[v] \in VRow /\ RowFits(vrows[v])
    BY <1>2 DEF VrInv, VrTyped, RowsFit
  <2>5. vrows' \in [VrVersions -> VRow] /\ Only(v)
    <3>1. [vrows[v] EXCEPT !.status = "pending"] \in VRow
      BY <2>4 DEF VRow, VrStatuses
    <3>2. QED BY <2>1, <3>1 DEF VrInv, VrTyped, Only
  <2>6. vrows'[v].status = "pending" /\ vrows'[v].job = "none"
    BY <1>2, <2>1, <2>4 DEF VrInv, VrTyped, VRow, RowFits
  <2>7. ~vrows'[v].aged
    <3>1. vrows'[v].aged = vrows[v].aged
      BY <1>2, <2>1, <2>4 DEF VrInv, VrTyped, VRow
    <3>2. QED BY <2>1, <2>4, <3>1 DEF RowFits
  <2>8. VrTyped'
    BY <1>1, <2>3, <2>5 DEF VrInv, VrTyped
  <2>9. RowsFit'
    <3>1. RowFits(vrows'[v])
      BY <2>6, <2>7 DEF RowFits
    <3>2. vprod # NoVr => vprod \in VrVersions \ {v}
      BY <2>1 DEF VrInv, VrTyped, RowsFit
    <3>3. QED BY <1>1, <2>5, <3>1, <3>2 DEF VrInv, RowsFit, Only
  <2>10. \A d \in Callers : calls[d] # NoRequest /\ calls[d].v = v
            => calls[d].op = "create" /\ calls[d].at # "enqueue"
    BY <2>1 DEF VrInv, RequestsFit, RequestFits, Early
  <2>11. RequestsFit'
    <3>1. ASSUME NEW d \in Callers, d # c, calls[d] # NoRequest
          PROVE  calls[d].at \in StepsOf(calls[d].op) /\ RequestFits(calls[d], vrows'[calls[d].v])
      <4>1. calls[d].v \in VrVersions /\ calls[d].at \in StepsOf(calls[d].op)
            /\ RequestFits(calls[d], vrows[calls[d].v])
        BY <3>1, RequestAt DEF VrInv, RequestsFit
      <4>2. CASE calls[d].v = v
        BY <2>10, <3>1, <4>1, <4>2 DEF RequestFits
      <4>3. CASE calls[d].v # v
        BY <2>5, <4>1, <4>3 DEF Only
      <4>4. QED BY <4>1, <4>2, <4>3
    <3>2. k.at \in StepsOf(k.op) /\ RequestFits(k, vrows'[k.v])
      BY <2>2, <2>6 DEF StepsOf, RequestFits
    <3>3. ASSUME NEW d \in Callers, calls'[d] # NoRequest
          PROVE  calls'[d].at \in StepsOf(calls'[d].op) /\ RequestFits(calls'[d], vrows'[calls'[d].v])
      BY <2>3, <3>1, <3>2, <3>3
    <3>4. ASSUME NEW d \in Callers, NEW e \in Callers, calls'[d].at = "enqueue", calls'[e].at = "enqueue",
                 calls'[d].v = calls'[e].v
          PROVE  d = e
      <4>1. \A b \in Callers \ {c} : calls'[b].at = "enqueue" => calls'[b].v # v /\ calls'[b] = calls[b]
        BY <2>3, <2>10, RequestFacts
      <4>2. QED BY <2>2, <2>3, <3>4, <4>1 DEF VrInv, RequestsFit
    <3>5. QED BY <3>3, <3>4 DEF RequestsFit, RequestFits
  <2>12. InHand'
    <3>1. ASSUME NEW d \in Callers, calls[d].at = "enqueue" \/ Drainer(calls[d]) PROVE calls'[d] = calls[d]
      BY <1>1, <2>3, <3>1 DEF Drainer
    <3>2. ASSUME NEW w \in VrVersions \ cut, vrows'[w].status = "pending", vrows'[w].job # "pending"
          PROVE  \E d \in Callers : calls'[d].v = w /\ calls'[d].at = "enqueue"
      <4>1. CASE w = v
        BY <2>2, <2>3, <4>1
      <4>2. CASE w # v
        BY <2>5, <3>1, <3>2, <4>2 DEF VrInv, InHand, Only
      <4>3. QED BY <4>1, <4>2
    <3>3. ASSUME NEW w \in VrVersions \ cut, vrows'[w].status = "draining"
          PROVE  \E d \in Callers : calls'[d].v = w /\ Drainer(calls'[d])
      <4>1. vrows[w].status = "draining"
        BY <2>5, <2>6, <3>3 DEF Only
      <4>2. PICK d \in Callers : calls[d].v = w /\ Drainer(calls[d])
        BY <4>1 DEF VrInv, InHand
      <4>3. QED BY <3>1, <4>2
    <3>4. QED BY <1>1, <3>2, <3>3 DEF InHand, Drainer
  <2>13. PendingJobs' \subseteq PendingJobs /\ Creators' \subseteq Creators
    BY <1>1, <2>3, <2>5, <2>6 DEF PendingJobs, Creators, Only
  <2>14. QED BY <2>8, <2>9, <2>11, <2>12, <2>13, QueueShrinks DEF VrInv
<1>5. QED BY <1>3, <1>4

\* ... and puts its deploy in the queue: one job more, one create less.
LEMMA EnqueuesKeep == ASSUME VrInv, NEW c \in Callers, CreateEnqueues(c) PROVE VrInv'
<1> DEFINE v == calls[c].v
<1>1. /\ calls[c] # NoRequest /\ calls[c].op = "create" /\ calls[c].at = "enqueue"
      /\ vrows' = [vrows EXCEPT ![v].job = "pending"] /\ calls' = [calls EXCEPT ![c] = NoRequest]
      /\ UNCHANGED <<vprod, cut>>
  BY RequestFacts DEF CreateEnqueues, In, Keep, Over
<1>2. calls[c] \in Request /\ v \in VrVersions
  BY <1>1, RequestAt
<1>3. calls' \in [Callers -> Request \cup {NoRequest}] /\ calls'[c] = NoRequest
      /\ \A d \in Callers \ {c} : calls'[d] = calls[d]
  BY <1>1 DEF VrInv, VrTyped
<1>4. vrows[v] \in VRow /\ RowFits(vrows[v]) /\ vrows[v].status = "pending" /\ vrows[v].job = "none"
  BY <1>1, <1>2 DEF VrInv, VrTyped, RowsFit, RequestsFit, RequestFits
<1>5. vrows' \in [VrVersions -> VRow] /\ Only(v)
  <2>1. [vrows[v] EXCEPT !.job = "pending"] \in VRow
    BY <1>4 DEF VRow
  <2>2. QED BY <1>1, <2>1 DEF VrInv, VrTyped, Only
<1>6. vrows'[v].status = "pending" /\ vrows'[v].job = "pending"
  BY <1>1, <1>2, <1>4 DEF VrInv, VrTyped, VRow
<1>7. ~vrows'[v].aged
  <2>1. vrows'[v].aged = vrows[v].aged
    BY <1>1, <1>2, <1>4 DEF VrInv, VrTyped, VRow
  <2>2. QED BY <1>4, <2>1 DEF RowFits
<1>8. VrTyped'
  BY <1>1, <1>3, <1>5 DEF VrInv, VrTyped
<1>9. RowsFit'
  <2>1. RowFits(vrows'[v])
    BY <1>6, <1>7 DEF RowFits
  <2>2. vprod # NoVr => vprod \in VrVersions
    BY DEF VrInv, VrTyped
  <2>3. QED BY <1>1, <1>5, <1>6, <2>1, <2>2 DEF VrInv, RowsFit, Only
<1>10. RequestsFit'
  <2>1. ASSUME NEW d \in Callers, d # c, calls[d] # NoRequest
        PROVE  calls[d].at \in StepsOf(calls[d].op) /\ RequestFits(calls[d], vrows'[calls[d].v])
    <3>1. calls[d].v \in VrVersions /\ calls[d].at \in StepsOf(calls[d].op)
          /\ RequestFits(calls[d], vrows[calls[d].v])
      BY <2>1, RequestAt DEF VrInv, RequestsFit
    <3>2. CASE calls[d].v = v
      <4>1. calls[d].at # "enqueue"
        BY <1>1, <2>1, <3>2 DEF VrInv, RequestsFit
      <4>2. calls[d].op = "create"
        BY <1>4, <3>1, <3>2 DEF RequestFits, Early
      <4>3. QED BY <3>1, <4>1, <4>2 DEF RequestFits
    <3>3. CASE calls[d].v # v
      BY <1>5, <3>1, <3>3 DEF Only
    <3>4. QED BY <3>2, <3>3
  <2>2. QED BY <1>3, <2>1, RequestFacts DEF VrInv, RequestsFit, RequestFits
<1>11. InHand'
  <2>1. ASSUME NEW w \in VrVersions \ cut, vrows'[w].status = "pending", vrows'[w].job # "pending"
        PROVE  \E d \in Callers : calls'[d].v = w /\ calls'[d].at = "enqueue"
    <3>1. w # v /\ vrows'[w] = vrows[w]
      BY <1>5, <1>6, <2>1 DEF Only
    <3>2. PICK d \in Callers : calls[d].v = w /\ calls[d].at = "enqueue"
      BY <2>1, <3>1 DEF VrInv, InHand
    <3>3. QED BY <1>3, <3>1, <3>2
  <2>2. ASSUME NEW w \in VrVersions \ cut, vrows'[w].status = "draining"
        PROVE  \E d \in Callers : calls'[d].v = w /\ Drainer(calls'[d])
    <3>1. vrows[w].status = "draining"
      BY <1>5, <1>6, <2>2 DEF Only
    <3>2. PICK d \in Callers : calls[d].v = w /\ Drainer(calls[d])
      BY <3>1 DEF VrInv, InHand
    <3>3. d # c
      BY <1>1, <3>2 DEF Drainer
    <3>4. QED BY <1>3, <3>2, <3>3
  <2>3. QED BY <1>1, <2>1, <2>2 DEF InHand, Drainer
<1>12. QueueHeld'
  <2>1. PendingJobs' = PendingJobs \cup {v} /\ Creators' = Creators \ {c} /\ c \in Creators
    BY <1>1, <1>2, <1>3, <1>5, <1>6, RequestFacts DEF PendingJobs, Creators, Only
  <2>2. /\ IsFiniteSet(PendingJobs') /\ Cardinality(PendingJobs') \in Nat /\ Cardinality(PendingJobs) \in Nat
        /\ Cardinality(PendingJobs') <= Cardinality(PendingJobs) + 1
    <3>1. IsFiniteSet(PendingJobs)
      BY DEF VrInv, QueueHeld
    <3>2. /\ IsFiniteSet(PendingJobs \cup {v})
          /\ \/ Cardinality(PendingJobs \cup {v}) = Cardinality(PendingJobs)
             \/ Cardinality(PendingJobs \cup {v}) = Cardinality(PendingJobs) + 1
      BY <3>1, FS_AddElement
    <3>3. Cardinality(PendingJobs) \in Nat
      BY <3>1, FS_CardinalityType
    <3>4. QED BY <2>1, <3>2, <3>3
  <2>3. Cardinality(Creators') = Cardinality(Creators) - 1
    BY <2>1, QueueFacts, FS_RemoveElement
  <2>4. Cardinality(PendingJobs) + Cardinality(Creators) <= QueueMax + Cardinality(Callers) - 1
    BY QueueFacts DEF VrInv, QueueHeld
  <2>5. Cardinality(PendingJobs') + Cardinality(Creators') <= QueueMax + Cardinality(Callers) - 1
    BY <2>2, <2>3, <2>4, QueueFacts
  <2>6. QED BY <2>2, <2>5 DEF QueueHeld, QueueOvershoot, Creators
<1>13. QED BY <1>8, <1>9, <1>10, <1>11, <1>12 DEF VrInv

-----------------------------------------------------------------------------
(* The deploy, and a version's life after it.                               *)

\* The requests of a version fit its row.
LEMMA RequestsOf ==
  ASSUME VrInv, NEW v \in VrVersions
  PROVE  /\ vrows[v] \in VRow /\ RowFits(vrows[v])
         /\ \A c \in Callers : calls[c].v = v => RequestFits(calls[c], vrows[v])
<1>1. \A c \in Callers : calls[c].v = v => calls[c] # NoRequest
  BY RequestFacts
<1>2. QED BY <1>1 DEF VrInv, VrTyped, RowsFit, RequestsFit

LEMMA DeployKeeps ==
  ASSUME VrInv, NEW v \in VrVersions,
         DeployClaims(v) \/ DeployChecksParent(v) \/ VrDeployServes(v) \/ VrDeployFails(v) \/ Compensated(v)
  PROVE  VrInv'
<1>1. /\ vrows[v] \in VRow /\ RowFits(vrows[v])
      /\ \A c \in Callers : calls[c].v = v => RequestFits(calls[c], vrows[v])
  BY RequestsOf
<1>2. vprod' \in {vprod, v} /\ UNCHANGED <<calls, cut>>
  BY DEF DeployClaims, DeployChecksParent, VrDeployServes, VrDeployFails, Compensated, Keep
<1>3. ASSUME vrows' \in [VrVersions -> VRow], Only(v), vrows'[v].aged = vrows[v].aged,
             vrows[v].job # "none", vrows'[v].job \in {"claimed", "undoing", "done"},
             vrows'[v].status \notin {"none", "pending"},
             vrows'[v].job = "claimed" <=> vrows'[v].status = "deploying",
             vrows'[v].status = vrows[v].status \/
               (vrows[v].status \in Early /\ vrows'[v].status # "draining")
      PROVE  VrInv'
  <2>1. RowFits(vrows'[v])
    BY <1>1, <1>3 DEF RowFits, Early
  <2>2. ASSUME NEW c \in Callers, calls[c].v = v PROVE RequestFits(calls[c], vrows'[v])
    <3>1. RequestFits(calls[c], vrows[v])
      BY <1>1, <2>2
    <3>2. QED BY <1>3, <3>1 DEF RequestFits
  <2>3. QED BY <1>2, <1>3, <2>1, <2>2, LifeMoves
<1>4. CASE DeployClaims(v)
  <2>1. vrows[v].job = "pending" /\ vrows[v].status = "pending"
        /\ vrows' = [vrows EXCEPT ![v].job = "claimed", ![v].stage = "parent", ![v].status = "deploying"]
    BY <1>1, <1>4 DEF DeployClaims, RowFits
  <2>2. [vrows[v] EXCEPT !.job = "claimed", !.stage = "parent", !.status = "deploying"] \in VRow
    BY <1>1 DEF VRow, VrStatuses
  <2>3. vrows' \in [VrVersions -> VRow] /\ Only(v)
    BY <2>1, <2>2 DEF VrInv, VrTyped, Only
  <2>4. vrows'[v].job = "claimed" /\ vrows'[v].status = "deploying"
    BY <1>1, <2>1 DEF VrInv, VrTyped, VRow
  <2>5. vrows'[v].aged = vrows[v].aged
    BY <1>1, <2>1 DEF VrInv, VrTyped, VRow
  <2>6. QED BY <1>3, <2>1, <2>3, <2>4, <2>5 DEF Early
<1>5. CASE DeployChecksParent(v)
  <2>1. vrows[v].job = "claimed" /\ vrows' = [vrows EXCEPT ![v].stage = "rows"]
    BY <1>5 DEF DeployChecksParent, DeployAt
  <2>2. [vrows[v] EXCEPT !.stage = "rows"] \in VRow
    BY <1>1 DEF VRow, VrStatuses
  <2>3. vrows' \in [VrVersions -> VRow] /\ Only(v)
    BY <2>1, <2>2 DEF VrInv, VrTyped, Only
  <2>4. vrows'[v].job = vrows[v].job /\ vrows'[v].status = vrows[v].status
    BY <1>1, <2>1 DEF VrInv, VrTyped, VRow
  <2>5. vrows'[v].aged = vrows[v].aged
    BY <1>1, <2>1 DEF VrInv, VrTyped, VRow
  <2>6. vrows[v].status = "deploying"
    BY <1>1, <2>1 DEF RowFits
  <2>7. QED BY <1>3, <2>1, <2>3, <2>4, <2>5, <2>6
<1>6. CASE VrDeployServes(v)
  <2>1. vrows[v].job = "claimed"
        /\ vrows' = [vrows EXCEPT ![v].job = "done", ![v].stage = "none", ![v].status = "ready",
                                  ![v].kin = TRUE, ![v].route = "on"]
    BY <1>6 DEF VrDeployServes, DeployAt
  <2>2. [vrows[v] EXCEPT !.job = "done", !.stage = "none", !.status = "ready", !.kin = TRUE,
                         !.route = "on"] \in VRow
    BY <1>1 DEF VRow, VrStatuses
  <2>3. vrows' \in [VrVersions -> VRow] /\ Only(v)
    BY <2>1, <2>2 DEF VrInv, VrTyped, Only
  <2>4. vrows'[v].job = "done" /\ vrows'[v].status = "ready"
    BY <1>1, <2>1 DEF VrInv, VrTyped, VRow
  <2>5. vrows'[v].aged = vrows[v].aged
    BY <1>1, <2>1 DEF VrInv, VrTyped, VRow
  <2>6. vrows[v].status \in Early
    BY <1>1, <2>1 DEF RowFits, Early
  <2>7. QED BY <1>3, <2>1, <2>3, <2>4, <2>5, <2>6
<1>7. CASE VrDeployFails(v)
  <2>1. vrows[v].job = "claimed"
        /\ vrows' = [vrows EXCEPT ![v].job = "undoing", ![v].status = "failed", ![v].stage = "none"]
    BY <1>7 DEF VrDeployFails
  <2>2. [vrows[v] EXCEPT !.job = "undoing", !.status = "failed", !.stage = "none"] \in VRow
    BY <1>1 DEF VRow, VrStatuses
  <2>3. vrows' \in [VrVersions -> VRow] /\ Only(v)
    BY <2>1, <2>2 DEF VrInv, VrTyped, Only
  <2>4. vrows'[v].job = "undoing" /\ vrows'[v].status = "failed"
    BY <1>1, <2>1 DEF VrInv, VrTyped, VRow
  <2>5. vrows'[v].aged = vrows[v].aged
    BY <1>1, <2>1 DEF VrInv, VrTyped, VRow
  <2>6. vrows[v].status \in Early
    BY <1>1, <2>1 DEF RowFits, Early
  <2>7. QED BY <1>3, <2>1, <2>3, <2>4, <2>5, <2>6
<1>8. CASE Compensated(v)
  <2>1. PICK t \in {"none", "on", "off"} :
          vrows[v].job = "undoing" /\ vrows' = [vrows EXCEPT ![v].job = "done", ![v].route = t]
    <3>1. vrows[v].route \in {"none", "on", "off"}
      BY <1>1 DEF VRow
    <3>2. QED BY <1>8, <3>1 DEF Compensated
  <2>2. [vrows[v] EXCEPT !.job = "done", !.route = t] \in VRow
    BY <1>1 DEF VRow
  <2>3. vrows' \in [VrVersions -> VRow] /\ Only(v)
    BY <2>1, <2>2 DEF VrInv, VrTyped, Only
  <2>4. vrows'[v].job = "done" /\ vrows'[v].status = vrows[v].status
    BY <1>1, <2>1 DEF VrInv, VrTyped, VRow
  <2>5. vrows'[v].aged = vrows[v].aged
    BY <1>1, <2>1 DEF VrInv, VrTyped, VRow
  <2>6. vrows[v].status \notin Early
    BY <1>1, <2>1 DEF RowFits, Early
  <2>7. QED BY <1>3, <2>1, <2>3, <2>4, <2>5, <2>6 DEF Early
<1>9. QED BY <1>4, <1>5, <1>6, <1>7, <1>8

LEMMA CoolsKeep == ASSUME VrInv, NEW v \in VrVersions, Cools(v) \/ Warms(v) \/ Ages(v) PROVE VrInv'
<1>1. /\ vrows[v] \in VRow /\ RowFits(vrows[v])
      /\ \A c \in Callers : calls[c].v = v => RequestFits(calls[c], vrows[v])
  BY RequestsOf
<1>2. UNCHANGED <<calls, cut, vprod>>
  BY DEF Cools, Warms, Ages, Keep
<1>3. CASE Cools(v) \/ Warms(v)
  <2>1. PICK s \in {"ready", "deploy_ready"} : VrStatus(v, s)
    BY <1>3 DEF Cools, Warms
  <2>2. vrows[v].status \in {"ready", "deploy_ready"} /\ s \in VrStatuses
    BY <1>3 DEF Cools, Warms, Is, VrStatuses
  <2>3. /\ vrows' \in [VrVersions -> VRow] /\ Only(v) /\ vrows'[v].status = s /\ ~vrows'[v].aged
        /\ vrows'[v].job = vrows[v].job
    BY <2>1, <2>2, StatusWrites DEF VrInv
  <2>4. RowFits(vrows'[v]) /\ vrows[v].job # "pending"
    BY <1>1, <2>2, <2>3 DEF RowFits
  <2>5. ASSUME NEW c \in Callers, calls[c].v = v PROVE RequestFits(calls[c], vrows'[v])
    <3>1. RequestFits(calls[c], vrows[v])
      BY <1>1, <2>5
    <3>2. QED BY <2>2, <2>3, <3>1 DEF RequestFits, Early
  <2>6. QED BY <1>2, <2>3, <2>4, <2>5, LifeMoves
<1>4. CASE Ages(v)
  <2>1. vrows' = [vrows EXCEPT ![v].aged = TRUE] /\ vrows[v].status = "destroyed"
        /\ \A c \in Callers : calls[c].v # v
    BY <1>4 DEF Ages, Is, Busy
  <2>2. [vrows[v] EXCEPT !.aged = TRUE] \in VRow
    BY <1>1 DEF VRow
  <2>3. vrows' \in [VrVersions -> VRow] /\ Only(v)
    BY <2>1, <2>2 DEF VrInv, VrTyped, Only
  <2>4. vrows'[v].job = vrows[v].job /\ vrows'[v].status = "destroyed"
    BY <1>1, <2>1 DEF VrInv, VrTyped, VRow
  <2>5. RowFits(vrows'[v])
    BY <1>1, <2>1, <2>4 DEF RowFits
  <2>6. QED BY <1>1, <1>2, <2>1, <2>3, <2>4, <2>5, LifeMoves
<1>5. QED BY <1>3, <1>4

-----------------------------------------------------------------------------
(* The garbage collector, and a stop of cellpd.                             *)

LEMMA PurgesKeep == ASSUME VrInv, PurgeVersions \/ PurgeJobs PROVE VrInv'
<1>1. UNCHANGED <<calls, cut, vprod>>
  BY DEF PurgeVersions, PurgeJobs, Keep
<1>2. ASSUME NEW v \in VrVersions
      PROVE  /\ vrows'[v] \in VRow
             /\ \/ vrows'[v] = vrows[v]
                \/ /\ vrows'[v].status = vrows[v].status /\ vrows'[v].aged = vrows[v].aged
                   /\ vrows'[v].job = "none" /\ vrows[v].job # "pending"
                   /\ vrows[v].status \notin Early
                \/ /\ vrows'[v] = NoVersionRow /\ vrows[v].status = "destroyed" /\ vrows[v].aged
                   /\ vprod # v
  <2>1. vrows[v] \in VRow /\ RowFits(vrows[v])
    BY RequestsOf
  <2>2. CASE PurgeVersions /\ ~Purgeable(v)
    BY <2>1, <2>2 DEF PurgeVersions
  <2>3. CASE PurgeVersions /\ Purgeable(v) /\ vrows[v].route = "on"
    <3>1. vrows'[v] = [vrows[v] EXCEPT !.kin = FALSE, !.job = "none"]
      BY <2>3 DEF PurgeVersions, Purged
    <3>2. vrows[v].status = "destroyed"
      BY <2>3 DEF Purgeable, Is
    <3>3. vrows[v].job # "pending" /\ vrows[v].status \notin Early
      BY <2>1, <3>2 DEF RowFits, Early
    <3>4. vrows'[v] \in VRow
      BY <2>1, <3>1 DEF VRow
    <3>5. vrows'[v].status = vrows[v].status /\ vrows'[v].job = "none"
      BY <2>1, <3>1 DEF VRow
    <3>6. vrows'[v].aged = vrows[v].aged
      BY <2>1, <3>1 DEF VRow
    <3>7. QED BY <3>3, <3>4, <3>5, <3>6
  <2>4. CASE PurgeVersions /\ Purgeable(v) /\ vrows[v].route # "on"
    <3>1. vrows'[v] = NoVersionRow
      BY <2>4 DEF PurgeVersions, Purged
    <3>2. NoVersionRow \in VRow
      BY DEF NoVersionRow, VRow, VrStatuses
    <3>3. QED BY <2>4, <3>1, <3>2 DEF Purgeable, Is
  <2>5. CASE PurgeJobs
    <3>1. vrows'[v] = IF vrows[v].job = "done" THEN [vrows[v] EXCEPT !.job = "none"] ELSE vrows[v]
      BY <2>5 DEF PurgeJobs
    <3>2. CASE vrows[v].job = "done"
      <4>1. vrows[v].status \notin Early
        BY <2>1, <3>2 DEF RowFits, Early
      <4>2. vrows'[v] \in VRow
        BY <2>1, <3>1, <3>2 DEF VRow
      <4>3. vrows'[v].status = vrows[v].status /\ vrows'[v].job = "none"
        BY <2>1, <3>1, <3>2 DEF VRow
      <4>4. vrows'[v].aged = vrows[v].aged
        BY <2>1, <3>1, <3>2 DEF VRow
      <4>5. QED BY <3>2, <4>1, <4>2, <4>3, <4>4
    <3>3. QED BY <2>1, <3>1, <3>2
  <2>6. QED BY <2>2, <2>3, <2>4, <2>5
<1>3. NoVersionRow.status = "none" /\ NoVersionRow.job = "none" /\ ~NoVersionRow.aged /\ RowFits(NoVersionRow)
  BY DEF NoVersionRow, RowFits
<1>4. vrows' \in [VrVersions -> VRow]
  BY <1>2 DEF PurgeVersions, PurgeJobs
<1>5. ASSUME NEW v \in VrVersions PROVE RowFits(vrows'[v])
  <2>1. RowFits(vrows[v])
    BY RequestsOf
  <2>2. QED BY <1>2, <1>3, <2>1 DEF RowFits, Early
<1>6. RowsFit'
  <2>1. vprod # NoVr => vprod \in VrVersions /\ vrows[vprod].status # "none"
    BY DEF VrInv, VrTyped, RowsFit
  <2>2. vprod # NoVr => vrows'[vprod].status # "none"
    BY <1>2, <2>1
  <2>3. QED BY <1>1, <1>5, <2>2 DEF RowsFit
<1>7. RequestsFit'
  <2>1. ASSUME NEW c \in Callers, calls[c] # NoRequest
        PROVE  RequestFits(calls[c], vrows'[calls[c].v])
    <3>1. calls[c].v \in VrVersions /\ RequestFits(calls[c], vrows[calls[c].v])
      BY <2>1, RequestAt DEF VrInv, RequestsFit
    <3>2. QED BY <1>2, <1>3, <3>1 DEF RequestFits, Early
  <2>2. QED BY <1>1, <2>1 DEF VrInv, RequestsFit, RequestFits
<1>8. InHand'
  <2>1. ASSUME NEW v \in VrVersions, vrows'[v].status \in {"pending", "draining"}
        PROVE  vrows'[v].status = vrows[v].status
               /\ (vrows'[v].status = "pending" => vrows'[v].job = vrows[v].job)
    BY <1>2, <1>3, <2>1 DEF Early
  <2>2. QED BY <1>1, <2>1 DEF VrInv, InHand, Drainer
<1>9. PendingJobs' \subseteq PendingJobs /\ Creators' \subseteq Creators
  BY <1>1, <1>2, <1>3 DEF PendingJobs, Creators
<1>10. VrTyped'
  BY <1>1, <1>4 DEF VrInv, VrTyped
<1>11. QED BY <1>6, <1>7, <1>8, <1>9, <1>10, QueueShrinks DEF VrInv

LEMMA StopKeeps == ASSUME VrInv, CellpdStops PROVE VrInv'
<1>1. /\ calls' = [c \in Callers |-> NoRequest] /\ UNCHANGED <<vrows, vprod>>
      /\ cut' = cut \cup ({calls[c].v : c \in Callers} \ {NoVr})
  BY DEF CellpdStops
<1>2. VrTyped' /\ RowsFit'
  BY <1>1 DEF VrInv, VrTyped, RowsFit
<1>3. RequestsFit'
  BY <1>1, RequestFacts DEF RequestsFit
<1>4. InHand'
  <2>1. ASSUME NEW v \in VrVersions \ cut' PROVE v \notin cut /\ \A c \in Callers : calls[c].v # v
    BY <1>1, <2>1, RequestFacts
  <2>2. QED BY <1>1, <2>1 DEF VrInv, InHand
<1>5. PendingJobs' \subseteq PendingJobs /\ Creators' \subseteq Creators
  BY <1>1, RequestFacts DEF PendingJobs, Creators
<1>6. QED BY <1>2, <1>3, <1>4, <1>5, QueueShrinks DEF VrInv

LEMMA VrKeeps == VrInv /\ [VrNext]_vrVars => VrInv'
<1> SUFFICES ASSUME VrInv, [VrNext]_vrVars PROVE VrInv'
  OBVIOUS
<1>1. ASSUME NEW c \in Callers, CallStep(c) PROVE VrInv'
  BY <1>1, OpensKeep, InsertsKeep, EnqueuesKeep, RouteKeeps, StatusKeeps DEF CallStep
<1>2. ASSUME NEW v \in VrVersions, VersionStep(v) PROVE VrInv'
  BY <1>2, DeployKeeps, CoolsKeep DEF VersionStep
<1>3. ASSUME UNCHANGED vrVars PROVE VrInv'
  BY <1>3 DEF vrVars, VrInv, VrTyped, RowsFit, RequestsFit, InHand, QueueHeld, PendingJobs, QueueOvershoot
<1>4. QED BY <1>1, <1>2, <1>3, PurgesKeep, StopKeeps DEF VrNext

(* Wherever a version's life or a request at it ended: no row outlives the   *)
(* version it belongs to, prod names a row, the queue passes its bound by no *)
(* more than the creates under way, and only a stop of cellpd leaves a       *)
(* version pending or draining for good: handleCreateVersion, Archive,       *)
(* Destroy and the purges of internal/orch/gc.go.                            *)
THEOREM RowsCorrect == VrSpec => []RowsSound
<1>1. VrInit => VrInv
  BY VrInitially
<1>2. VrInv /\ [VrNext]_vrVars => VrInv'
  BY VrKeeps
<1>3. VrInv => RowsSound
  BY VrSuffices
<1>4. QED BY <1>1, <1>2, <1>3, PTL DEF VrSpec
=============================================================================
