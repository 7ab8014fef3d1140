------------------------------ MODULE Activator ------------------------------
(***************************************************************************)
(* The gateway's activator (gateway/activator): what a request does whose    *)
(* version has no warm endpoint.  A request that may wait takes a waiter and *)
(* its body's bytes from the budget and joins the flight of its key; one     *)
(* that may not starts the flight and is told to retry.  A flight raises the *)
(* version's desire (EnsureCapacity, ServingDesire.tla) and polls the        *)
(* snapshot (RouteSnapshot.tla).  Flights hold a slot of FlightLimiter.      *)
(*                                                                         *)
(* The three locks (Group.mu, Budget.mu, FlightLimiter.mu) are taken one     *)
(* after the other, never together: one action per critical section.         *)
(* Deadlines may fall at any time.  When cellpd shuts down the group closes  *)
(* and the flights are cancelled before the controller guard is released.    *)
(***************************************************************************)
EXTENDS Naturals, FiniteSets

CONSTANTS
  ActRequests, ActVersions,
  Bodies,                        \* sizes of request bodies
  MaxBody,                       \* MaxBufferedBodyBytes
  WaitMax, VersionWaitMax,       \* waiters: GlobalWaitBudget, PerVersionWaitBudget
  BytesMax, VersionBytesMax,     \* GlobalPendingBytes, PerVersionPendingBytes
  FlightMax, VersionFlightMax,   \* GlobalActivationFlights, PerVersionActivationFlights
  MaxGen                         \* bound: the last desired generation

ASSUME ActivatorAssumption ==
  /\ IsFiniteSet(ActRequests) /\ IsFiniteSet(ActVersions) /\ ActVersions # {}
  /\ Bodies \subseteq Nat /\ MaxGen \in Nat
  /\ {MaxBody, WaitMax, VersionWaitMax, BytesMax, VersionBytesMax} \subseteq Nat \ {0}
  /\ {FlightMax, VersionFlightMax} \subseteq Nat \ {0}
  /\ VersionWaitMax <= WaitMax /\ VersionBytesMax <= BytesMax /\ MaxBody <= VersionBytesMax

VARIABLES
  asks,      \* the requests in the activator
  flights,   \* Group.m, with what the goroutine of a call has reached
  slots,     \* FlightLimiter
  budget,    \* Budget
  cold,      \* what the registry and the snapshot say of each version
  group      \* "open", "cancelled" (workCtx), "closed", "quiet" (Shutdown returned nil)

actVars == <<asks, flights, slots, budget, cold, group>>

-----------------------------------------------------------------------------
Keys == ActVersions \X (0 .. MaxGen)

NoFlight == [at |-> "none", holds |-> FALSE, got |-> "none"]

Answers == {"none", "proxy", "queue_full", "retry", "timeout", "control", "capacity", "not_ready"}

Flight == [at : {"none", "begin", "ensure", "poll", "return"}, holds : BOOLEAN, got : Answers]

Ask == [at : {"idle", "read", "admit", "start", "wait", "has", "acquire", "begin", "done"},
        ver : ActVersions, gen : 0 .. MaxGen, body : Nat, new : BOOLEAN, got : Answers]

NoAsk(v) == [at |-> "idle", ver |-> v, gen |-> 0, body |-> 0, new |-> FALSE, got |-> "none"]

\* archived, or deploy_ready or ready; the desired generation, whether replicas are
\* wanted, whether the snapshot names an endpoint
Cold == [archived : BOOLEAN, gen : 0 .. MaxGen, wanted : BOOLEAN, warm : BOOLEAN]

ActInit ==
  /\ asks = [r \in ActRequests |-> NoAsk(CHOOSE v \in ActVersions : TRUE)]
  /\ flights = [k \in Keys |-> NoFlight]
  /\ slots = [all |-> 0, ver |-> [v \in ActVersions |-> 0]]
  /\ budget = [all |-> 0, bytes |-> 0, ver |-> [v \in ActVersions |-> 0], verBytes |-> [v \in ActVersions |-> 0]]
  /\ cold = [v \in ActVersions |-> [archived |-> FALSE, gen |-> 0, wanted |-> FALSE, warm |-> FALSE]]
  /\ group = "open"

-----------------------------------------------------------------------------
(* FlightLimiter and Budget.                                                 *)

SlotFree(v) == slots.all < FlightMax /\ slots.ver[v] < VersionFlightMax

WithSlot(v) == [slots EXCEPT !.all = @ + 1, !.ver[v] = @ + 1]

Less(n, m) == IF n > m THEN n - m ELSE 0

WithoutSlot(v) == [slots EXCEPT !.all = Less(@, 1), !.ver[v] = Less(@, 1)]

Room(v, n) ==
  /\ budget.all < WaitMax /\ budget.ver[v] < VersionWaitMax
  /\ budget.bytes + n <= BytesMax /\ budget.verBytes[v] + n <= VersionBytesMax

Reserved(v, n) ==
  [budget EXCEPT !.all = @ + 1, !.ver[v] = @ + 1, !.bytes = @ + n, !.verBytes[v] = @ + n]

BudgetBack(v, n) ==
  [budget EXCEPT !.all = Less(@, 1), !.ver[v] = Less(@, 1), !.bytes = Less(@, n), !.verBytes[v] = Less(@, n)]

-----------------------------------------------------------------------------
(* The request: runElasticColdWake, Admit, WakeAfterDeadEndpoint.            *)

Answer(r, a) == asks' = [asks EXCEPT ![r] = [NoAsk(@.ver) EXCEPT !.at = "done", !.got = a]]

KeyOf(r) == <<asks[r].ver, asks[r].gen>>

\* GetVersion, GetServingPolicy and the lookup: warm goes on to the proxy
Arrive(r, v, n) ==
  /\ asks[r].at = "idle" /\ ~cold[v].archived /\ ~cold[v].warm
  /\ asks' = [asks EXCEPT ![r] = [NoAsk(v) EXCEPT !.at = "read", !.body = n]]
  /\ UNCHANGED <<flights, slots, budget, cold, group>>

\* the endpoint of the snapshot refused the connection: warm or not makes no difference
ArriveDead(r, v) ==
  /\ asks[r].at = "idle" /\ ~cold[v].archived /\ cold[v].warm
  /\ asks' = [asks EXCEPT ![r] = [NoAsk(v) EXCEPT !.at = "has", !.gen = cold[v].gen]]
  /\ UNCHANGED <<flights, slots, budget, cold, group>>

ReadDesire(r) ==
  /\ asks[r].at = "read"
  /\ asks' = [asks EXCEPT ![r].at = "admit", ![r].gen = cold[asks[r].ver].gen]
  /\ UNCHANGED <<flights, slots, budget, cold, group>>

MayWait(r) == asks[r].body <= MaxBody

Admit(r) ==
  LET v == asks[r].ver IN
  /\ asks[r].at = "admit"
  /\ \/ cold[v].warm /\ Answer(r, "proxy") /\ UNCHANGED budget
     \/ ~cold[v].warm /\ group # "open" /\ Answer(r, "control") /\ UNCHANGED budget
     \/ /\ ~cold[v].warm /\ group = "open" /\ ~MayWait(r)
        /\ asks' = [asks EXCEPT ![r].at = "has"] /\ UNCHANGED budget
     \/ /\ ~cold[v].warm /\ group = "open" /\ MayWait(r)
        /\ \/ ~Room(v, asks[r].body) /\ Answer(r, "queue_full") /\ UNCHANGED budget
           \/ /\ Room(v, asks[r].body)
              /\ asks' = [asks EXCEPT ![r].at = "start"]
              /\ budget' = Reserved(v, asks[r].body)
  /\ UNCHANGED <<flights, slots, cold, group>>

Closed == group \in {"closed", "quiet"}

\* Group.start: join the call of the key or begin one
Enter(k, f) == IF flights[k] = NoFlight THEN [flights EXCEPT ![k] = f] ELSE flights

StartWaiting(r) ==
  /\ asks[r].at = "start"
  /\ \/ /\ Closed /\ Answer(r, "control")
        /\ budget' = BudgetBack(asks[r].ver, asks[r].body) /\ UNCHANGED flights
     \/ /\ ~Closed
        /\ flights' = Enter(KeyOf(r), [NoFlight EXCEPT !.at = "begin"])
        /\ asks' = [asks EXCEPT ![r].at = "wait"] /\ UNCHANGED budget
  /\ UNCHANGED <<slots, cold, group>>

\* Mutant of GiveUp: the place is not given back.
GiveUpKeeps(r) ==
  /\ asks[r].at = "wait" /\ Answer(r, "timeout")
  /\ UNCHANGED <<flights, slots, budget, cold, group>>

\* the waiter's deadline, or its caller hangs up; the flight goes on
GiveUp(r) ==
  /\ asks[r].at = "wait" /\ Answer(r, "timeout")
  /\ budget' = BudgetBack(asks[r].ver, asks[r].body)
  /\ UNCHANGED <<flights, slots, cold, group>>

TakeAnswer(r) ==
  /\ asks[r].at = "wait" /\ asks[r].got # "none"
  /\ Answer(r, asks[r].got)
  /\ budget' = BudgetBack(asks[r].ver, asks[r].body)
  /\ UNCHANGED <<flights, slots, cold, group>>

\* beginSharedActivation: Has, TryAcquire and Start are three critical sections
Has(r) ==
  /\ asks[r].at = "has"
  /\ \/ group # "open" /\ Answer(r, "control")
     \/ /\ group = "open"
        /\ IF flights[KeyOf(r)] = NoFlight
           THEN asks' = [asks EXCEPT ![r].at = "acquire", ![r].new = TRUE]
           ELSE asks' = [asks EXCEPT ![r].at = "begin"]
  /\ UNCHANGED <<flights, slots, budget, cold, group>>

Acquire(r) ==
  LET v == asks[r].ver IN
  /\ asks[r].at = "acquire"
  /\ \/ ~SlotFree(v) /\ Answer(r, "queue_full") /\ UNCHANGED slots
     \/ SlotFree(v) /\ slots' = WithSlot(v) /\ asks' = [asks EXCEPT ![r].at = "begin"]
  /\ UNCHANGED <<flights, budget, cold, group>>

StartShared(r) ==
  LET v == asks[r].ver IN
  /\ asks[r].at = "begin"
  /\ \/ /\ Closed /\ Answer(r, "queue_full") /\ UNCHANGED flights
        /\ slots' = IF asks[r].new THEN WithoutSlot(v) ELSE slots
     \/ /\ ~Closed /\ Answer(r, "retry") /\ UNCHANGED slots
        /\ flights' = Enter(KeyOf(r), [at |-> "ensure", holds |-> asks[r].new, got |-> "none"])
  /\ UNCHANGED <<budget, cold, group>>

-----------------------------------------------------------------------------
(* The flight of key k.                                                      *)

\* the flight a waiter began takes its slot itself
BeginFlight(k) ==
  /\ flights[k].at = "begin"
  /\ IF SlotFree(k[1])
     THEN slots' = WithSlot(k[1]) /\ flights' = [flights EXCEPT ![k].at = "ensure", ![k].holds = TRUE]
     ELSE UNCHANGED slots /\ flights' = [flights EXCEPT ![k].at = "return", ![k].got = "queue_full"]
  /\ UNCHANGED <<asks, budget, cold, group>>

\* fn returns, its deferred Release first
Return(k, a) ==
  /\ flights' = [flights EXCEPT ![k] = [at |-> "return", holds |-> FALSE, got |-> a]]
  /\ slots' = IF flights[k].holds THEN WithoutSlot(k[1]) ELSE slots

Ensure(k) ==
  LET c == cold[k[1]] IN
  /\ flights[k].at = "ensure"
  /\ \/ /\ ~c.archived
        /\ c.wanted \/ c.gen < MaxGen
        /\ cold' = [cold EXCEPT ![k[1]].wanted = TRUE, ![k[1]].gen = IF c.wanted THEN @ ELSE @ + 1]
        /\ flights' = [flights EXCEPT ![k].at = "poll"] /\ UNCHANGED slots
     \/ c.archived /\ Return(k, "not_ready") /\ UNCHANGED cold
     \/ \E a \in {"capacity", "control", "timeout"} : Return(k, a) /\ UNCHANGED cold
  /\ UNCHANGED <<asks, budget, group>>

Poll(k) ==
  /\ flights[k].at = "poll"
  /\ \/ cold[k[1]].warm /\ Return(k, "proxy")
     \/ Return(k, "timeout")
  /\ UNCHANGED <<asks, budget, cold, group>>

\* Mutant of EndFlight: its waiters are not told.
EndFlightSilent(k) ==
  /\ flights[k].at = "return"
  /\ flights' = [flights EXCEPT ![k] = NoFlight]
  /\ UNCHANGED <<asks, slots, budget, cold, group>>

\* the call leaves the map and its waiters see the result
EndFlight(k) ==
  /\ flights[k].at = "return"
  /\ flights' = [flights EXCEPT ![k] = NoFlight]
  /\ asks' = [r \in ActRequests |->
                IF asks[r].at = "wait" /\ KeyOf(r) = k /\ asks[r].got = "none"
                THEN [asks[r] EXCEPT !.got = flights[k].got] ELSE asks[r]]
  /\ UNCHANGED <<slots, budget, cold, group>>

-----------------------------------------------------------------------------
(* Shutdown, and the registry and the snapshot around the activator.         *)

CloseGroup ==
  /\ \/ group = "open" /\ group' = "cancelled"
     \/ group = "cancelled" /\ group' = "closed"
  /\ UNCHANGED <<asks, flights, slots, budget, cold>>

Quiesce ==
  /\ group = "closed" /\ \A k \in Keys : flights[k] = NoFlight
  /\ group' = "quiet"
  /\ UNCHANGED <<asks, flights, slots, budget, cold>>

WarmUp(v) ==
  /\ cold[v].wanted /\ ~cold[v].warm /\ cold' = [cold EXCEPT ![v].warm = TRUE]
  /\ UNCHANGED <<asks, flights, slots, budget, group>>

ScaleToZero(v) ==
  /\ cold[v].wanted /\ cold[v].gen < MaxGen
  /\ \E w \in {cold[v].warm, FALSE} :
       cold' = [cold EXCEPT ![v].wanted = FALSE, ![v].gen = @ + 1, ![v].warm = w]
  /\ UNCHANGED <<asks, flights, slots, budget, group>>

Retire(v) ==
  /\ ~cold[v].archived
  /\ cold' = [cold EXCEPT ![v].archived = TRUE, ![v].warm = FALSE]
  /\ UNCHANGED <<asks, flights, slots, budget, group>>

RequestStep(r) ==
  \/ ReadDesire(r) \/ Admit(r) \/ StartWaiting(r) \/ TakeAnswer(r) \/ Has(r) \/ Acquire(r) \/ StartShared(r)

FlightStep(k) == BeginFlight(k) \/ Ensure(k) \/ Poll(k) \/ EndFlight(k)

ActNext ==
  \/ \E r \in ActRequests :
       \/ RequestStep(r) \/ GiveUp(r)
       \/ \E v \in ActVersions : ArriveDead(r, v) \/ \E n \in Bodies : Arrive(r, v, n)
  \/ \E k \in Keys : FlightStep(k)
  \/ CloseGroup \/ Quiesce
  \/ \E v \in ActVersions : WarmUp(v) \/ ScaleToZero(v) \/ Retire(v)

ActSpec == ActInit /\ [][ActNext]_actVars

\* goroutines run; the flight's context has a deadline, so Poll and Ensure return
ActFairness ==
  /\ \A r \in ActRequests : WF_actVars(RequestStep(r))
  /\ \A k \in Keys : WF_actVars(FlightStep(k))

-----------------------------------------------------------------------------
(* Properties.                                                               *)

ActTypeOK ==
  /\ asks \in [ActRequests -> Ask] /\ flights \in [Keys -> Flight]
  /\ slots \in [all : Nat, ver : [ActVersions -> Nat]]
  /\ budget \in [all : Nat, bytes : Nat, ver : [ActVersions -> Nat], verBytes : [ActVersions -> Nat]]
  /\ cold \in [ActVersions -> Cold] /\ group \in {"open", "cancelled", "closed", "quiet"}

Holding(v) == {r \in ActRequests : asks[r].ver = v /\ asks[r].at \in {"start", "wait"}}

Flying(v) == {k \in Keys : k[1] = v /\ flights[k].at \in {"ensure", "poll"}}

\* The sum of a function, as the number of its units: one pair for each.
Units(f) == UNION {{x} \X (1 .. f[x]) : x \in DOMAIN f}
Total(f) == Cardinality(Units(f))

BytesHeld(v) == [r \in ActRequests |-> IF r \in Holding(v) THEN asks[r].body ELSE 0]

(* Whatever way a waiter leaves (an answer, its deadline, a closed group), it *)
(* gives back the place and the bytes it took, once: the budget counts        *)
(* exactly the requests that wait, and stays within its limits.               *)
BudgetIsWaiters ==
  /\ budget.all = Total(budget.ver) /\ budget.all <= WaitMax
  /\ budget.bytes = Total(budget.verBytes) /\ budget.bytes <= BytesMax
  /\ \A v \in ActVersions :
       /\ budget.ver[v] = Cardinality(Holding(v)) /\ budget.ver[v] <= VersionWaitMax
       /\ budget.verBytes[v] = Total(BytesHeld(v)) /\ budget.verBytes[v] <= VersionBytesMax

(* When nothing runs for a version no slot of its is taken (FlightLimiter     *)
(* "bounds concurrent activation flights").                                   *)
SlotsComeBack ==
  \A v \in ActVersions :
    (Flying(v) = {} /\ \A r \in ActRequests : asks[r].ver = v => asks[r].at # "begin") => slots.ver[v] = 0

\* Flights that hold a slot, and requests that have one and no flight yet.
HeldBy(v) == {k \in Flying(v) : flights[k].holds}
Reserving(v) == {r \in ActRequests : asks[r].ver = v /\ asks[r].at = "begin" /\ asks[r].new}

(* A flight that holds a slot is counted: no Release too many, no slot of one *)
(* version given back for another.                                            *)
SlotsCoverFlights ==
  /\ slots.all = Total(slots.ver)
  /\ \A v \in ActVersions : slots.ver[v] >= Cardinality(HeldBy(v)) + Cardinality(Reserving(v))

(* Once Shutdown has returned no flight runs, hence nothing raises a desire:  *)
(* cellpd releases the controller guard after it (serve/serve.go).            *)
QuietHasNoFlight == group = "quiet" => \A k \in Keys : flights[k] = NoFlight

(* Only a flight that ended may have a waiter without an answer left behind:  *)
(* a waiter has its flight or its answer.                                     *)
WaiterHasFlight ==
  \A r \in ActRequests :
    asks[r].at = "wait" => asks[r].got # "none" \/ flights[KeyOf(r)] # NoFlight

(* Admission: the budget, the slots and the flights fit together.             *)
AdmissionSound == ActTypeOK /\ BudgetIsWaiters /\ SlotsCoverFlights /\ QuietHasNoFlight /\ WaiterHasFlight

(* Every request is answered, without its own deadline falling: the flights   *)
(* end by theirs.                                                             *)
EveryAskAnswered == \A r \in ActRequests : asks[r].at # "idle" ~> asks[r].at = "done"

=============================================================================
