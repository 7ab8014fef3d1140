------------------------------ MODULE PortLedger ------------------------------
(***************************************************************************)
(* Dedicated ports of the ingress: the ledger port_allocations and the       *)
(* denormalized ingress_bindings.listen_port (registry/port_alloc.go,        *)
(* port_ledger.go, ingress.go), the calls of the orchestrator that attach    *)
(* and detach them (orch/ingress.go) and the gateway's ListenerManager       *)
(* (gateway/listeners.go), which follows the ledger and releases the rows it *)
(* takes for orphans.                                                        *)
(*                                                                         *)
(* Each project has a prod binding, a reserve (prod_listen_port) and one     *)
(* version with a preview binding.  Hosts are unique by construction and     *)
(* only ports are modelled.  The calls of the registry are transactions; a   *)
(* reconciliation makes one call per row, under ListenerManager.mu.          *)
(***************************************************************************)
EXTENDS Naturals, FiniteSets

CONSTANTS
  Projects,
  PortMin, PortMax,   \* the pool of ingress ports
  MaxRows,            \* bound: ledger rows ever written
  MaxMishaps          \* bound: restarts of cellpd, ports the system refuses, and
                      \* shutdowns that time out, together

ASSUME PortAssumption ==
  /\ IsFiniteSet(Projects) /\ PortMin \in Nat \ {0} /\ PortMax \in Nat /\ PortMin <= PortMax
  /\ MaxRows \in Nat /\ MaxMishaps \in Nat

VARIABLES
  tier,       \* the effective ingress tier of each project
  created,    \* the projects that exist
  ledger,     \* the active row of each port: its id and owner
  rows,       \* ledger rows written so far
  bound,      \* ingress_bindings: [active, port]
  had,        \* the ports each prod binding has had since cellpd started
  open,       \* ListenerManager.servers
  rec,        \* the reconciliation under way
  due,        \* whether a reconciliation is asked for; those that wait are one
  lost,       \* history: rows released while their reserve became a prod binding's
  mishaps     \* restarts and listen errors so far

portVars == <<tier, created, ledger, rows, bound, had, open, rec, due, lost, mishaps>>

-----------------------------------------------------------------------------
Ports == PortMin .. PortMax

Bindings == {"prod", "preview"} \X Projects

Owners == {"prod", "preview", "reserve"} \X Projects

Prod(p) == <<"prod", p>>

Reserve(p) == <<"reserve", p>>

Preview(p) == <<"preview", p>>

NoRow == [id |-> 0, owner |-> <<>>]

Row == [id : 1 .. MaxRows, owner : Owners]

Unbound == [active |-> FALSE, port |-> 0]

\* the rows still to visit, the row that has to be released, the ports to listen on
NoRec == [at |-> "idle", list |-> {}, row |-> <<0, NoRow>>, want |-> {}]

PortInit ==
  /\ tier \in [Projects -> {"host", "prod_port", "dedicated_port"}]
  /\ created = {} /\ rows = 0
  /\ ledger = [n \in Ports |-> NoRow]
  /\ bound = [b \in Bindings |-> Unbound]
  /\ had = [p \in Projects |-> {}]
  /\ open = {} /\ rec = NoRec /\ due = 1
  /\ lost = {} /\ mishaps = [restarts |-> 0, errors |-> 0]

-----------------------------------------------------------------------------
(* The ledger and the bindings.                                              *)

Taken == {n \in Ports : ledger[n] # NoRow}

RowsOf(o) == {n \in Taken : ledger[n].owner = o}

\* the partial unique index on listen_port
PortFreeFor(b, n) == n = 0 \/ \A c \in Bindings \ {b} : ~(bound[c].active /\ bound[c].port = n)

\* upsertIngressBindingExec fails on the index and rolls the transaction back
Upsert(b, n) ==
  /\ PortFreeFor(b, n)
  /\ bound' = [bound EXCEPT ![b] = [active |-> TRUE, port |-> n]]

Written(n, o) == [ledger EXCEPT ![n] = [id |-> rows + 1, owner |-> o]]

Lowest(S) == CHOOSE n \in S : \A m \in S : n <= m

\* Mutant of PortFor: the owner's row is not looked up.
FirstFree(o) == IF Ports \ Taken # {} /\ rows < MaxRows THEN Lowest(Ports \ Taken) ELSE 0

\* allocateIngressListenPortInTx: the owner's port, or the first the ledger has free; 0 if none
PortFor(o) ==
  IF RowsOf(o) # {} THEN Lowest(RowsOf(o))
  ELSE IF Ports \ Taken # {} /\ rows < MaxRows THEN Lowest(Ports \ Taken) ELSE 0

\* the row of the port and the binding's, in one transaction
AttachTx(b) ==
  LET n == PortFor(b) IN
  /\ n # 0 /\ Upsert(b, n)
  /\ IF RowsOf(b) # {} THEN UNCHANGED <<ledger, rows>>
     ELSE ledger' = Written(n, b) /\ rows' = rows + 1

\* AdoptStableIngressPortForBinding: the reserve's row changes its owner
AdoptTx(p) ==
  IF RowsOf(Reserve(p)) = {} THEN AttachTx(Prod(p))
  ELSE LET n == Lowest(RowsOf(Reserve(p))) IN
       /\ Upsert(Prod(p), n)
       /\ ledger' = [ledger EXCEPT ![n].owner = Prod(p)] /\ UNCHANGED rows

Freed(S) == [n \in Ports |-> IF n \in S THEN NoRow ELSE ledger[n]]

Asked == due' = 1

-----------------------------------------------------------------------------
(* The calls.                                                                *)

\* POST /projects, with or without prod_listen_port; a conflict undoes both inserts
CreateProject(p) ==
  /\ p \notin created /\ created' = created \cup {p}
  /\ \/ UNCHANGED <<ledger, rows>>
     \/ /\ rows < MaxRows /\ tier[p] # "host"
        /\ \E n \in Ports \ Taken : ledger' = Written(n, Reserve(p))
        /\ rows' = rows + 1
  /\ UNCHANGED <<tier, bound, had, open, rec, due, lost, mishaps>>

\* at the end of a deploy, and of a wake
EnsurePreview(p) ==
  /\ p \in created
  /\ IF tier[p] = "dedicated_port" THEN AttachTx(Preview(p))
     ELSE Upsert(Preview(p), 0) /\ UNCHANGED <<ledger, rows>>
  /\ Asked
  /\ UNCHANGED <<tier, created, had, open, rec, lost, mishaps>>

\* ensureProdIngress of a deploy or a promote reads the binding first, and takes an
\* error for no binding; however many calls are under way, n is what one of them
\* has read.  It keeps that port, or finds one.  (A call that fails is only logged.)
EnsureProd(p, n) ==
  /\ p \in created /\ n \in {0} \cup had[p]
  /\ IF n # 0 \/ tier[p] = "host"
     THEN Upsert(Prod(p), n) /\ UNCHANGED <<ledger, rows>>
     ELSE AdoptTx(p)
  /\ had' = [had EXCEPT ![p] = @ \cup ({bound'[Prod(p)].port} \ {0})]
  /\ Asked
  /\ UNCHANGED <<tier, created, open, rec, lost, mishaps>>

\* Mutant of Detach: the binding keeps its port.
DetachRowOnly(p) ==
  /\ bound[Preview(p)].active
  /\ ledger' = Freed(RowsOf(Preview(p)))
  /\ Asked
  /\ UNCHANGED <<tier, created, rows, bound, had, open, rec, lost, mishaps>>

\* archive; the binding keeps its host and stays active
Detach(p) ==
  /\ bound[Preview(p)].active
  /\ ledger' = Freed(RowsOf(Preview(p)))
  /\ bound' = [bound EXCEPT ![Preview(p)].port = 0]
  /\ Asked
  /\ UNCHANGED <<tier, created, rows, had, open, rec, lost, mishaps>>

\* teardownPreviewIngress of a failed deploy: the Detach before, then this
Deactivate(p) ==
  /\ bound[Preview(p)].active /\ bound[Preview(p)].port = 0
  /\ bound' = [bound EXCEPT ![Preview(p)].active = FALSE]
  /\ Asked
  /\ UNCHANGED <<tier, created, ledger, rows, had, open, rec, lost, mishaps>>

-----------------------------------------------------------------------------
(* ReconcileIngressListeners.                                                *)

BeginReconcile ==
  /\ rec.at = "idle" /\ due = 1 /\ due' = 0
  /\ rec' = [NoRec EXCEPT !.at = "visit", !.list = {<<n, ledger[n]>> : n \in Taken}]
  /\ UNCHANGED <<tier, created, ledger, rows, bound, had, open, lost, mishaps>>

\* the binding a row names is active on its port; a reserve names none
Serves(n, o) == o \in Bindings /\ bound[o].active /\ bound[o].port = n

Visit(x) ==
  /\ rec.at = "visit" /\ x \in rec.list
  /\ rec' = IF Serves(x[1], x[2].owner)
            THEN [rec EXCEPT !.list = @ \ {x}, !.want = @ \cup {x[1]}]
            ELSE [rec EXCEPT !.list = @ \ {x}, !.at = "release", !.row = x]
  /\ UNCHANGED <<tier, created, ledger, rows, bound, had, open, due, lost, mishaps>>

\* ReleasePort takes the row by its id, whoever owns it by now
ReleaseOrphan ==
  LET n == rec.row[1] row == rec.row[2] IN
  /\ rec.at = "release" /\ rec' = [rec EXCEPT !.at = "visit", !.row = NoRec.row]
  /\ IF ledger[n].id = row.id
     THEN /\ ledger' = Freed({n})
          /\ lost' = IF ledger[n].owner # row.owner THEN lost \cup {ledger[n].owner} ELSE lost
     ELSE UNCHANGED <<ledger, lost>>
  /\ UNCHANGED <<tier, created, rows, bound, had, open, due, mishaps>>

Listen ==
  /\ rec.at = "visit" /\ rec.list = {} /\ rec' = NoRec /\ open' = rec.want
  /\ UNCHANGED <<tier, created, ledger, rows, bound, had, due, lost, mishaps>>

Mishaps == mishaps.restarts + mishaps.errors

\* a port that is refused ends the pass before any listener is closed; a shutdown
\* that times out, before the others are
ListenFails ==
  /\ rec.at = "visit" /\ rec.list = {} /\ rec' = NoRec
  /\ Mishaps < MaxMishaps /\ mishaps' = [mishaps EXCEPT !.errors = @ + 1]
  /\ \/ \E S \in SUBSET (rec.want \ open) : S # rec.want \ open /\ open' = open \cup S
     \/ \E S \in SUBSET (open \ rec.want) : S # {} /\ open' = rec.want \cup S
  /\ UNCHANGED <<tier, created, ledger, rows, bound, had, due, lost>>

\* cellpd stops (CloseAll) or dies; the next one reconciles before it serves
Restart ==
  /\ Mishaps < MaxMishaps /\ mishaps' = [mishaps EXCEPT !.restarts = @ + 1]
  /\ open' = {} /\ rec' = NoRec /\ due' = 1
  /\ had' = [p \in Projects |-> {bound[Prod(p)].port} \ {0}]
  /\ UNCHANGED <<tier, created, ledger, rows, bound, lost>>

ReconcileStep == BeginReconcile \/ (\E x \in rec.list : Visit(x)) \/ ReleaseOrphan \/ Listen

PortNext ==
  \/ \E p \in Projects :
       \/ CreateProject(p) \/ EnsurePreview(p) \/ Detach(p) \/ Deactivate(p)
       \/ \E n \in {0} \cup Ports : EnsureProd(p, n)
  \/ ReconcileStep \/ ListenFails \/ Restart

PortSpec == PortInit /\ [][PortNext]_portVars

-----------------------------------------------------------------------------
(* Properties.                                                               *)

PortTypeOK ==
  /\ tier \in [Projects -> {"host", "prod_port", "dedicated_port"}] /\ created \subseteq Projects
  /\ rows \in 0 .. MaxRows /\ ledger \in [Ports -> Row \cup {NoRow}]
  /\ bound \in [Bindings -> [active : BOOLEAN, port : Ports \cup {0}]]
  /\ had \in [Projects -> SUBSET Ports]
  /\ open \subseteq Ports /\ due \in 0 .. 1 /\ lost \subseteq Owners
  /\ rec.at \in {"idle", "visit", "release"} /\ rec.want \subseteq Ports
  /\ rec.list \subseteq Ports \X Row /\ rec.row \in Ports \X Row \cup {NoRec.row}

HasRow(b) == bound[b].port # 0 /\ ledger[bound[b].port].owner = b

(* R-PORT-LEDGER of docs/plans/INGRESS-PORT-DEPLOYMENT.md: an active binding  *)
(* with a port has the ledger's row of it.                                    *)
PortLedgerRule == \A b \in Bindings : bound[b].active /\ bound[b].port # 0 => HasRow(b)

(* The rule breaks in one way only: the reconciliation listed the row while   *)
(* it was the reserve's, and released it after the prod binding had it.       *)
LedgerCoversBindings ==
  \A b \in Bindings : bound[b].active /\ bound[b].port # 0 => HasRow(b) \/ b \in lost

(* An owner has one port: no index says so, only the order of the lookups and *)
(* the inserts inside each transaction.                                       *)
OneRowPerOwner == \A o \in Owners : Cardinality(RowsOf(o)) <= 1

(* A row is released for the binding that gave the port up: the port of an    *)
(* active binding is never handed to another (but after the loss above).      *)
PortsApart ==
  \A b, c \in Bindings :
    b # c /\ bound[b].port # 0 /\ bound[b].port = bound[c].port => {b, c} \cap lost # {}

(* R-PROD-PORT-STABLE: once the prod binding of a project has a port, no      *)
(* promote, deploy, reconciliation or restart changes it, however many calls  *)
(* are under way with what they read before it had one (but after the loss    *)
(* above).                                                                    *)
ProdPortStable ==
  [][\A p \in Projects :
       bound[Prod(p)].port # 0 /\ Prod(p) \notin lost => bound'[Prod(p)].port = bound[Prod(p)].port]_portVars

(* When every reconciliation asked for has run and none met an error, cellpd  *)
(* listens on the ports the ledger has for the bindings, and no other.        *)
ListenersFollowLedger ==
  rec.at = "idle" /\ due = 0 /\ mishaps.errors = 0
    => open = {n \in Ports : ledger[n] # NoRow /\ Serves(n, ledger[n].owner)}

(* The ledger, the bindings and the listeners agree.                          *)
LedgerSound ==
  PortTypeOK /\ LedgerCoversBindings /\ OneRowPerOwner /\ PortsApart /\ ListenersFollowLedger

=============================================================================
