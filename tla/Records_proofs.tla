---------------------------- MODULE Records_proofs ----------------------------
(***************************************************************************)
(* Proofs about two records that many processes write.  PortLedger: for    *)
(* any number of projects, of ports, of rows and of mishaps, the ledger,   *)
(* the bindings and the listeners agree, and a production binding keeps    *)
(* its port.  ServingDesire: for any number of operators, cold requests,   *)
(* deploys, promotions, crons and wakes, the operators' shared pin is held *)
(* and given back, and a version is made cold only when nobody wants it.   *)
(***************************************************************************)
EXTENDS PortLedger, ServingDesire, TLAPS, FiniteSetTheorems, WellFoundedInduction

-----------------------------------------------------------------------------
(* The ledger of ports. *)

Tiers == {"host", "prod_port", "dedicated_port"}

PortTyped ==
  /\ tier \in [Projects -> Tiers] /\ created \subseteq Projects
  /\ rows \in 0 .. MaxRows /\ ledger \in [Ports -> Row \cup {NoRow}]
  /\ bound \in [Bindings -> [active : BOOLEAN, port : Ports \cup {0}]]
  /\ had \in [Projects -> SUBSET Ports]
  /\ open \subseteq Ports /\ due \in 0 .. 1 /\ lost \subseteq {Prod(p) : p \in Projects}
  /\ rec \in [at : {"idle", "visit", "release"}, list : SUBSET (Ports \X Row),
              row : Ports \X Row \cup {NoRec.row}, want : SUBSET Ports]
  /\ rec.at = "release" => rec.row \in Ports \X Row
  /\ mishaps \in [restarts : Nat, errors : Nat]

\* An owner has one row, and a project's reserve gives way to its prod binding.
OwnersSound ==
  /\ \A m, n \in Taken : ledger[m].owner = ledger[n].owner => m = n
  /\ \A p \in Projects, n \in Taken :
       /\ ledger[n].owner \in {Prod(p), Reserve(p)} => p \in created /\ tier[p] # "host"
       /\ ledger[n].owner = Preview(p) => tier[p] = "dedicated_port"
  /\ \A p \in Projects, m, n \in Taken :
       ~(ledger[m].owner = Reserve(p) /\ ledger[n].owner = Prod(p))

\* The row of a binding and its port say the same, unless its row was lost.
BindingsSound ==
  /\ \A b \in Bindings : ~bound[b].active => bound[b].port = 0
  /\ \A b \in Bindings \ lost, n \in Taken :
       ledger[n].owner = b => bound[b].active /\ bound[b].port = n
  /\ \A b \in Bindings \ lost : bound[b].port # 0 => ledger[bound[b].port].owner = b

\* What calls have read of a prod binding's port is the port it still has.
ReadsSound ==
  \A p \in Projects :
    /\ tier[p] = "host" => bound[Prod(p)].port = 0 /\ had[p] = {}
    /\ Prod(p) \notin lost => had[p] \subseteq {bound[Prod(p)].port}

\* The row x was listed and still is in the ledger.
Still(x) == ledger[x[1]].id = x[2].id

\* Rows change their owner in one way.
Follows(x) ==
  Still(x) => \/ ledger[x[1]].owner = x[2].owner
              \/ \E p \in Projects : x[2].owner = Reserve(p) /\ ledger[x[1]].owner = Prod(p)

\* Ids are not used again, and what is to be released is not a binding's.
ListSound ==
  /\ \A n \in Ports : ledger[n].id <= rows
  /\ \A x \in rec.list : x[2].id <= rows /\ Follows(x)
  /\ rec.at = "release" =>
       /\ rec.row[2].id <= rows /\ Follows(rec.row)
       /\ Still(rec.row) /\ rec.row[2].owner \in Bindings => rec.row[2].owner \in lost

ServedPorts == {n \in Taken : Serves(n, ledger[n].owner)}

\* Nobody has asked for another reconciliation: what the one under way has seen and
\* has still to see is what is served.
ListenSound ==
  due = 0 =>
    /\ rec.at = "idle" /\ mishaps.errors = 0 => open = ServedPorts
    /\ rec.at # "idle" =>
         /\ \A x \in rec.list : ledger[x[1]] = x[2]
         /\ rec.at = "release" =>
              /\ ledger[rec.row[1]] = rec.row[2] /\ ~Serves(rec.row[1], rec.row[2].owner)
              /\ \A x \in rec.list : x[1] # rec.row[1]
         /\ \A n \in Ports : n \in ServedPorts <=>
              n \in rec.want \/ \E x \in rec.list : x[1] = n /\ Serves(n, x[2].owner)

PortInv == PortTyped /\ OwnersSound /\ BindingsSound /\ ReadsSound /\ ListSound /\ ListenSound

-----------------------------------------------------------------------------
(* Owners, ports and rows.                                                  *)

\* The owners of rows have different names.
LEMMA OwnersApart ==
  /\ \A p \in Projects : Prod(p) \in Bindings /\ Preview(p) \in Bindings /\ Reserve(p) \notin Bindings
  /\ \A p, q \in Projects : /\ Prod(p) = Prod(q) => p = q
                            /\ Preview(p) = Preview(q) => p = q
                            /\ Reserve(p) = Reserve(q) => p = q
                            /\ Prod(p) # Preview(q) /\ Prod(p) # Reserve(q) /\ Preview(p) # Reserve(q)
  /\ \A b \in Bindings : \E p \in Projects : b = Prod(p) \/ b = Preview(p)
  /\ \A o \in Owners : o \in Bindings \/ \E p \in Projects : o = Reserve(p)
  /\ \A p \in Projects : Prod(p) \in Owners /\ Preview(p) \in Owners /\ Reserve(p) \in Owners
BY DEF Prod, Preview, Reserve, Bindings, Owners

\* 0 is no port.
LEMMA PortsPositive == Ports \subseteq Nat /\ 0 \notin Ports /\ \A n \in Ports : n > 0
BY PortAssumption DEF Ports

\* Rows are not the empty row.
LEMMA RowFacts ==
  /\ NoRow \notin Row /\ NoRow.id = 0
  /\ \A row \in Row : row.id \in Nat /\ row.id > 0 /\ row.owner \in Owners /\ row # NoRow
  /\ NoRec.row = <<0, NoRow>> /\ NoRec.at = "idle" /\ NoRec.list = {} /\ NoRec.want = {}
BY PortAssumption DEF NoRow, Row, NoRec

\* The lowest port of a set is in it.
LEMMA LowestIn == ASSUME NEW S, S \subseteq Ports, S # {} PROVE Lowest(S) \in S
<1>1. S \subseteq Nat
  BY PortsPositive
<1>2. PICK n \in S : \A m \in S : ~(<<m, n>> \in OpToRel(<, Nat))
  BY <1>1, NatLessThanWellFounded, WFMin
<1>3. ASSUME NEW m \in S, m < n PROVE FALSE
  <2>1. <<m, n>> \in Nat \X Nat /\ <<m, n>>[1] < <<m, n>>[2]
    BY <1>1, <1>3
  <2>2. <<m, n>> \in OpToRel(<, Nat)
    BY <2>1 DEF OpToRel
  <2>3. QED BY <1>2, <2>2
<1>4. \A m \in S : n <= m
  BY <1>1, <1>3
<1>5. QED BY <1>4 DEF Lowest

\* The port an owner gets is its own, or a free one.
LEMMA PortForFits ==
  ASSUME PortTyped, NEW o \in Owners, PortFor(o) # 0
  PROVE  /\ PortFor(o) \in Ports
         /\ RowsOf(o) # {} => PortFor(o) \in RowsOf(o)
         /\ RowsOf(o) = {} => PortFor(o) \notin Taken /\ rows < MaxRows
<1>1. RowsOf(o) \subseteq Ports /\ Ports \ Taken \subseteq Ports
  BY DEF RowsOf, Taken
<1>2. RowsOf(o) # {} => Lowest(RowsOf(o)) \in RowsOf(o)
  BY <1>1, LowestIn
<1>3. Ports \ Taken # {} => Lowest(Ports \ Taken) \in Ports \ Taken
  BY <1>1, LowestIn
<1>4. QED BY <1>1, <1>2, <1>3 DEF PortFor

-----------------------------------------------------------------------------
\* The invariant holds at first.
LEMMA PortInitially == PortInit => PortInv
<1> SUFFICES ASSUME PortInit PROVE PortInv
  OBVIOUS
<1>1. Taken = {}
  BY DEF PortInit, Taken
<1>2. \A b \in Bindings : bound[b].port = 0 /\ ~bound[b].active
  BY DEF PortInit, Unbound
<1>3. rec.at = "idle" /\ rec.list = {} /\ due = 1
  BY RowFacts DEF PortInit
<1>4. PortTyped
  <2>1. rows \in 0 .. MaxRows /\ due \in 0 .. 1
    BY PortAssumption DEF PortInit
  <2>2. bound \in [Bindings -> [active : BOOLEAN, port : Ports \cup {0}]]
    BY DEF PortInit, Unbound
  <2>3. rec \in [at : {"idle", "visit", "release"}, list : SUBSET (Ports \X Row),
                 row : Ports \X Row \cup {NoRec.row}, want : SUBSET Ports]
    BY DEF PortInit, NoRec
  <2>4. mishaps \in [restarts : Nat, errors : Nat]
    BY DEF PortInit
  <2>5. tier \in [Projects -> Tiers] /\ created \subseteq Projects /\ ledger \in [Ports -> Row \cup {NoRow}]
        /\ had \in [Projects -> SUBSET Ports] /\ open \subseteq Ports /\ lost = {}
    BY DEF PortInit, Tiers
  <2>6. QED BY <1>3, <2>1, <2>2, <2>3, <2>4, <2>5 DEF PortTyped
<1>5. OwnersSound
  BY <1>1 DEF OwnersSound
<1>6. BindingsSound
  BY <1>1, <1>2 DEF BindingsSound
<1>7. ReadsSound
  BY <1>2, OwnersApart DEF ReadsSound, PortInit
<1>8. ListSound
  BY <1>3, RowFacts DEF ListSound, PortInit
<1>9. ListenSound
  BY <1>3 DEF ListenSound
<1>10. QED BY <1>4, <1>5, <1>6, <1>7, <1>8, <1>9 DEF PortInv

\* It implies the property the runs check.
LEMMA PortSuffices == PortInv => LedgerSound
<1> SUFFICES ASSUME PortInv PROVE LedgerSound
  OBVIOUS
<1>1. PortTypeOK
  BY OwnersApart DEF PortInv, PortTyped, PortTypeOK, Tiers
<1>2. LedgerCoversBindings
  BY DEF PortInv, BindingsSound, LedgerCoversBindings, HasRow
<1>3. OneRowPerOwner
  <2> SUFFICES ASSUME NEW o \in Owners PROVE Cardinality(RowsOf(o)) <= 1
    BY DEF OneRowPerOwner
  <2>1. CASE RowsOf(o) = {}
    BY <2>1, FS_EmptySet
  <2>2. ASSUME NEW n \in RowsOf(o) PROVE Cardinality(RowsOf(o)) <= 1
    <3>1. RowsOf(o) = {n}
      BY DEF RowsOf, PortInv, OwnersSound
    <3>2. Cardinality({n}) = 1
      BY FS_Singleton
    <3>3. QED BY <3>1, <3>2
  <2>3. QED BY <2>1, <2>2
<1>4. PortsApart
  BY DEF PortInv, BindingsSound, PortsApart
<1>5. ListenersFollowLedger
  BY DEF PortInv, ListenSound, ListenersFollowLedger, ServedPorts, Taken
<1>6. QED BY <1>1, <1>2, <1>3, <1>4, <1>5 DEF LedgerSound

-----------------------------------------------------------------------------
(* What a call writes.                                                      *)

\* The parts of the invariant that no call touches but through the ledger.
Aloof == UNCHANGED <<tier, open, rec, lost, mishaps>>

\* Every row of the ledger is as it was, is new, is gone, or was a reserve's.
Rewritten ==
  /\ rows' \in {rows, rows + 1} /\ rows' <= MaxRows
  /\ ledger' \in [Ports -> Row \cup {NoRow}]
  /\ \A n \in Ports :
       \/ ledger'[n] = ledger[n] \/ ledger'[n] = NoRow
       \/ ledger'[n].id = rows + 1 /\ rows' = rows + 1
       \/ /\ ledger[n] # NoRow /\ ledger'[n].id = ledger[n].id
          /\ \E p \in Projects : ledger[n].owner = Reserve(p) /\ ledger'[n].owner = Prod(p)

\* What was listed still follows the ledger, whatever calls write.
LEMMA ListFollows ==
  ASSUME PortTyped, ListSound, Rewritten, UNCHANGED rec, lost \subseteq lost'
  PROVE  ListSound'
<1>1. rows \in Nat /\ rows' \in Nat /\ rows <= rows'
  BY PortAssumption DEF PortTyped, Rewritten
<1>2. ASSUME NEW n \in Ports PROVE ledger'[n].id <= rows' /\ ledger[n].id \in Nat
  BY <1>1, RowFacts DEF PortTyped, Rewritten, ListSound
<1>3. ASSUME NEW x \in Ports \X Row, x[2].id <= rows, Follows(x)
      PROVE  x[2].id <= rows' /\ Follows(x)' /\ (Still(x)' => Still(x))
  <2>1. x[1] \in Ports /\ x[2] \in Row /\ x[2].id \in Nat /\ x[2].id > 0
    BY RowFacts
  <2>2. CASE ledger'[x[1]] = ledger[x[1]]
    BY <1>1, <1>3, <2>1, <2>2 DEF Follows, Still
  <2>3. CASE ledger'[x[1]] = NoRow
    BY <1>1, <1>3, <2>1, <2>3, RowFacts DEF Follows, Still
  <2>4. CASE ledger'[x[1]].id = rows + 1
    BY <1>1, <1>3, <2>1, <2>4 DEF Follows, Still
  <2>5. ASSUME ledger'[x[1]].id = ledger[x[1]].id, NEW p \in Projects,
               ledger[x[1]].owner = Reserve(p), ledger'[x[1]].owner = Prod(p)
        PROVE  x[2].id <= rows' /\ Follows(x)' /\ (Still(x)' => Still(x))
    BY <1>1, <1>3, <2>1, <2>5, OwnersApart DEF Follows, Still
  <2>6. QED BY <2>1, <2>2, <2>3, <2>4, <2>5 DEF Rewritten
<1>4. QED BY <1>2, <1>3 DEF ListSound, PortTyped

\* A binding's transaction: the port of its row, or a new row at a free port.
LEMMA AttachWrites ==
  ASSUME PortInv, NEW b \in Bindings, AttachTx(b)
  PROVE  \E n \in Ports :
           /\ bound' = [bound EXCEPT ![b] = [active |-> TRUE, port |-> n]]
           /\ \/ n \in Taken /\ ledger[n].owner = b /\ UNCHANGED <<ledger, rows>>
              \/ /\ RowsOf(b) = {} /\ n \notin Taken /\ rows < MaxRows
                 /\ ledger' = [ledger EXCEPT ![n] = [id |-> rows + 1, owner |-> b]]
                 /\ rows' = rows + 1
<1>1. b \in Owners
  BY DEF Bindings, Owners
<1>2. PortFor(b) # 0 /\ Upsert(b, PortFor(b))
      /\ IF RowsOf(b) # {} THEN UNCHANGED <<ledger, rows>>
         ELSE ledger' = Written(PortFor(b), b) /\ rows' = rows + 1
  BY DEF AttachTx
<1>3. QED BY <1>1, <1>2, PortForFits DEF PortInv, Upsert, Written, RowsOf

\* A new row is typed, and leaves the others alone.
LEMMA NewRow ==
  ASSUME PortInv, NEW o \in Owners, NEW n \in Ports, n \notin Taken, rows < MaxRows,
         ledger' = [ledger EXCEPT ![n] = [id |-> rows + 1, owner |-> o]], rows' = rows + 1
  PROVE  /\ Rewritten /\ Taken' = Taken \cup {n} /\ ledger'[n].owner = o
         /\ \A m \in Taken : ledger'[m] = ledger[m]
<1>1. rows \in Nat /\ MaxRows \in Nat /\ rows' \in Nat /\ rows' <= MaxRows
  BY PortAssumption DEF PortInv, PortTyped
<1>2. PICK row \in Row : row = [id |-> rows + 1, owner |-> o]
  <2>1. rows + 1 \in 1 .. MaxRows
    BY <1>1
  <2>2. QED BY <2>1 DEF Row
<1>3. row # NoRow /\ row.id = rows + 1 /\ row.owner = o
  BY <1>2, RowFacts
<1>4. /\ ledger' \in [Ports -> Row \cup {NoRow}] /\ ledger'[n] = row
      /\ \A m \in Ports \ {n} : ledger'[m] = ledger[m]
  BY <1>2 DEF PortInv, PortTyped
<1>5. Rewritten
  BY <1>1, <1>3, <1>4 DEF Rewritten
<1>6. QED BY <1>3, <1>4, <1>5 DEF Taken

\* A call that asks for a reconciliation.
LEMMA CallKeeps ==
  ASSUME PortInv, Rewritten, Asked, UNCHANGED <<tier, created, open, rec, lost, mishaps>>,
         bound' \in [Bindings -> [active : BOOLEAN, port : Ports \cup {0}]],
         had' \in [Projects -> SUBSET Ports],
         OwnersSound', BindingsSound', ReadsSound'
  PROVE  PortInv'
<1>1. ListSound'
  BY ListFollows DEF PortInv
<1>2. ListenSound'
  BY DEF Asked, ListenSound
<1>3. rows' \in 0 .. MaxRows
  BY PortAssumption DEF Rewritten, PortInv, PortTyped
<1>4. PortTyped'
  BY <1>3 DEF PortInv, PortTyped, Rewritten, Asked
<1>5. QED BY <1>1, <1>2, <1>4 DEF PortInv

\* A binding gets the row it has, or one of its own.
LEMMA AttachKeeps ==
  ASSUME PortInv, NEW b \in Bindings, AttachTx(b), UNCHANGED <<tier, created, lost>>,
         NEW p \in Projects, p \in created,
         \/ b = Preview(p) /\ tier[p] = "dedicated_port"
         \/ b = Prod(p) /\ tier[p] # "host" /\ RowsOf(Reserve(p)) = {}
  PROVE  /\ Rewritten /\ OwnersSound' /\ BindingsSound'
         /\ bound' \in [Bindings -> [active : BOOLEAN, port : Ports \cup {0}]]
         /\ bound'[b].port \in Ports
         /\ \A c \in Bindings \ {b} : bound'[c] = bound[c]
         /\ b \notin lost /\ bound[b].port # 0 => bound'[b].port = bound[b].port
<1>1. PICK n \in Ports :
           /\ bound' = [bound EXCEPT ![b] = [active |-> TRUE, port |-> n]]
           /\ \/ n \in Taken /\ ledger[n].owner = b /\ UNCHANGED <<ledger, rows>>
              \/ /\ RowsOf(b) = {} /\ n \notin Taken /\ rows < MaxRows
                 /\ ledger' = [ledger EXCEPT ![n] = [id |-> rows + 1, owner |-> b]]
                 /\ rows' = rows + 1
  BY AttachWrites
<1>2. /\ bound' \in [Bindings -> [active : BOOLEAN, port : Ports \cup {0}]]
      /\ bound'[b].port = n /\ bound'[b].active
      /\ \A c \in Bindings \ {b} : bound'[c] = bound[c]
  BY <1>1 DEF PortInv, PortTyped
<1>3. n # 0 /\ b \in Owners
  BY PortsPositive DEF Bindings, Owners
<1>4. CASE n \in Taken /\ ledger[n].owner = b /\ UNCHANGED <<ledger, rows>>
  <2>1. Rewritten
    BY <1>4 DEF Rewritten, PortInv, PortTyped
  <2>2. Taken' = Taken
    BY <1>4 DEF Taken
  <2>3. OwnersSound'
    BY <1>4, <2>2 DEF PortInv, OwnersSound
  <2>4. BindingsSound'
    BY <1>2, <1>3, <1>4, <2>2 DEF PortInv, BindingsSound, OwnersSound
  <2>5. b \notin lost /\ bound[b].port # 0 => bound'[b].port = bound[b].port
    BY <1>2, <1>4 DEF PortInv, BindingsSound
  <2>6. QED BY <1>2, <2>1, <2>3, <2>4, <2>5
<1>5. CASE /\ RowsOf(b) = {} /\ n \notin Taken /\ rows < MaxRows
           /\ ledger' = [ledger EXCEPT ![n] = [id |-> rows + 1, owner |-> b]]
           /\ rows' = rows + 1
  <2>1. /\ Rewritten /\ Taken' = Taken \cup {n} /\ ledger'[n].owner = b
        /\ \A m \in Taken : ledger'[m] = ledger[m]
    BY <1>3, <1>5, NewRow
  <2>2. \A m \in Taken : ledger[m].owner # b
    BY <1>5 DEF RowsOf
  <2>3. \A m \in Taken : b = Prod(p) => ledger[m].owner # Reserve(p)
    BY OwnersApart DEF RowsOf
  <2>4. OwnersSound'
    <3>1. \A m, k \in Taken' : ledger'[m].owner = ledger'[k].owner => m = k
      BY <2>1, <2>2 DEF PortInv, OwnersSound
    <3>2. ASSUME NEW q \in Projects, NEW m \in Taken'
          PROVE  /\ ledger'[m].owner \in {Prod(q), Reserve(q)} => q \in created' /\ tier'[q] # "host"
                 /\ ledger'[m].owner = Preview(q) => tier'[q] = "dedicated_port"
      BY <2>1, OwnersApart DEF PortInv, OwnersSound
    <3>3. ASSUME NEW q \in Projects, NEW m \in Taken', NEW k \in Taken'
          PROVE  ~(ledger'[m].owner = Reserve(q) /\ ledger'[k].owner = Prod(q))
      BY <2>1, <2>3, OwnersApart DEF PortInv, OwnersSound
    <3>4. QED BY <3>1, <3>2, <3>3 DEF OwnersSound
  <2>5. b \notin lost => bound[b].port = 0
    <3>1. bound[b].port \in Ports \cup {0} /\ NoRow.owner # b
      BY OwnersApart, SMTT(30) DEF PortInv, PortTyped, NoRow, Bindings
    <3>2. QED BY <2>2, <3>1 DEF PortInv, BindingsSound, Taken
  <2>6. BindingsSound'
    <3>1. \A c \in Bindings : bound[c].port \in Ports \cup {0} /\ NoRow.owner # c
      BY DEF PortInv, PortTyped, NoRow, Bindings
    <3>2. \A c \in Bindings : ~bound'[c].active => bound'[c].port = 0
      BY <1>2 DEF PortInv, BindingsSound
    <3>3. ASSUME NEW c \in Bindings \ lost, NEW m \in Taken', ledger'[m].owner = c
          PROVE  bound'[c].active /\ bound'[c].port = m
      BY <1>2, <2>1, <2>2, <3>3 DEF PortInv, BindingsSound
    <3>4. ASSUME NEW c \in Bindings \ lost, bound'[c].port # 0
          PROVE  ledger'[bound'[c].port].owner = c
      <4>1. CASE c = b
        BY <1>2, <2>1, <4>1
      <4>2. CASE c # b
        <5>1. bound'[c].port = bound[c].port /\ ledger[bound[c].port].owner = c /\ bound[c].port \in Taken
          BY <1>2, <3>1, <3>4, <4>2 DEF PortInv, BindingsSound, Taken
        <5>2. QED BY <2>1, <5>1
      <4>3. QED BY <4>1, <4>2
    <3>5. QED BY <3>2, <3>3, <3>4 DEF BindingsSound
  <2>7. QED BY <1>2, <2>1, <2>4, <2>5, <2>6
<1>6. QED BY <1>1, <1>4, <1>5

\* The reserve's row becomes the prod binding's.
LEMMA AdoptKeeps ==
  ASSUME PortInv, NEW p \in Projects, p \in created, tier[p] # "host", AdoptTx(p),
         UNCHANGED <<tier, created, lost>>
  PROVE  /\ Rewritten /\ OwnersSound' /\ BindingsSound'
         /\ bound' \in [Bindings -> [active : BOOLEAN, port : Ports \cup {0}]]
         /\ bound'[Prod(p)].port \in Ports
         /\ \A c \in Bindings \ {Prod(p)} : bound'[c] = bound[c]
         /\ Prod(p) \notin lost /\ bound[Prod(p)].port # 0
              => bound'[Prod(p)].port = bound[Prod(p)].port
<1> Prod(p) \in Bindings
  BY OwnersApart
<1>1. CASE RowsOf(Reserve(p)) = {}
  BY <1>1, AttachKeeps DEF AdoptTx
<1>2. CASE RowsOf(Reserve(p)) # {}
  <2>1. PICK n \in RowsOf(Reserve(p)) : n = Lowest(RowsOf(Reserve(p)))
    BY <1>2, LowestIn DEF RowsOf, Taken
  <2>2. n \in Ports /\ n \in Taken /\ ledger[n].owner = Reserve(p) /\ ledger[n] \in Row
    BY <2>1 DEF RowsOf, Taken, PortInv, PortTyped
  <2>3. /\ bound' = [bound EXCEPT ![Prod(p)] = [active |-> TRUE, port |-> n]]
        /\ ledger' = [ledger EXCEPT ![n].owner = Prod(p)] /\ rows' = rows
    BY <1>2, <2>1 DEF AdoptTx, Upsert
  <2>4. PICK row : row = [ledger[n] EXCEPT !.owner = Prod(p)]
    OBVIOUS
  <2>5. row \in Row /\ row.id = ledger[n].id /\ row.owner = Prod(p) /\ row # NoRow
    BY <2>2, <2>4, OwnersApart, RowFacts DEF Row
  <2>6. /\ ledger' \in [Ports -> Row \cup {NoRow}] /\ ledger'[n] = row
        /\ \A m \in Ports \ {n} : ledger'[m] = ledger[m]
    BY <2>2, <2>3, <2>4, <2>5 DEF PortInv, PortTyped
  <2>7. Rewritten
    <3>1. rows' \in {rows, rows + 1} /\ rows' <= MaxRows
      BY <2>3, PortAssumption DEF PortInv, PortTyped
    <3>2. QED BY <2>2, <2>5, <2>6, <3>1, RowFacts DEF Rewritten
  <2>8. Taken' = Taken
    BY <2>2, <2>5, <2>6 DEF Taken
  <2>9. \A m \in Taken : ledger[m].owner # Prod(p) /\ (ledger[m].owner = Reserve(p) => m = n)
    BY <2>2 DEF PortInv, OwnersSound
  <2>10. \A m \in Taken : m \in Ports
    BY DEF Taken
  <2>11. OwnersSound'
    <3>1. \A m, k \in Taken' : ledger'[m].owner = ledger'[k].owner => m = k
      BY <2>5, <2>6, <2>8, <2>9, <2>10 DEF PortInv, OwnersSound
    <3>2. ASSUME NEW q \in Projects, NEW m \in Taken'
          PROVE  /\ ledger'[m].owner \in {Prod(q), Reserve(q)} => q \in created' /\ tier'[q] # "host"
                 /\ ledger'[m].owner = Preview(q) => tier'[q] = "dedicated_port"
      BY <2>5, <2>6, <2>8, <2>10, OwnersApart DEF PortInv, OwnersSound
    <3>3. ASSUME NEW q \in Projects, NEW m \in Taken', NEW k \in Taken'
          PROVE  ~(ledger'[m].owner = Reserve(q) /\ ledger'[k].owner = Prod(q))
      BY <2>5, <2>6, <2>8, <2>9, <2>10, OwnersApart DEF PortInv, OwnersSound
    <3>4. QED BY <3>1, <3>2, <3>3 DEF OwnersSound
  <2>12. /\ bound' \in [Bindings -> [active : BOOLEAN, port : Ports \cup {0}]]
         /\ bound'[Prod(p)].port = n /\ bound'[Prod(p)].active
         /\ \A c \in Bindings \ {Prod(p)} : bound'[c] = bound[c]
    BY <2>2, <2>3 DEF PortInv, PortTyped
  <2>13. \A c \in Bindings : bound[c].port \in Ports \cup {0} /\ NoRow.owner # c
    BY SMTT(30) DEF PortInv, PortTyped, NoRow, Bindings
  <2>14. Prod(p) \notin lost => bound[Prod(p)].port = 0
    BY <2>9, <2>13 DEF PortInv, BindingsSound, Taken
  <2>15. BindingsSound'
    <3>1. \A c \in Bindings : ~bound'[c].active => bound'[c].port = 0
      BY <2>12 DEF PortInv, BindingsSound
    <3>2. ASSUME NEW c \in Bindings \ lost, NEW m \in Taken', ledger'[m].owner = c
          PROVE  bound'[c].active /\ bound'[c].port = m
      BY <2>5, <2>6, <2>8, <2>9, <2>10, <2>12, <3>2 DEF PortInv, BindingsSound
    <3>3. ASSUME NEW c \in Bindings \ lost, bound'[c].port # 0
          PROVE  ledger'[bound'[c].port].owner = c
      <4>1. CASE c = Prod(p)
        BY <2>5, <2>6, <2>12, <4>1
      <4>2. CASE c # Prod(p)
        <5>1. bound'[c].port = bound[c].port /\ ledger[bound[c].port].owner = c /\ bound[c].port \in Ports
          BY <2>12, <2>13, <3>3, <4>2 DEF PortInv, BindingsSound
        <5>2. bound[c].port # n
          BY <2>2, <5>1, OwnersApart
        <5>3. QED BY <2>6, <5>1, <5>2
      <4>3. QED BY <4>1, <4>2
    <3>4. QED BY <3>1, <3>2, <3>3 DEF BindingsSound
  <2>16. QED BY <2>2, <2>7, <2>11, <2>12, <2>14, <2>15
<1>3. QED BY <1>1, <1>2

-----------------------------------------------------------------------------
(* The calls.                                                               *)

LEMMA CreateKeeps == ASSUME PortInv, NEW p \in Projects, CreateProject(p) PROVE PortInv'
<1>1. p \notin created /\ created' = created \cup {p}
      /\ UNCHANGED <<tier, bound, had, open, rec, due, lost, mishaps>>
  BY DEF CreateProject
<1>2. ASSUME Rewritten, Taken \subseteq Taken', \A m \in Taken : ledger'[m] = ledger[m],
             OwnersSound', BindingsSound', ServedPorts' = ServedPorts
      PROVE  PortInv'
  <2>1. ListSound'
    BY <1>1, <1>2, ListFollows DEF PortInv
  <2>2. rows' \in 0 .. MaxRows
    BY <1>2, PortAssumption DEF Rewritten, PortInv, PortTyped
  <2>3. PortTyped'
    BY <1>1, <1>2, <2>2 DEF PortInv, PortTyped, Rewritten
  <2>4. ReadsSound'
    BY <1>1 DEF PortInv, ReadsSound
  <2>5. ListenSound'
    <3>1. \A x \in Ports \X Row : ledger[x[1]] = x[2] => ledger'[x[1]] = x[2]
      BY <1>2, RowFacts DEF Taken
    <3>2. rec.list \subseteq Ports \X Row /\ (rec.at = "release" => rec.row \in Ports \X Row)
      BY DEF PortInv, PortTyped
    <3>3. \A n, o : Serves(n, o)' <=> Serves(n, o)
      BY <1>1 DEF Serves
    <3>4. QED BY <1>1, <1>2, <3>1, <3>2, <3>3 DEF PortInv, ListenSound
  <2>6. QED BY <1>2, <2>1, <2>3, <2>4, <2>5 DEF PortInv
<1>3. CASE UNCHANGED <<ledger, rows>>
  <2>1. Taken' = Taken
    BY <1>3 DEF Taken
  <2>2. ServedPorts' = ServedPorts
    BY <1>1, <1>3, <2>1 DEF ServedPorts, Serves
  <2>3. Rewritten
    BY <1>3, PortAssumption DEF Rewritten, PortInv, PortTyped
  <2>4. OwnersSound'
    BY <1>1, <1>3, <2>1 DEF PortInv, OwnersSound
  <2>5. BindingsSound'
    BY <1>1, <1>3, <2>1 DEF PortInv, BindingsSound
  <2>6. QED BY <1>2, <1>3, <2>1, <2>2, <2>3, <2>4, <2>5
<1>4. ASSUME rows < MaxRows, tier[p] # "host", NEW n \in Ports \ Taken,
             ledger' = Written(n, Reserve(p)), rows' = rows + 1
      PROVE  PortInv'
  <2>1. /\ Rewritten /\ Taken' = Taken \cup {n} /\ ledger'[n].owner = Reserve(p)
        /\ \A m \in Taken : ledger'[m] = ledger[m]
    BY <1>4, NewRow, OwnersApart DEF Written
  <2>2. \A m \in Taken : ledger[m].owner \notin {Prod(p), Reserve(p)}
    BY <1>1 DEF PortInv, OwnersSound
  <2>3. OwnersSound'
    <3>1. \A m, k \in Taken' : ledger'[m].owner = ledger'[k].owner => m = k
      BY <2>1, <2>2 DEF PortInv, OwnersSound
    <3>2. ASSUME NEW q \in Projects, NEW m \in Taken'
          PROVE  /\ ledger'[m].owner \in {Prod(q), Reserve(q)} => q \in created' /\ tier'[q] # "host"
                 /\ ledger'[m].owner = Preview(q) => tier'[q] = "dedicated_port"
      BY <1>1, <1>4, <2>1, OwnersApart DEF PortInv, OwnersSound
    <3>3. ASSUME NEW q \in Projects, NEW m \in Taken', NEW k \in Taken'
          PROVE  ~(ledger'[m].owner = Reserve(q) /\ ledger'[k].owner = Prod(q))
      BY <2>1, <2>2, OwnersApart DEF PortInv, OwnersSound
    <3>4. QED BY <3>1, <3>2, <3>3 DEF OwnersSound
  <2>4. BindingsSound'
    <3>1. \A c \in Bindings : (bound[c].port \in Ports \cup {0}) /\ NoRow.owner # c /\ c # Reserve(p)
      BY OwnersApart, SMTT(30) DEF PortInv, PortTyped, NoRow, Bindings
    <3>2. ASSUME NEW c \in Bindings \ lost, bound[c].port # 0
          PROVE  ledger'[bound[c].port].owner = c
      <4>1. bound[c].port \in Taken
        BY <3>1, <3>2 DEF PortInv, BindingsSound, Taken
      <4>2. QED BY <2>1, <3>2, <4>1 DEF PortInv, BindingsSound
    <3>3. QED BY <1>1, <2>1, <3>1, <3>2 DEF PortInv, BindingsSound
  <2>5. ServedPorts' = ServedPorts
    <3>1. \A k : ~Serves(k, Reserve(p)) /\ \A o : Serves(k, o)' <=> Serves(k, o)
      BY <1>1, OwnersApart DEF Serves
    <3>2. QED BY <2>1, <3>1 DEF ServedPorts
  <2>6. QED BY <1>2, <2>1, <2>3, <2>4, <2>5
<1>5. QED BY <1>3, <1>4 DEF CreateProject

\* Freeing the rows of a preview binding, with its port.
LEMMA DetachKeeps == ASSUME PortInv, NEW p \in Projects, Detach(p) PROVE PortInv'
<1> DEFINE b == Preview(p)
<1>1. b \in Bindings /\ b \notin lost /\ b \in Owners
  BY OwnersApart DEF PortInv, PortTyped
<1>2. /\ bound' \in [Bindings -> [active : BOOLEAN, port : Ports \cup {0}]]
      /\ bound'[b].port = 0 /\ \A c \in Bindings \ {b} : bound'[c] = bound[c]
  <2>1. [bound[b] EXCEPT !.port = 0] \in [active : BOOLEAN, port : Ports \cup {0}]
    BY <1>1 DEF PortInv, PortTyped
  <2>2. QED BY <1>1, <2>1 DEF Detach, PortInv, PortTyped
<1>3. /\ ledger' \in [Ports -> Row \cup {NoRow}]
      /\ \A n \in Ports : ledger'[n] = IF n \in RowsOf(b) THEN NoRow ELSE ledger[n]
  BY DEF Detach, Freed, PortInv, PortTyped
<1>4. Rewritten
  BY <1>3, PortAssumption DEF Detach, Rewritten, PortInv, PortTyped
<1>5. Taken' = Taken \ RowsOf(b) /\ \A n \in Taken' : ledger'[n] = ledger[n] /\ n \in Ports
  BY <1>3 DEF Taken, RowsOf
<1>6. UNCHANGED <<tier, created, rows, had, open, rec, lost, mishaps>> /\ Asked
  BY DEF Detach
<1>7. OwnersSound'
  BY <1>5, <1>6 DEF PortInv, OwnersSound
<1>8. BindingsSound'
  <2>1. \A c \in Bindings : (bound[c].port \in Ports \cup {0}) /\ NoRow.owner # c
    BY SMTT(30) DEF PortInv, PortTyped, NoRow, Bindings
  <2>2. \A c \in Bindings : ~bound'[c].active => bound'[c].port = 0
    BY <1>1, <1>2 DEF PortInv, BindingsSound
  <2>3. ASSUME NEW c \in Bindings \ lost, NEW m \in Taken', ledger'[m].owner = c
        PROVE  bound'[c].active /\ bound'[c].port = m
    BY <1>2, <1>5, <2>3 DEF PortInv, BindingsSound, RowsOf
  <2>4. ASSUME NEW c \in Bindings \ lost, bound'[c].port # 0
        PROVE  ledger'[bound'[c].port].owner = c
    BY <1>2, <1>3, <2>1, <2>4 DEF PortInv, BindingsSound, RowsOf
  <2>5. QED BY <1>6, <2>2, <2>3, <2>4 DEF BindingsSound
<1>9. ReadsSound'
  BY <1>1, <1>2, <1>6, OwnersApart DEF PortInv, ReadsSound
<1>10. QED BY <1>2, <1>4, <1>6, <1>7, <1>8, <1>9, CallKeeps DEF PortInv, PortTyped

\* A preview binding without a row gets none, or loses its place.
LEMMA PreviewWritten ==
  ASSUME PortInv, NEW p \in Projects,
         bound' \in [Bindings -> [active : BOOLEAN, port : Ports \cup {0}]],
         bound'[Preview(p)].port = 0, \A c \in Bindings \ {Preview(p)} : bound'[c] = bound[c],
         \A n \in Taken : ledger[n].owner # Preview(p),
         Asked, UNCHANGED <<tier, created, ledger, rows, had, open, rec, lost, mishaps>>
  PROVE  PortInv'
<1> DEFINE b == Preview(p)
<1>1. b \in Bindings /\ b \notin lost
  BY OwnersApart DEF PortInv, PortTyped
<1>2. Rewritten /\ Taken' = Taken
  BY PortAssumption DEF Rewritten, Taken, PortInv, PortTyped
<1>3. OwnersSound'
  BY <1>2 DEF PortInv, OwnersSound
<1>4. BindingsSound'
  BY <1>1, <1>2 DEF PortInv, BindingsSound
<1>5. ReadsSound'
  BY <1>1, OwnersApart DEF PortInv, ReadsSound
<1>6. QED BY <1>2, <1>3, <1>4, <1>5, CallKeeps DEF PortInv, PortTyped

LEMMA PreviewKeeps ==
  ASSUME PortInv, NEW p \in Projects, EnsurePreview(p) \/ Deactivate(p) PROVE PortInv'
<1> DEFINE b == Preview(p)
<1>1. b \in Bindings /\ b \notin lost
  BY OwnersApart DEF PortInv, PortTyped
<1>2. CASE EnsurePreview(p) /\ tier[p] = "dedicated_port"
  <2>1. /\ AttachTx(b) /\ p \in created /\ Asked
        /\ UNCHANGED <<tier, created, had, open, rec, lost, mishaps>>
    BY <1>2 DEF EnsurePreview
  <2>2. /\ Rewritten /\ OwnersSound' /\ BindingsSound'
        /\ bound' \in [Bindings -> [active : BOOLEAN, port : Ports \cup {0}]]
        /\ \A c \in Bindings \ {b} : bound'[c] = bound[c]
    BY <1>1, <1>2, <2>1, AttachKeeps
  <2>3. ReadsSound'
    BY <1>1, <2>1, <2>2, OwnersApart DEF PortInv, ReadsSound
  <2>4. QED BY <2>1, <2>2, <2>3, CallKeeps DEF PortInv, PortTyped
<1>3. CASE EnsurePreview(p) /\ tier[p] # "dedicated_port"
  <2>1. \A n \in Taken : ledger[n].owner # b
    BY <1>3 DEF PortInv, OwnersSound
  <2>2. /\ bound' = [bound EXCEPT ![b] = [active |-> TRUE, port |-> 0]]
        /\ Asked /\ UNCHANGED <<tier, created, ledger, rows, had, open, rec, lost, mishaps>>
    BY <1>3 DEF EnsurePreview, Upsert
  <2>3. /\ bound' \in [Bindings -> [active : BOOLEAN, port : Ports \cup {0}]]
        /\ bound'[b].port = 0 /\ \A c \in Bindings \ {b} : bound'[c] = bound[c]
    BY <1>1, <2>2 DEF PortInv, PortTyped
  <2>4. QED BY <2>1, <2>2, <2>3, PreviewWritten
<1>4. CASE Deactivate(p)
  <2>1. \A n \in Taken : ledger[n].owner # b
    <3>1. \A n \in Taken : n # 0
      BY PortsPositive DEF Taken
    <3>2. QED BY <1>1, <1>4, <3>1 DEF Deactivate, PortInv, BindingsSound
  <2>2. /\ bound' \in [Bindings -> [active : BOOLEAN, port : Ports \cup {0}]]
        /\ bound'[b].port = 0 /\ \A c \in Bindings \ {b} : bound'[c] = bound[c]
    <3>1. PICK off \in BOOLEAN : off = FALSE
      OBVIOUS
    <3>2. [bound[b] EXCEPT !.active = off] \in [active : BOOLEAN, port : Ports \cup {0}]
      BY <1>1 DEF PortInv, PortTyped
    <3>3. bound' = [bound EXCEPT ![b].active = off] /\ bound[b].port = 0
      BY <1>4, <3>1 DEF Deactivate
    <3>4. QED BY <1>1, <3>2, <3>3 DEF PortInv, PortTyped
  <2>3. QED BY <1>4, <2>1, <2>2, PreviewWritten DEF Deactivate
<1>5. QED BY <1>2, <1>3, <1>4

\* What a prod binding gets keeps the port that was read of it.
LEMMA ProdWritten ==
  ASSUME PortInv, NEW p \in Projects, Rewritten, OwnersSound', BindingsSound',
         bound' \in [Bindings -> [active : BOOLEAN, port : Ports \cup {0}]],
         \A c \in Bindings \ {Prod(p)} : bound'[c] = bound[c],
         tier[p] = "host" => bound'[Prod(p)].port = 0,
         Prod(p) \notin lost /\ bound[Prod(p)].port # 0 => bound'[Prod(p)].port = bound[Prod(p)].port,
         had' = [had EXCEPT ![p] = @ \cup ({bound'[Prod(p)].port} \ {0})],
         Asked, UNCHANGED <<tier, created, open, rec, lost, mishaps>>
  PROVE  PortInv'
<1>1. Prod(p) \in Bindings /\ bound'[Prod(p)].port \in Ports \cup {0}
  BY OwnersApart
<1>2. /\ had' \in [Projects -> SUBSET Ports]
      /\ had'[p] = had[p] \cup ({bound'[Prod(p)].port} \ {0})
      /\ \A q \in Projects \ {p} : had'[q] = had[q]
  BY <1>1 DEF PortInv, PortTyped
<1>3. ReadsSound'
  <2>1. ASSUME NEW q \in Projects, q # p
        PROVE  /\ tier'[q] = "host" => bound'[Prod(q)].port = 0 /\ had'[q] = {}
               /\ Prod(q) \notin lost' => had'[q] \subseteq {bound'[Prod(q)].port}
    BY <1>2, <2>1, OwnersApart DEF PortInv, ReadsSound
  <2>2. tier'[p] = "host" => bound'[Prod(p)].port = 0 /\ had'[p] = {}
    BY <1>2 DEF PortInv, ReadsSound
  <2>3. Prod(p) \notin lost' => had'[p] \subseteq {bound'[Prod(p)].port}
    <3>1. had[p] \subseteq Ports /\ 0 \notin Ports
      BY PortsPositive DEF PortInv, PortTyped
    <3>2. QED BY <1>2, <3>1 DEF PortInv, ReadsSound
  <2>4. QED BY <2>1, <2>2, <2>3 DEF ReadsSound
<1>4. QED BY <1>2, <1>3, CallKeeps

\* A prod binding keeps the port it has, unless its row was lost.
PortKept(p) ==
  bound[Prod(p)].port # 0 /\ Prod(p) \notin lost => bound'[Prod(p)].port = bound[Prod(p)].port

LEMMA EnsureProdKeeps ==
  ASSUME PortInv, NEW p \in Projects, NEW n \in {0} \cup Ports, EnsureProd(p, n)
  PROVE  PortInv' /\ \A q \in Projects : PortKept(q)
<1> DEFINE b == Prod(p)
<1>1. b \in Bindings
  BY OwnersApart
<1>2. /\ p \in created /\ n \in {0} \cup had[p] /\ Asked
      /\ had' = [had EXCEPT ![p] = @ \cup ({bound'[b].port} \ {0})]
      /\ UNCHANGED <<tier, created, open, rec, lost, mishaps>>
  BY DEF EnsureProd
<1>3. ASSUME \A c \in Bindings \ {b} : bound'[c] = bound[c], PortKept(p)
      PROVE  \A q \in Projects : PortKept(q)
  <2>1. ASSUME NEW q \in Projects, q # p PROVE PortKept(q)
    BY <1>3, <2>1, OwnersApart DEF PortKept
  <2>2. QED BY <1>3, <2>1
<1>4. CASE ~(n # 0 \/ tier[p] = "host")
  <2>1. AdoptTx(p)
    BY <1>4 DEF EnsureProd
  <2>2. /\ Rewritten /\ OwnersSound' /\ BindingsSound'
        /\ bound' \in [Bindings -> [active : BOOLEAN, port : Ports \cup {0}]]
        /\ \A c \in Bindings \ {b} : bound'[c] = bound[c]
        /\ b \notin lost /\ bound[b].port # 0 => bound'[b].port = bound[b].port
    BY <1>2, <1>4, <2>1, AdoptKeeps
  <2>3. PortKept(p)
    BY <2>2 DEF PortKept
  <2>4. PortInv'
    BY <1>2, <1>4, <2>2, ProdWritten
  <2>5. QED BY <1>3, <2>2, <2>3, <2>4
<1>5. CASE n # 0 \/ tier[p] = "host"
  <2>1. bound' = [bound EXCEPT ![b] = [active |-> TRUE, port |-> n]] /\ UNCHANGED <<ledger, rows>>
    BY <1>5 DEF EnsureProd, Upsert
  <2>2. /\ bound' \in [Bindings -> [active : BOOLEAN, port : Ports \cup {0}]]
        /\ bound'[b].port = n /\ bound'[b].active
        /\ \A c \in Bindings \ {b} : bound'[c] = bound[c]
    BY <1>1, <2>1 DEF PortInv, PortTyped
  <2>3. Rewritten /\ Taken' = Taken
    BY <2>1, PortAssumption DEF Rewritten, Taken, PortInv, PortTyped
  <2>4. OwnersSound'
    BY <1>2, <2>1, <2>3 DEF PortInv, OwnersSound
  <2>5. /\ tier[p] = "host" => n = 0 /\ \A m \in Taken : ledger[m].owner # b
        /\ n # 0 /\ b \notin lost => bound[b].port = n
    BY <1>1, <1>2 DEF PortInv, ReadsSound, OwnersSound
  <2>6. tier[p] = "host" => bound[b].port = 0
    BY DEF PortInv, ReadsSound
  <2>7. BindingsSound'
    <3>1. \A c \in Bindings : ~bound'[c].active => bound'[c].port = 0
      BY <2>2 DEF PortInv, BindingsSound
    <3>2. ASSUME NEW c \in Bindings \ lost, NEW m \in Taken, ledger[m].owner = c
          PROVE  bound'[c].active /\ bound'[c].port = m
      BY <1>5, <2>2, <2>5, <3>2 DEF PortInv, BindingsSound
    <3>3. ASSUME NEW c \in Bindings \ lost, bound'[c].port # 0
          PROVE  ledger[bound'[c].port].owner = c
      BY <2>2, <2>5, <3>3 DEF PortInv, BindingsSound
    <3>4. QED BY <1>2, <2>1, <2>3, <3>1, <3>2, <3>3 DEF BindingsSound
  <2>8. b \notin lost /\ bound[b].port # 0 => bound'[b].port = bound[b].port
    BY <1>5, <2>2, <2>5, <2>6
  <2>9. PortInv'
    BY <1>2, <2>2, <2>3, <2>4, <2>5, <2>7, <2>8, ProdWritten
  <2>10. PortKept(p)
    BY <2>8 DEF PortKept
  <2>11. QED BY <1>3, <2>2, <2>9, <2>10
<1>6. QED BY <1>4, <1>5

-----------------------------------------------------------------------------
(* The reconciliation.                                                      *)

\* The reconciliation reads the ledger and writes rec.
LEMMA RecKeeps ==
  ASSUME PortInv, UNCHANGED <<tier, created, ledger, rows, bound, had, lost>>,
         rec' \in [at : {"idle", "visit", "release"}, list : SUBSET (Ports \X Row),
                   row : Ports \X Row \cup {NoRec.row}, want : SUBSET Ports],
         rec'.at = "release" => rec'.row \in Ports \X Row,
         open' \subseteq Ports, due' \in 0 .. 1, mishaps' \in [restarts : Nat, errors : Nat],
         \A x \in rec'.list : x[2].id <= rows /\ Follows(x),
         rec'.at = "release" =>
           /\ rec'.row[2].id <= rows /\ Follows(rec'.row)
           /\ Still(rec'.row) /\ rec'.row[2].owner \in Bindings => rec'.row[2].owner \in lost,
         ListenSound'
  PROVE  PortInv'
<1>1. Taken' = Taken
  BY DEF Taken
<1>2. PortTyped'
  BY DEF PortInv, PortTyped
<1>3. OwnersSound' /\ BindingsSound' /\ ReadsSound'
  BY <1>1 DEF PortInv, OwnersSound, BindingsSound, ReadsSound
<1>4. ListSound'
  BY DEF PortInv, ListSound, Follows, Still
<1>5. QED BY <1>2, <1>3, <1>4 DEF PortInv

LEMMA BeginKeeps == ASSUME PortInv, BeginReconcile PROVE PortInv'
<1> DEFINE L == {<<n, ledger[n]>> : n \in Taken}
<1>1. /\ rec'.at = "visit" /\ rec'.list = L /\ rec'.want = {} /\ rec'.row = NoRec.row
      /\ rec' = [at |-> "visit", list |-> L, row |-> NoRec.row, want |-> {}]
  BY DEF BeginReconcile, NoRec
<1>2. L \subseteq Ports \X Row
  BY DEF PortInv, PortTyped, Taken
<1>3. rec' \in [at : {"idle", "visit", "release"}, list : SUBSET (Ports \X Row),
                row : Ports \X Row \cup {NoRec.row}, want : SUBSET Ports]
  BY <1>1, <1>2
<1>4. \A x \in L : x[1] \in Taken /\ ledger[x[1]] = x[2]
  OBVIOUS
<1>5. \A x \in L : x[2].id <= rows /\ Follows(x)
  BY <1>4 DEF PortInv, ListSound, Follows, Taken
<1>6. ListenSound'
  <2>1. ServedPorts' = ServedPorts /\ ServedPorts \subseteq Taken
        /\ \A n, o : Serves(n, o)' <=> Serves(n, o)
    BY DEF BeginReconcile, ServedPorts, Taken, Serves
  <2>2. ASSUME NEW n \in Ports
        PROVE  n \in ServedPorts <=> \E x \in L : x[1] = n /\ Serves(n, x[2].owner)
    <3>1. ASSUME n \in ServedPorts PROVE \E x \in L : x[1] = n /\ Serves(n, x[2].owner)
      <4>1. <<n, ledger[n]>> \in L /\ Serves(n, ledger[n].owner)
        BY <3>1 DEF ServedPorts
      <4>2. QED BY <4>1
    <3>2. QED BY <1>4, <3>1 DEF ServedPorts
  <2>3. ledger' = ledger
    BY DEF BeginReconcile
  <2>4. QED BY <1>1, <1>4, <2>1, <2>2, <2>3 DEF ListenSound
<1>7. due' \in 0 .. 1
  BY DEF BeginReconcile
<1>8. UNCHANGED <<tier, created, ledger, rows, bound, had, open, lost, mishaps>>
  BY DEF BeginReconcile
<1>9. QED BY <1>1, <1>3, <1>5, <1>6, <1>7, <1>8, RecKeeps DEF PortInv, PortTyped

LEMMA VisitKeeps == ASSUME PortInv, NEW x \in rec.list, Visit(x) PROVE PortInv'
<1> DEFINE L == rec.list \ {x}
<1>1. UNCHANGED <<tier, created, ledger, rows, bound, had, open, due, lost, mishaps>> /\ rec.at = "visit"
  BY DEF Visit
<1>2. x \in Ports \X Row /\ L \subseteq Ports \X Row /\ x[1] \in Ports /\ x[2] \in Row
      /\ x = <<x[1], x[2]>>
  BY DEF PortInv, PortTyped
<1>3. \A y \in rec.list : y[2].id <= rows /\ Follows(y)
  BY DEF PortInv, ListSound
<1>4. /\ Taken' = Taken /\ ServedPorts' = ServedPorts
      /\ \A n, o : Serves(n, o)' <=> Serves(n, o)
  BY <1>1 DEF ServedPorts, Taken, Serves
<1>5. ASSUME due = 0
      PROVE  /\ \A y \in rec.list : ledger[y[1]] = y[2]
             /\ \A y \in L : y[1] # x[1]
             /\ \A n \in Ports : n \in ServedPorts <=>
                  n \in rec.want \/ \E y \in rec.list : y[1] = n /\ Serves(n, y[2].owner)
  <2>1. \A y \in rec.list : ledger[y[1]] = y[2]
    BY <1>1, <1>5 DEF PortInv, ListenSound
  <2>2. ASSUME NEW y \in L PROVE y[1] # x[1]
    <3>1. y = <<y[1], y[2]>>
      BY <1>2
    <3>2. QED BY <1>2, <2>1, <3>1
  <2>3. QED BY <1>1, <1>5, <2>1, <2>2 DEF PortInv, ListenSound
<1>6. PICK list, row, want :
        /\ rec = [at |-> "visit", list |-> list, row |-> row, want |-> want]
        /\ list \subseteq Ports \X Row /\ want \subseteq Ports /\ row \in Ports \X Row \cup {NoRec.row}
  <2>1. rec \in [at : {"idle", "visit", "release"}, list : SUBSET (Ports \X Row),
                 row : Ports \X Row \cup {NoRec.row}, want : SUBSET Ports]
    BY DEF PortInv, PortTyped
  <2>2. QED BY <1>1, <2>1
<1>7. CASE Serves(x[1], x[2].owner)
  <2>1. /\ rec'.at = "visit" /\ rec'.list = L /\ rec'.want = rec.want \cup {x[1]}
        /\ rec' \in [at : {"idle", "visit", "release"}, list : SUBSET (Ports \X Row),
                      row : Ports \X Row \cup {NoRec.row}, want : SUBSET Ports]
    <3>1. rec' = [at |-> "visit", list |-> list \ {x}, row |-> row, want |-> want \cup {x[1]}]
      BY <1>6, <1>7 DEF Visit
    <3>2. QED BY <1>2, <1>6, <3>1
  <2>2. ListenSound'
    <3>1. ASSUME due = 0, NEW n \in Ports
          PROVE  n \in ServedPorts <=>
                   n \in rec'.want \/ \E y \in rec'.list : y[1] = n /\ Serves(n, y[2].owner)
      BY <1>5, <1>7, <2>1, <3>1
    <3>2. QED BY <1>1, <1>4, <1>5, <2>1, <3>1 DEF ListenSound
  <2>3. QED BY <1>1, <1>3, <2>1, <2>2, RecKeeps DEF PortInv, PortTyped
<1>8. CASE ~Serves(x[1], x[2].owner)
  <2>1. /\ rec'.at = "release" /\ rec'.list = L /\ rec'.want = rec.want /\ rec'.row = x
        /\ rec' \in [at : {"idle", "visit", "release"}, list : SUBSET (Ports \X Row),
                      row : Ports \X Row \cup {NoRec.row}, want : SUBSET Ports]
    <3>1. rec' = [at |-> "release", list |-> list \ {x}, row |-> x, want |-> want]
      BY <1>6, <1>8 DEF Visit
    <3>2. QED BY <1>2, <1>6, <3>1
  <2>2. ASSUME Still(x), x[2].owner \in Bindings PROVE x[2].owner \in lost
    <3>1. ledger[x[1]].owner = x[2].owner
      BY <1>3, <2>2, OwnersApart DEF Follows
    <3>2. x[1] \in Taken
      BY <1>2, <2>2, RowFacts DEF Still, Taken
    <3>3. QED BY <1>8, <2>2, <3>1, <3>2 DEF PortInv, BindingsSound, Serves
  <2>3. ListenSound'
    <3>1. ASSUME due = 0, NEW n \in Ports
          PROVE  n \in ServedPorts <=>
                   n \in rec'.want \/ \E y \in rec'.list : y[1] = n /\ Serves(n, y[2].owner)
      BY <1>5, <1>8, <2>1, <3>1
    <3>2. QED BY <1>1, <1>4, <1>5, <1>8, <2>1, <3>1 DEF ListenSound
  <2>4. QED BY <1>1, <1>2, <1>3, <2>1, <2>2, <2>3, RecKeeps DEF PortInv, PortTyped
<1>9. QED BY <1>7, <1>8

\* The row that is freed is a reserve's, a lost binding's, or lost by this step.
LEMMA ReleaseKeeps == ASSUME PortInv, ReleaseOrphan PROVE PortInv'
<1> DEFINE n == rec.row[1]
           row == rec.row[2]
<1>1. /\ rec.at = "release" /\ rec' = [rec EXCEPT !.at = "visit", !.row = NoRec.row]
      /\ UNCHANGED <<tier, created, rows, bound, had, open, due, mishaps>>
      /\ IF ledger[n].id = row.id
         THEN /\ ledger' = Freed({n})
              /\ lost' = IF ledger[n].owner # row.owner THEN lost \cup {ledger[n].owner} ELSE lost
         ELSE UNCHANGED <<ledger, lost>>
  BY DEF ReleaseOrphan
<1>2. rec.row \in Ports \X Row /\ n \in Ports /\ row \in Row /\ row.id > 0
  <2>1. rec.row \in Ports \X Row
    BY <1>1 DEF PortInv, PortTyped
  <2>2. QED BY <2>1, RowFacts
<1>3. /\ rec'.at = "visit" /\ rec'.list = rec.list /\ rec'.want = rec.want
      /\ rec' \in [at : {"idle", "visit", "release"}, list : SUBSET (Ports \X Row),
                    row : Ports \X Row \cup {NoRec.row}, want : SUBSET Ports]
  BY <1>1 DEF PortInv, PortTyped
<1>4. \A x \in rec.list : x[2].id <= rows /\ Follows(x)
  BY DEF PortInv, ListSound
<1>5. \A m, o : Serves(m, o)' <=> Serves(m, o)
  BY <1>1 DEF Serves
<1>6. ASSUME due = 0
      PROVE  /\ \A x \in rec.list : ledger[x[1]] = x[2] /\ x[1] # n
             /\ ledger[n] = row /\ ~Serves(n, row.owner)
             /\ \A m \in Ports : m \in ServedPorts <=>
                  m \in rec.want \/ \E x \in rec.list : x[1] = m /\ Serves(m, x[2].owner)
  BY <1>1, <1>6 DEF PortInv, ListenSound
<1>7. CASE ledger[n].id # row.id
  <2>1. UNCHANGED <<ledger, lost>>
    BY <1>1, <1>7
  <2>2. ListenSound'
    BY <1>1, <1>6, <1>7 DEF ListenSound
  <2>3. QED BY <1>1, <1>3, <1>4, <2>1, <2>2, RecKeeps DEF PortInv, PortTyped
<1>8. CASE ledger[n].id = row.id
  <2>1. ledger' = Freed({n}) /\ lost \subseteq lost'
        /\ lost' = IF ledger[n].owner # row.owner THEN lost \cup {ledger[n].owner} ELSE lost
    BY <1>1, <1>8
  <2>2. /\ ledger' \in [Ports -> Row \cup {NoRow}] /\ ledger'[n] = NoRow
        /\ \A m \in Ports \ {n} : ledger'[m] = ledger[m]
    BY <1>2, <2>1 DEF Freed, PortInv, PortTyped
  <2>3. Taken' = Taken \ {n} /\ \A m \in Taken' : ledger'[m] = ledger[m] /\ m \in Ports
    BY <2>2 DEF Taken
  <2>4. /\ ledger[n].owner # row.owner => \E p \in Projects : ledger[n].owner = Prod(p)
        /\ ledger[n].owner \in Bindings => ledger[n].owner \in lost'
    <3>1. Still(rec.row) /\ Follows(rec.row)
      BY <1>1, <1>8 DEF Still, PortInv, ListSound
    <3>2. row.owner \in Bindings => row.owner \in lost
      BY <1>1, <3>1 DEF PortInv, ListSound
    <3>3. QED BY <2>1, <3>1, <3>2 DEF Follows
  <2>5. lost' \subseteq {Prod(p) : p \in Projects}
    BY <2>1, <2>4 DEF PortInv, PortTyped
  <2>6. Rewritten
    BY <1>1, <2>2, PortAssumption DEF Rewritten, PortInv, PortTyped
  <2>7. OwnersSound'
    BY <1>1, <2>3 DEF PortInv, OwnersSound
  <2>8. BindingsSound'
    <3>1. \A b \in Bindings : bound[b].port \in Ports \cup {0}
      BY DEF PortInv, PortTyped
    <3>2. ASSUME NEW b \in Bindings \ lost', bound[b].port # 0
          PROVE  ledger'[bound[b].port].owner = b
      <4>1. b \in Bindings \ lost /\ ledger[bound[b].port].owner = b
        BY <2>1, <3>2 DEF PortInv, BindingsSound
      <4>2. bound[b].port # n
        BY <2>4, <3>2, <4>1
      <4>3. QED BY <2>2, <3>1, <3>2, <4>1, <4>2
    <3>3. ASSUME NEW b \in Bindings \ lost', NEW m \in Taken', ledger'[m].owner = b
          PROVE  bound[b].active /\ bound[b].port = m
      <4>1. b \in Bindings \ lost /\ m \in Taken /\ ledger[m].owner = b
        BY <2>1, <2>3, <3>3
      <4>2. QED BY <4>1 DEF PortInv, BindingsSound
    <3>4. QED BY <1>1, <3>2, <3>3 DEF PortInv, BindingsSound
  <2>9. ReadsSound'
    BY <1>1, <2>1 DEF PortInv, ReadsSound
  <2>10. ListSound'
    <3>1. rows \in Nat
      BY DEF PortInv, PortTyped
    <3>2. ASSUME NEW m \in Ports PROVE ledger'[m].id <= rows
      BY <2>2, <3>1, <3>2, RowFacts DEF PortInv, ListSound
    <3>3. ASSUME NEW x \in rec.list PROVE Follows(x)'
      <4>1. x \in Ports \X Row
        BY DEF PortInv, PortTyped
      <4>2. x[1] \in Ports /\ x[2].id > 0 /\ x[2].id \in Nat
        BY <4>1, RowFacts
      <4>3. Still(x)' => Still(x) /\ x[1] # n
        BY <2>2, <4>2, RowFacts DEF Still
      <4>4. QED BY <1>4, <2>2, <4>2, <4>3 DEF Follows
    <3>4. QED BY <1>1, <1>3, <1>4, <3>2, <3>3 DEF ListSound
  <2>11. ListenSound'
    <3>1. ASSUME due = 0
          PROVE  ServedPorts' = ServedPorts /\ \A x \in rec.list : ledger'[x[1]] = x[2]
      <4>1. ServedPorts' = ServedPorts
        BY <1>5, <1>6, <2>3, <3>1 DEF ServedPorts
      <4>2. \A x \in rec.list : x[1] \in Ports
        BY DEF PortInv, PortTyped
      <4>3. QED BY <1>6, <2>2, <3>1, <4>1, <4>2
    <3>2. QED BY <1>1, <1>3, <1>5, <1>6, <3>1 DEF ListenSound
  <2>12. PortTyped'
    BY <1>1, <1>3, <2>2, <2>5 DEF PortInv, PortTyped
  <2>13. QED BY <2>7, <2>8, <2>9, <2>10, <2>11, <2>12 DEF PortInv
<1>9. QED BY <1>7, <1>8

\* The pass ends, or cellpd does.
LEMMA PassEnds == ASSUME PortInv, Listen \/ ListenFails \/ Restart PROVE PortInv'
<1>1. /\ rec' = NoRec /\ rec'.at = "idle" /\ rec'.list = {}
      /\ rec' \in [at : {"idle", "visit", "release"}, list : SUBSET (Ports \X Row),
                    row : Ports \X Row \cup {NoRec.row}, want : SUBSET Ports]
      /\ UNCHANGED <<tier, created, ledger, rows, bound, lost>>
  BY DEF Listen, ListenFails, Restart, NoRec
<1>2. /\ rec.want \subseteq Ports /\ open \subseteq Ports /\ due \in 0 .. 1
      /\ mishaps \in [restarts : Nat, errors : Nat]
  BY DEF PortInv, PortTyped
<1>3. /\ Taken' = Taken /\ ServedPorts' = ServedPorts
  BY <1>1 DEF ServedPorts, Taken, Serves
<1>4. CASE Listen
  <2>1. rec.at = "visit" /\ rec.list = {} /\ open' = rec.want /\ UNCHANGED <<had, due, mishaps>>
    BY <1>4 DEF Listen
  <2>2. ListenSound'
    <3>1. due = 0 => rec.want = ServedPorts
      <4>1. ServedPorts \subseteq Ports
        BY DEF ServedPorts, Taken
      <4>2. QED BY <1>2, <2>1, <4>1 DEF PortInv, ListenSound
    <3>2. QED BY <1>1, <1>3, <2>1, <3>1 DEF ListenSound
  <2>3. QED BY <1>1, <1>2, <2>1, <2>2, RecKeeps
<1>5. CASE ListenFails
  <2>1. open' \subseteq Ports /\ UNCHANGED <<had, due>>
    BY <1>2, <1>5 DEF ListenFails
  <2>2. mishaps' \in [restarts : Nat, errors : Nat] /\ mishaps'.errors # 0
    <3>1. PICK r \in Nat, e \in Nat : mishaps = [restarts |-> r, errors |-> e]
      BY <1>2
    <3>2. mishaps' = [restarts |-> r, errors |-> e + 1]
      BY <1>5, <3>1 DEF ListenFails
    <3>3. QED BY <3>2
  <2>3. ListenSound'
    BY <1>1, <2>2 DEF ListenSound
  <2>4. QED BY <1>1, <1>2, <2>1, <2>2, <2>3, RecKeeps
<1>6. CASE Restart
  <2>1. open' = {} /\ due' = 1 /\ had' = [p \in Projects |-> {bound[Prod(p)].port} \ {0}]
    BY <1>6 DEF Restart
  <2>2. mishaps' \in [restarts : Nat, errors : Nat]
    <3>1. PICK r \in Nat, e \in Nat : mishaps = [restarts |-> r, errors |-> e]
      BY <1>2
    <3>2. mishaps' = [restarts |-> r + 1, errors |-> e]
      BY <1>6, <3>1 DEF Restart
    <3>3. QED BY <3>2
  <2>3. had' \in [Projects -> SUBSET Ports]
    <3>1. ASSUME NEW p \in Projects PROVE {bound[Prod(p)].port} \ {0} \in SUBSET Ports
      BY OwnersApart DEF PortInv, PortTyped
    <3>2. QED BY <2>1, <3>1
  <2>4. PortTyped'
    BY <1>1, <2>1, <2>2, <2>3 DEF PortInv, PortTyped
  <2>5. OwnersSound' /\ BindingsSound'
    BY <1>1, <1>3 DEF PortInv, OwnersSound, BindingsSound
  <2>6. ReadsSound'
    BY <1>1, <2>1 DEF PortInv, ReadsSound
  <2>7. ListSound'
    BY <1>1 DEF PortInv, ListSound
  <2>8. ListenSound'
    BY <2>1 DEF ListenSound
  <2>9. QED BY <2>4, <2>5, <2>6, <2>7, <2>8 DEF PortInv
<1>7. QED BY <1>4, <1>5, <1>6

-----------------------------------------------------------------------------
\* Every step keeps it, and the port of a prod binding.
LEMMA PortStep == PortInv /\ [PortNext]_portVars => PortInv' /\ \A p \in Projects : PortKept(p)
<1> SUFFICES ASSUME PortInv, [PortNext]_portVars
             PROVE  PortInv' /\ \A p \in Projects : PortKept(p)
  OBVIOUS
<1>1. ASSUME UNCHANGED bound PROVE \A p \in Projects : PortKept(p)
  BY <1>1 DEF PortKept
<1>2. ASSUME NEW p \in Projects, CreateProject(p) PROVE PortInv' /\ UNCHANGED bound
  BY <1>2, CreateKeeps DEF CreateProject
<1>3. ASSUME NEW p \in Projects, EnsurePreview(p) \/ Detach(p) \/ Deactivate(p)
      PROVE  PortInv' /\ \A q \in Projects : PortKept(q)
  <2>1. PortInv'
    BY <1>3, PreviewKeeps, DetachKeeps
  <2>2. \A c \in Bindings \ {Preview(p)} : bound'[c] = bound[c]
    BY <1>3, OwnersApart DEF EnsurePreview, Detach, Deactivate, AttachTx, Upsert, PortInv, PortTyped
  <2>3. QED BY <2>1, <2>2, OwnersApart DEF PortKept
<1>4. ASSUME NEW p \in Projects, NEW n \in {0} \cup Ports, EnsureProd(p, n)
      PROVE  PortInv' /\ \A q \in Projects : PortKept(q)
  BY <1>4, EnsureProdKeeps
<1>5. ASSUME BeginReconcile PROVE PortInv' /\ UNCHANGED bound
  BY <1>5, BeginKeeps DEF BeginReconcile
<1>6. ASSUME NEW x \in rec.list, Visit(x) PROVE PortInv' /\ UNCHANGED bound
  BY <1>6, VisitKeeps DEF Visit
<1>7. ASSUME ReleaseOrphan PROVE PortInv' /\ UNCHANGED bound
  BY <1>7, ReleaseKeeps DEF ReleaseOrphan
<1>8. ASSUME Listen \/ ListenFails \/ Restart PROVE PortInv' /\ UNCHANGED bound
  BY <1>8, PassEnds DEF Listen, ListenFails, Restart
<1>9. ASSUME UNCHANGED portVars PROVE PortInv' /\ UNCHANGED bound
  <2>1. Taken' = Taken /\ ServedPorts' = ServedPorts /\ \A n, o : Serves(n, o)' <=> Serves(n, o)
    BY <1>9 DEF portVars, Taken, ServedPorts, Serves
  <2>2. PortTyped' /\ OwnersSound' /\ BindingsSound' /\ ReadsSound' /\ ListSound'
    BY <1>9, <2>1 DEF portVars, PortInv, PortTyped, OwnersSound, BindingsSound, ReadsSound,
                      ListSound, Follows, Still
  <2>3. ListenSound'
    BY <1>9, <2>1 DEF portVars, PortInv, ListenSound
  <2>4. QED BY <1>9, <2>2, <2>3 DEF PortInv, portVars
<1>10. QED
  BY <1>1, <1>2, <1>3, <1>4, <1>5, <1>6, <1>7, <1>8, <1>9 DEF PortNext, ReconcileStep

(* The ledger and the bindings agree and the listeners follow them, but for   *)
(* the row a reconciliation listed as a reserve's and released after the prod *)
(* binding had it: registry/port_alloc.go, orch/ingress.go and                *)
(* gateway/listeners.go, for any number of projects, ports and restarts.      *)
THEOREM LedgerCorrect == PortSpec => []LedgerSound
<1>1. PortInit => PortInv
  BY PortInitially
<1>2. PortInv /\ [PortNext]_portVars => PortInv'
  BY PortStep
<1>3. PortInv => LedgerSound
  BY PortSuffices
<1>4. QED BY <1>1, <1>2, <1>3, PTL DEF PortSpec

(* No promote, deploy, reconciliation or restart changes the port of a prod   *)
(* binding that has one, whatever the calls under way have read before, but   *)
(* after the same loss: ensureProdIngress of orch/ingress.go.                 *)
THEOREM ProdPortKept == PortSpec => ProdPortStable
<1>1. PortInv /\ [PortNext]_portVars
        => [\A p \in Projects :
              bound[Prod(p)].port # 0 /\ Prod(p) \notin lost
                => bound'[Prod(p)].port = bound[Prod(p)].port]_portVars
  BY PortStep DEF PortKept
<1>2. PortInit => PortInv
  BY PortInitially
<1>3. PortInv /\ [PortNext]_portVars => PortInv'
  BY PortStep
<1>4. QED BY <1>1, <1>2, <1>3, PTL DEF PortSpec, ProdPortStable

-----------------------------------------------------------------------------
(* The serving desire.  Each process that writes it has read it before: what *)
(* it read is of the past, or what is there still (Past).  The operators     *)
(* share a pin, of which those In are counted.                               *)

Demands == [n : 0..1, gen : Nat, why : Reasons]
Jobs == [at : Places, cas : BOOLEAN, tries : Nat, seen : Demands]

OpPlaces == {"start", "join", "mine", "check", "ensure", "after", "run", "leave", "quit", "drop", "done",
             "failed"}
WakePlaces == {"wake", "live", "release"}
OtherPlaces == Places \ {"join", "mine", "after", "run", "leave", "quit", "drop"}
RaisePlaces == {"preResident", "preRaise", "raise", "resident"}

\* Out of the pin; the operator that raises the desire for the others; where it
\* has found the version without demand.
Out      == {"start", "drop", "done", "failed"}
FirstAt  == {"mine", "check", "ensure", "after", "quit"}
RaisesAt == {"check", "ensure", "after"}

In(jobs) == {o \in Operators : jobs[o].at \notin Out}

\* What was read is of the past, or what is there.
Past(row) == row.gen <= desire.gen /\ (row.gen = desire.gen => row = desire)

GoodJob(p, j) ==
    /\ j.at \in IF p \in Operators THEN OpPlaces ELSE OtherPlaces
    /\ p \notin Wakes => j.at \notin WakePlaces
    /\ Past(j.seen)
    /\ p \in Deploys /\ j.at = "start" /\ j.cas => j.seen.why = "qualify"
    /\ j.at \in RaisePlaces /\ j.cas => j.seen.n = 0

\* One operator raises the desire at a time, and the pin is not their own yet.
OneFirst ==
    /\ \A o \in Operators : job[o].at \in FirstAt => ~pin.owns
    /\ \A o1, o2 \in Operators : job[o1].at \in FirstAt /\ job[o2].at \in FirstAt => o1 = o2
    /\ (\E o \in Operators : job[o].at \in RaisesAt) => pin.before.n = 0
    /\ pin.count = 0 => ~pin.owns

\* The desire that the deploy set is the first one: no pin is older.
Asleep == \A w \in Wakes : job[w].at = "start"

OneDrop ==
    /\ pin.owns => desire.n = 1
    /\ \A o \in Operators : job[o].at = "drop" =>
          /\ desire.n = 1 /\ ~pin.owns
          /\ \A q \in Operators : job[q].at \in RaisesAt \cup {"drop"} => q = o
    /\ desire.why = "qualify" =>
          /\ desire.n = 1 /\ ~pin.owns
          /\ \A o \in Operators : job[o].at \notin RaisesAt \cup {"drop"}

\* Only operators, none of which met an error that gives the pin up.
Orderly == /\ OnlyOperators /\ cast \cap Deploys = {}
           /\ \A o \in Operators : job[o].at \notin {"quit", "failed"}

SomeoneLowers ==
    /\ desire.n = 1 => /\ desire.why = "ensure"
                       /\ pin.owns \/ \E o \in Operators : job[o].at \in {"after", "drop"}
    /\ \A o \in Operators : job[o].at = "drop" /\ job[o].cas => job[o].seen = desire

SdInv ==
    /\ SdTypeOK /\ cast \subseteq Processes /\ desire.gen > 0
    /\ \A p \in Processes : GoodJob(p, job[p])
    /\ Past(pin.before)
    /\ OneFirst
    /\ Asleep => OneDrop
    /\ Orderly => SomeoneLowers
    /\ sdPass.at = "cas" /\ ~sdPass.ready => sdPass.des.n = 0

LEMMA SdFacts ==
    ASSUME SdInv
    PROVE  /\ desire \in Demands /\ desire.gen \in Nat /\ desire.n \in 0..1 /\ desire.gen > 0
           /\ pin.count = Cardinality(In(job)) /\ pin.count \in Nat /\ IsFiniteSet(In(job))
           /\ pin \in [count : Nat, owns : BOOLEAN, before : Demands]
           /\ job \in [Processes -> Jobs]
           /\ \A p \in Processes : job[p] \in Jobs /\ GoodJob(p, job[p])
<1>1. In(job) \subseteq Operators /\ IsFiniteSet(In(job))
    BY SdAssumption, FS_Subset DEF In
<1>2. pin.count = Cardinality(In(job))
    BY DEF SdInv, SdTypeOK, In, Out
<1> QED
    BY <1>1, <1>2 DEF SdInv, SdTypeOK, Demands, Jobs

LEMMA PastKept ==
    ASSUME NEW row, row.gen \in Nat, desire.gen \in Nat, Past(row),
           desire' = desire \/ desire'.gen = desire.gen + 1
    PROVE  Past(row)'
    BY DEF Past

LEMMA JobKept ==
    ASSUME NEW p \in Processes, NEW j \in Jobs, GoodJob(p, j), desire.gen \in Nat,
           desire' = desire \/ desire'.gen = desire.gen + 1
    PROVE  GoodJob(p, j)'
<1>1. Past(j.seen)'
    BY PastKept DEF GoodJob, Jobs, Demands
<1> QED
    BY <1>1 DEF GoodJob

\* A step of one process.
LEMMA SdFrame ==
    ASSUME SdInv, NEW p \in Processes, NEW j \in Jobs, job' = [job EXCEPT ![p] = j], GoodJob(p, j),
           desire' \in Demands, desire' = desire \/ desire'.gen = desire.gen + 1,
           pin' \in [count : Nat, owns : BOOLEAN, before : Demands], pin'.count = Cardinality(In(job')),
           Past(pin'.before),
           policy' \in 0..1, rep' = rep, lock' = lock,
           vers' \in [status : {"ready", "deploy_ready", "archived"}, route : BOOLEAN, prod : BOOLEAN],
           UNCHANGED <<sdPass, cast>>,
           OneFirst', Asleep' => OneDrop', Orderly' => SomeoneLowers'
    PROVE  SdInv'
<1>1. job' \in [Processes -> Jobs] /\ job'[p] = j /\ \A q \in Processes \ {p} : job'[q] = job[q]
    BY SdFacts
<1>2. SdTypeOK'
    BY <1>1 DEF SdInv, SdTypeOK, Jobs, Demands, In, Out
<1>3. \A q \in Processes : GoodJob(q, job[q])'
    BY <1>1, SdFacts, JobKept
<1>4. Past(pin.before)'
    BY SdFacts, PastKept DEF Demands
<1>5. (sdPass.at = "cas" /\ ~sdPass.ready => sdPass.des.n = 0)' /\ cast' \subseteq Processes
    BY DEF SdInv
<1>6. desire'.gen > 0
    BY SdFacts
<1> QED
    BY <1>2, <1>3, <1>4, <1>5, <1>6 DEF SdInv

\* How the others change the desire.
Raised(j) == /\ desire.n = 0 /\ desire'.n = 1 /\ desire'.why \in {"ensure", "promote", "cron"}
Cooled == desire.why = "qualify" /\ desire'.n = 0 /\ desire'.why = "idle"

LEMMA OthersStep ==
    ASSUME SdInv, NEW p \in Processes \ Operators, p \in cast, NEW j \in Jobs,
           job' = [job EXCEPT ![p] = j], GoodJob(p, j), j.at # "start" \/ p \in Deploys,
           desire' \in Demands,
           \/ desire' = desire
           \/ desire'.gen = desire.gen + 1 /\ (p \in Wakes \/ Raised(j) \/ Cooled),
           policy' \in 0..1,
           vers' \in [status : {"ready", "deploy_ready", "archived"}, route : BOOLEAN, prod : BOOLEAN],
           UNCHANGED <<rep, lock, pin, sdPass, cast>>
    PROVE  SdInv'
<1>1. job'[p] = j /\ \A q \in Processes \ {p} : job'[q] = job[q]
    BY SdFacts
<1>2. \A o \in Operators : job'[o] = job[o] /\ o \in Processes
    BY <1>1 DEF Processes
<1>3. In(job') = In(job)
    BY <1>2 DEF In
<1>4. OneFirst'
    BY <1>2 DEF SdInv, OneFirst
<1>5. ASSUME Asleep' PROVE OneDrop'
    <2>1. p \notin Wakes /\ Asleep
        BY <1>1, <1>5, SdAssumption DEF Asleep, Processes
    <2>2. desire.n \in 0..1 /\ OneDrop
        BY <2>1, SdFacts DEF SdInv
    <2> QED
        BY <1>2, <2>1, <2>2 DEF OneDrop, Raised, Cooled
<1>6. ~Orderly'
    BY <1>1 DEF Orderly, OnlyOperators
<1>7. Past(pin'.before)
    BY DEF SdInv
<1> QED
    BY <1>3, <1>4, <1>5, <1>6, <1>7, SdFacts, SdFrame

LEMMA Moves ==
    ASSUME SdInv, NEW p \in Processes, NEW l \in Places, SdGo(p, l)
    PROVE  \E j \in Jobs : /\ j = [at |-> l, cas |-> FALSE, seen |-> job[p].seen, tries |-> 0]
                           /\ job' = [job EXCEPT ![p] = j]
<1>1. job[p] \in Jobs
    BY SdFacts
<1> QED
    BY <1>1 DEF SdGo, Going, Jobs

LEMMA OthersGo ==
    ASSUME SdInv, NEW p \in Processes \ Operators, NEW l \in OtherPlaces \ {"start"},
           p \notin Wakes => l \notin WakePlaces, p \in cast, SdGo(p, l),
           \/ desire' = desire
           \/ /\ desire'.gen = desire.gen + 1 /\ desire' \in Demands
              /\ \/ p \in Wakes \/ Cooled
                 \/ desire.n = 0 /\ desire'.n = 1 /\ desire'.why \in {"ensure", "promote", "cron"},
           policy' \in 0..1,
           vers' \in [status : {"ready", "deploy_ready", "archived"}, route : BOOLEAN, prod : BOOLEAN],
           UNCHANGED <<rep, lock, pin, sdPass, cast>>
    PROVE  SdInv'
<1>1. PICK j \in Jobs : /\ j = [at |-> l, cas |-> FALSE, seen |-> job[p].seen, tries |-> 0]
                       /\ job' = [job EXCEPT ![p] = j]
    BY Moves DEF OtherPlaces
<1>2. GoodJob(p, job[p])
    BY SdFacts
<1>3. GoodJob(p, j)
    BY <1>1, <1>2 DEF GoodJob
<1>4. j.at = l
    BY <1>1
<1>5. desire' \in Demands
    BY SdFacts
<1> QED
    BY <1>1, <1>3, <1>4, <1>5, OthersStep DEF Raised

LEMMA AtRest == SdInv => /\ policy \in 0..1
                        /\ vers \in [status : {"ready", "deploy_ready", "archived"},
                                     route : BOOLEAN, prod : BOOLEAN]
    BY DEF SdInv, SdTypeOK

\* Where a process that is no operator can be.
LEMMA Others ==
    ASSUME SdInv, NEW p \in Processes, NEW l, At(p, l), p \notin Operators \/ l \in OtherPlaces \ OpPlaces
    PROVE  p \in Processes \ Operators /\ p \in cast /\ job[p].at = l /\ GoodJob(p, job[p]) /\ job[p] \in Jobs
    BY SdFacts DEF At, GoodJob

LEMMA DesireRewritten ==
    ASSUME SdInv, NEW row \in Demands, Past(row), Fits(row), NEW n \in 0..1, NEW why \in Reasons,
           desire' = DesireWritten(row, n, why)
    PROVE  /\ row = desire /\ desire' \in Demands /\ desire'.gen = desire.gen + 1
           /\ desire'.n = n /\ desire'.why = why
    BY SdFacts DEF Past, Fits, DesireWritten, DesireRow, Demands

LEMMA OthersRaiseRead ==
    ASSUME SdInv, NEW p \in Processes, NEW l \in RaisePlaces, RaiseRead(p, l)
    PROVE  SdInv'
<1>1. p \in Processes \ Operators /\ p \in cast /\ job[p].at = l /\ GoodJob(p, job[p]) /\ job[p] \in Jobs
    BY Others DEF RaiseRead, RaisePlaces, OpPlaces, OtherPlaces, Places
<1>2. After(l) \in OtherPlaces \ {"start"} /\ After(l) \notin WakePlaces
    BY DEF After, RaisePlaces, OtherPlaces, WakePlaces, Places
<1>3. CASE desire.n >= 1
    BY <1>1, <1>2, <1>3, OthersGo, AtRest DEF RaiseRead
<1>4. CASE ~(desire.n >= 1)
    <2>1. PICK j : j = [job[p] EXCEPT !.cas = TRUE, !.seen = desire]
        OBVIOUS
    <2>2. job' = [job EXCEPT ![p] = j]
        BY <2>1, <1>4, SdFacts DEF RaiseRead
    <2>3. j \in Jobs /\ j.at = l /\ j.seen = desire /\ l \in Places \ {"start"}
        BY <2>1, <1>1, SdFacts DEF Jobs, RaisePlaces, Places
    <2>4. GoodJob(p, j)
        BY <2>3, <1>1, <1>4, SdFacts DEF GoodJob, Past, RaisePlaces
    <2> QED
        BY <1>1, <2>2, <2>3, <2>4, OthersStep, AtRest, SdFacts DEF RaiseRead
<1> QED
    BY <1>3, <1>4

LEMMA OthersRetry ==
    ASSUME SdInv, NEW p \in Processes \ Operators, p \in cast, NEW l \in OtherPlaces \ {"start"},
           p \notin Wakes => l \notin WakePlaces, Retry(p, l), job[p].at # "start" \/ p \in Deploys,
           UNCHANGED <<desire, policy, vers, rep, lock, pin, sdPass, cast>>
    PROVE  SdInv'
<1>1. job[p] \in Jobs /\ GoodJob(p, job[p])
    BY SdFacts
<1>2. CASE job[p].tries + 1 < CasAttempts
    <2>1. PICK j : j = [job[p] EXCEPT !.cas = FALSE, !.tries = @ + 1]
        OBVIOUS
    <2>2. job' = [job EXCEPT ![p] = j]
        BY <2>1, <1>2, SdFacts DEF Retry
    <2>3. j.at = job[p].at /\ j.seen = job[p].seen /\ j.cas = FALSE /\ j \in Jobs
        <3>1. job[p].tries + 1 \in Nat
            BY <1>1 DEF Jobs
        <3> QED
            BY <2>1, <3>1, <1>1 DEF Jobs
    <2>4. GoodJob(p, j)
        BY <2>3, <1>1 DEF GoodJob
    <2> QED
        BY <2>2, <2>3, <2>4, OthersStep, AtRest, SdFacts
<1>3. CASE ~(job[p].tries + 1 < CasAttempts)
    BY <1>3, OthersGo, AtRest DEF Retry, SdGo
<1> QED
    BY <1>2, <1>3

LEMMA OthersRaiseWrite ==
    ASSUME SdInv, NEW p \in Processes, NEW l \in RaisePlaces, RaiseWrite(p, l)
    PROVE  SdInv'
<1>1. p \in Processes \ Operators /\ p \in cast /\ job[p].at = l /\ GoodJob(p, job[p]) /\ job[p] \in Jobs
    BY Others DEF RaiseWrite, RaisePlaces, OpPlaces, OtherPlaces, Places
<1>2. After(l) \in OtherPlaces \ {"start"} /\ After(l) \notin WakePlaces
    BY DEF After, RaisePlaces, OtherPlaces, WakePlaces, Places
<1>3. GivesUp(l) \in OtherPlaces \ {"start"} /\ GivesUp(l) \notin WakePlaces
    BY <1>2 DEF GivesUp, OtherPlaces, WakePlaces, Places
<1>4. job[p].cas /\ job[p].seen.n = 0 /\ job[p].seen \in Demands /\ Past(job[p].seen) /\ l # "start"
    BY <1>1 DEF RaiseWrite, GoodJob, Jobs, RaisePlaces
<1>5. ReasonOf(l) \in {"promote", "cron"} /\ ReasonOf(l) \in Reasons
    BY DEF ReasonOf, Reasons
<1>6. CASE Fits(job[p].seen)
    <2>1. desire' = DesireWritten(job[p].seen, 1, ReasonOf(l)) /\ SdGo(p, After(l))
        BY <1>6 DEF RaiseWrite
    <2>2. /\ desire.n = 0 /\ desire' \in Demands /\ desire'.gen = desire.gen + 1
          /\ desire'.n = 1 /\ desire'.why = ReasonOf(l)
        BY <1>4, <1>5, <1>6, <2>1, DesireRewritten
    <2> QED
        BY <1>1, <1>2, <1>5, <2>1, <2>2, OthersGo, AtRest DEF RaiseWrite
<1>7. CASE ~Fits(job[p].seen)
    BY <1>1, <1>3, <1>4, <1>7, OthersRetry DEF RaiseWrite
<1> QED
    BY <1>6, <1>7

LEMMA OthersFlights ==
    ASSUME SdInv, NEW p \in Processes, FlightStarts(p) \/ FlightEnds(p)
    PROVE  SdInv'
<1>1. p \in Processes \ Operators /\ p \notin Wakes /\ p \in cast
    BY SdAssumption DEF FlightStarts, FlightEnds, At
<1>2. PICK l \in {"check", "done", "failed"} : SdGo(p, l)
    BY DEF FlightStarts, FlightEnds
<1>3. l \in OtherPlaces \ {"start"} /\ l \notin WakePlaces
    BY DEF OtherPlaces, WakePlaces, Places
<1> QED
    BY <1>1, <1>2, <1>3, OthersGo, AtRest DEF FlightStarts, FlightEnds

LEMMA OthersEnsure ==
    ASSUME SdInv, NEW p \in Processes \ Operators, EnsureChecks(p) \/ EnsureReads(p) \/ EnsureWrites(p)
    PROVE  SdInv'
<1>1. /\ p \in cast /\ job[p] \in Jobs /\ GoodJob(p, job[p]) /\ job[p].at \in {"check", "ensure"}
      /\ desire \in Demands /\ Ensured(p) = "wait" /\ NotEnsured(p) = "failed"
    BY SdFacts DEF EnsureChecks, EnsureReads, EnsureWrites, At, Ensured, NotEnsured
<1>2. \A l \in {"ensure", "wait", "failed"} : l \in OtherPlaces \ {"start"} /\ l \notin WakePlaces
    BY DEF OtherPlaces, WakePlaces, Places
<1>3. UNCHANGED <<policy, vers, rep, lock, pin, sdPass, cast>>
    BY DEF EnsureChecks, EnsureReads, EnsureWrites
<1>4. ASSUME NEW l \in {"ensure", "wait", "failed"}, SdGo(p, l), UNCHANGED desire
      PROVE  SdInv'
    BY <1>1, <1>2, <1>3, <1>4, OthersGo, AtRest
<1>5. CASE EnsureChecks(p)
    BY <1>1, <1>4, <1>5 DEF EnsureChecks
<1>6. ASSUME NEW j \in Jobs, job' = [job EXCEPT ![p] = j], UNCHANGED desire,
             j.at \in {"check", "ensure"}, j.seen = desire \/ j.seen = job[p].seen
      PROVE  SdInv'
    <2>1. GoodJob(p, j)
        BY <1>1, <1>6, SdFacts DEF GoodJob, Past, OtherPlaces, WakePlaces, RaisePlaces, Places
    <2> QED
        BY <1>1, <1>3, <1>6, <2>1, OthersStep, AtRest
<1>7. CASE EnsureReads(p)
    <2>1. CASE desire.n >= 1
        BY <1>1, <1>4, <1>7, <2>1 DEF EnsureReads
    <2>2. CASE ~(desire.n >= 1)
        <3>1. PICK j : j = [job[p] EXCEPT !.cas = TRUE, !.seen = desire]
            OBVIOUS
        <3>2. job' = [job EXCEPT ![p] = j] /\ UNCHANGED desire
            BY <3>1, <1>7, <2>2, SdFacts DEF EnsureReads
        <3>3. j \in Jobs /\ j.at = job[p].at /\ j.seen = desire
            BY <3>1, <1>1 DEF Jobs
        <3> QED
            BY <1>1, <1>6, <3>2, <3>3
    <2> QED
        BY <2>1, <2>2
<1>8. CASE EnsureWrites(p)
    <2>1. CASE SdGo(p, "failed") /\ UNCHANGED desire
        BY <1>4, <2>1
    <2>2. CASE SdGo(p, "wait") /\ UNCHANGED desire
        BY <1>4, <2>2
    <2>3. CASE desire.n = 0 /\ Fits(job[p].seen) /\ SdGo(p, "wait")
               /\ desire' = DesireWritten(job[p].seen, 1, "ensure")
        <3>1. job[p].seen \in Demands /\ Past(job[p].seen) /\ "ensure" \in Reasons
            BY <1>1 DEF Jobs, GoodJob, Reasons
        <3>2. desire' \in Demands /\ desire'.gen = desire.gen + 1 /\ desire'.n = 1 /\ desire'.why = "ensure"
            BY <3>1, <2>3, DesireRewritten
        <3> QED
            BY <1>1, <1>2, <1>3, <2>3, <3>2, OthersGo, AtRest
    <2>4. CASE /\ job' = [job EXCEPT ![p].at = "check", ![p].cas = FALSE, ![p].tries = @ + 1]
               /\ UNCHANGED desire
        <3>1. PICK j : j = [job[p] EXCEPT !.at = "check", !.cas = FALSE, !.tries = @ + 1]
            OBVIOUS
        <3>2. job' = [job EXCEPT ![p] = j]
            BY <3>1, <2>4, SdFacts
        <3>3. job[p].tries + 1 \in Nat /\ "check" \in Places
            BY <1>1 DEF Jobs, Places
        <3>4. j \in Jobs /\ j.at = "check" /\ j.seen = job[p].seen
            BY <3>1, <3>3, <1>1 DEF Jobs
        <3> QED
            BY <1>6, <2>4, <3>2, <3>4
    <2> QED
        BY <1>1, <1>8, <2>1, <2>2, <2>3, <2>4 DEF EnsureWrites
<1> QED
    BY <1>5, <1>7, <1>8

LEMMA OthersDeploy ==
    ASSUME SdInv, NEW p \in Processes, DeployReads(p) \/ DeployWrites(p)
    PROVE  SdInv'
<1>1. /\ p \in Processes \ Operators /\ p \notin Wakes /\ p \in cast /\ p \in Deploys
      /\ job[p] \in Jobs /\ GoodJob(p, job[p]) /\ desire \in Demands /\ job[p].at = "start"
    BY SdAssumption, SdFacts DEF DeployReads, DeployWrites, At
<1>2. \A l \in {"resident", "done", "failed"} : l \in OtherPlaces \ {"start"} /\ l \notin WakePlaces
    BY DEF OtherPlaces, WakePlaces, Places
<1>3. UNCHANGED <<policy, vers, rep, lock, pin, sdPass, cast>>
    BY DEF DeployReads, DeployWrites
<1>4. CASE DeployReads(p) /\ policy = 0 /\ desire.why = "qualify"
           /\ job' = [job EXCEPT ![p].cas = TRUE, ![p].seen = desire]
    <2>1. PICK j : j = [job[p] EXCEPT !.cas = TRUE, !.seen = desire]
        OBVIOUS
    <2>2. job' = [job EXCEPT ![p] = j] /\ UNCHANGED desire
        BY <2>1, <1>4, SdFacts DEF DeployReads
    <2>3. j \in Jobs /\ j.at = "start" /\ j.seen = desire
        BY <2>1, <1>1 DEF Jobs
    <2>4. GoodJob(p, j)
        BY <2>3, <1>1, <1>4, SdFacts DEF GoodJob, Past, RaisePlaces
    <2> QED
        BY <1>1, <1>3, <2>2, <2>3, <2>4, OthersStep, AtRest
<1>5. CASE UNCHANGED desire /\ \E l \in {"resident", "done"} : SdGo(p, l)
    BY <1>1, <1>2, <1>3, <1>5, OthersGo, AtRest
<1>6. CASE DeployWrites(p) /\ Fits(job[p].seen)
    <2>1. /\ job[p].seen \in Demands /\ Past(job[p].seen) /\ "idle" \in Reasons
          /\ job[p].seen.why = "qualify"
        BY <1>1, <1>6 DEF Jobs, GoodJob, Reasons, DeployWrites
    <2>2. /\ desire.why = "qualify" /\ desire' \in Demands /\ desire'.gen = desire.gen + 1
          /\ desire'.n = 0 /\ desire'.why = "idle"
        BY <1>6, <2>1, DesireRewritten DEF DeployWrites
    <2>3. PICK l \in {"resident", "done"} : SdGo(p, l)
        BY <1>6 DEF DeployWrites
    <2> QED
        BY <1>1, <1>2, <1>3, <2>2, <2>3, OthersGo, AtRest DEF Cooled
<1>7. CASE DeployWrites(p) /\ ~Fits(job[p].seen)
    BY <1>1, <1>2, <1>3, <1>7, OthersRetry DEF DeployWrites
<1> QED
    BY <1>4, <1>5, <1>6, <1>7 DEF DeployReads

LEMMA OthersCronPromote ==
    ASSUME SdInv, NEW p \in Processes,
           CronPolicy(p) \/ PromoteStarts(p) \/ PromoteWaits(p) \/ PromoteCommits(p)
    PROVE  SdInv'
<1>1. PICK l \in {"resident", "commit", "preResident", "preRaise", "failed", "raise"} : SdGo(p, l)
    BY DEF CronPolicy, PromoteStarts, PromoteWaits, PromoteCommits
<1>2. l \in OtherPlaces \ {"start"} /\ l \notin WakePlaces
    BY DEF OtherPlaces, WakePlaces, Places
<1>3. p \in Processes \ Operators /\ p \in cast
    BY SdAssumption, SdFacts
       DEF CronPolicy, PromoteStarts, PromoteWaits, PromoteCommits, At, GoodJob, OpPlaces
<1>4. /\ policy' \in 0..1 /\ UNCHANGED <<desire, rep, lock, pin, sdPass, cast>>
      /\ vers' \in [status : {"ready", "deploy_ready", "archived"}, route : BOOLEAN, prod : BOOLEAN]
    <2>1. CASE CronPolicy(p)
        BY <2>1, AtRest DEF CronPolicy
    <2>2. CASE PromoteStarts(p) \/ PromoteWaits(p)
        BY <2>2, AtRest DEF PromoteStarts, PromoteWaits
    <2>3. CASE PromoteCommits(p)
        BY <2>3, AtRest DEF PromoteCommits
    <2> QED
        BY <2>1, <2>2, <2>3
<1> QED
    BY <1>1, <1>2, <1>3, <1>4, OthersGo

LEMMA OthersWakeStarts ==
    ASSUME SdInv, NEW p \in Processes, WakeStarts(p)
    PROVE  SdInv'
<1>1. p \in Processes \ Operators /\ p \in Wakes /\ p \in cast
    BY SdAssumption DEF WakeStarts, At
<1>2. "wake" \in OtherPlaces \ {"start"}
    BY DEF OtherPlaces, Places
<1>3. vers' \in [status : {"ready", "deploy_ready", "archived"}, route : BOOLEAN, prod : BOOLEAN]
    BY AtRest DEF WakeStarts
<1> QED
    BY <1>1, <1>2, <1>3, OthersGo, AtRest DEF WakeStarts

LEMMA OthersWakes ==
    ASSUME SdInv, NEW p \in Processes,
           WakeReads(p) \/ WakeWrites(p) \/ WakeWaits(p) \/ WakeReleases(p) \/ WakeRestores(p)
    PROVE  SdInv'
<1>1. /\ p \in Processes \ Operators /\ p \in cast /\ GoodJob(p, job[p]) /\ job[p] \in Jobs
      /\ job[p].at \in WakePlaces /\ p \in Wakes
    BY SdFacts, Others DEF WakeReads, WakeWrites, WakeWaits, WakeReleases, WakeRestores, At, OtherPlaces,
                   OpPlaces, WakePlaces, Places, GoodJob
<1>2. UNCHANGED <<policy, vers, rep, lock, pin, sdPass, cast>>
    BY DEF WakeReads, WakeWrites, WakeWaits, WakeReleases, WakeRestores
<1>3. \A l \in {"wake", "live", "release", "done", "failed"} :
        l \in Places \ {"start"} /\ l \in OtherPlaces \ {"start"} /\ l \notin RaisePlaces
    BY DEF OtherPlaces, Places, RaisePlaces
<1>4. desire \in Demands /\ desire.gen \in Nat
    BY SdFacts
<1>5. job[p].tries \in Nat /\ job[p].tries + 1 \in Nat /\ job[p].seen \in Demands /\ Past(job[p].seen)
    BY <1>1 DEF Jobs, GoodJob
<1>6. ASSUME NEW j \in Jobs, job' = [job EXCEPT ![p] = j], j.at \in WakePlaces \cup {"done", "failed"},
             j.seen = desire \/ j.seen = job[p].seen,
             \/ desire' = desire
             \/ desire' \in Demands /\ desire'.gen = desire.gen + 1
      PROVE  SdInv'
    <2>1. j.at \in OtherPlaces \ {"start"} /\ j.at \notin RaisePlaces
        BY <1>3, <1>6 DEF WakePlaces
    <2>2. GoodJob(p, j)
        BY <1>1, <1>4, <1>5, <1>6, <2>1 DEF GoodJob, Past
    <2> QED
        BY <1>1, <1>2, <1>4, <1>6, <2>1, <2>2, OthersStep, AtRest
<1>7. ASSUME NEW l \in {"done", "failed"}, SdGo(p, l),
             \/ desire' = desire
             \/ desire' \in Demands /\ desire'.gen = desire.gen + 1
      PROVE  SdInv'
    BY <1>1, <1>2, <1>3, <1>7, OthersGo, AtRest
<1>8. CASE WakeReads(p)
    <2>1. CASE job' = [job EXCEPT ![p] = [at |-> "live", cas |-> TRUE, seen |-> desire, tries |-> 0]]
        <3>1. PICK j \in Jobs : j = [at |-> "live", cas |-> TRUE, seen |-> desire, tries |-> 0]
            BY <1>3, <1>4 DEF Jobs
        <3> QED
            BY <1>6, <1>8, <2>1, <3>1 DEF WakeReads, WakePlaces
    <2>2. CASE job' = [job EXCEPT ![p].cas = TRUE, ![p].seen = desire]
        <3>1. PICK j : j = [job[p] EXCEPT !.cas = TRUE, !.seen = desire]
            OBVIOUS
        <3>2. job' = [job EXCEPT ![p] = j]
            BY <3>1, <2>2, SdFacts
        <3>3. j \in Jobs /\ j.at = job[p].at /\ j.seen = desire
            BY <3>1, <1>1, <1>4 DEF Jobs
        <3> QED
            BY <1>1, <1>6, <1>8, <3>2, <3>3 DEF WakeReads
    <2> QED
        BY <1>8, <2>1, <2>2 DEF WakeReads
<1>9. CASE WakeWrites(p)
    <2>1. PICK c \in BOOLEAN : c = (job[p].tries > 0 \/ job[p].seen.n = 0)
        OBVIOUS
    <2>2. PICK j : j = [at |-> "live", cas |-> c, seen |-> job[p].seen, tries |-> 0]
        OBVIOUS
    <2>3. j \in Jobs /\ j.at \in WakePlaces /\ j.seen = job[p].seen
        BY <2>2, <1>3, <1>5 DEF Jobs, WakePlaces
    <2>4. CASE job' = [job EXCEPT ![p] = j] /\ Fits(job[p].seen)
               /\ desire' = DesireWritten(job[p].seen, 1, "promote")
        <3>1. desire' \in Demands /\ desire'.gen = desire.gen + 1
            BY <2>4, <1>5, DesireRewritten DEF Reasons
        <3> QED
            BY <1>6, <2>3, <2>4, <3>1
    <2>5. CASE job' = [job EXCEPT ![p] = j] /\ UNCHANGED desire
        BY <1>6, <2>3, <2>5
    <2>6. CASE job' = [job EXCEPT ![p].cas = FALSE, ![p].tries = @ + 1] /\ UNCHANGED desire
        <3>1. PICK k : k = [job[p] EXCEPT !.cas = FALSE, !.tries = @ + 1]
            OBVIOUS
        <3>2. job' = [job EXCEPT ![p] = k]
            BY <3>1, <2>6, SdFacts
        <3>3. k \in Jobs /\ k.at = job[p].at /\ k.seen = job[p].seen
            BY <3>1, <1>1, <1>5 DEF Jobs
        <3> QED
            BY <1>1, <1>6, <2>6, <3>2, <3>3
    <2> QED
        BY <1>9, <2>1, <2>2, <2>4, <2>5, <2>6 DEF WakeWrites
<1>10. CASE WakeWaits(p)
    <2>1. CASE job' = [job EXCEPT ![p].at = IF job[p].cas THEN "release" ELSE "done", ![p].cas = FALSE]
        <3>1. PICK l \in {"release", "done"} : l = IF job[p].cas THEN "release" ELSE "done"
            OBVIOUS
        <3>2. PICK j : j = [job[p] EXCEPT !.at = l, !.cas = FALSE]
            OBVIOUS
        <3>3. job' = [job EXCEPT ![p] = j]
            BY <3>1, <3>2, <2>1, SdFacts
        <3>4. j \in Jobs /\ j.at = l /\ j.seen = job[p].seen
            BY <3>2, <1>1, <1>3 DEF Jobs
        <3> QED
            BY <1>6, <1>10, <3>3, <3>4 DEF WakeWaits, WakePlaces
    <2> QED
        BY <1>7, <1>10, <2>1 DEF WakeWaits
<1>11. CASE WakeReleases(p)
    <2>1. CASE job' = [job EXCEPT ![p].cas = TRUE, ![p].tries = desire.gen]
        <3>1. PICK j : j = [job[p] EXCEPT !.cas = TRUE, !.tries = desire.gen]
            OBVIOUS
        <3>2. job' = [job EXCEPT ![p] = j]
            BY <3>1, <2>1, SdFacts
        <3>3. j \in Jobs /\ j.at = job[p].at /\ j.seen = job[p].seen
            BY <3>1, <1>1, <1>4 DEF Jobs
        <3> QED
            BY <1>1, <1>6, <1>11, <3>2, <3>3 DEF WakeReleases
    <2> QED
        BY <1>7, <1>11, <2>1 DEF WakeReleases
<1>12. CASE WakeRestores(p)
    <2>1. PICK b \in Demands : b = job[p].seen
        BY <1>5
    <2>2. DesireRow(b.n, desire.gen + 1, b.why) \in Demands /\ DesireRow(0, desire.gen + 1, "idle") \in Demands
        BY <1>4 DEF DesireRow, Demands, Reasons
    <2>3. desire' = desire \/ (desire' \in Demands /\ desire'.gen = desire.gen + 1)
        BY <1>12, <2>1, <2>2 DEF WakeRestores, DesireRow
    <2> QED
        BY <1>7, <1>12, <2>3 DEF WakeRestores
<1> QED
    BY <1>8, <1>9, <1>10, <1>11, <1>12

\* Who is in the operators' pin.
LEMMA OpFacts ==
    ASSUME SdInv, NEW o \in Operators
    PROVE  /\ o \in Processes /\ GoodJob(o, job[o]) /\ job[o] \in Jobs /\ job[o].at \in OpPlaces
           /\ o \in In(job) <=> job[o].at \notin Out
           /\ o \in In(job) => pin.count > 0
           /\ o \in In(job) /\ pin.count = 1 => In(job) = {o}
           /\ pin.count = 0 => In(job) = {}
<1>1. o \in Processes /\ GoodJob(o, job[o]) /\ job[o] \in Jobs /\ job[o].at \in OpPlaces
    BY SdFacts DEF Processes, GoodJob
<1>2. IsFiniteSet(In(job)) /\ pin.count = Cardinality(In(job)) /\ pin.count \in Nat
    BY SdFacts
<1>3. pin.count = 0 => In(job) = {}
    BY <1>2, FS_EmptySet
<1>4. pin.count = 1 => \E x : In(job) = {x}
    BY <1>2, FS_Singleton
<1>5. o \in In(job) <=> job[o].at \notin Out
    BY DEF In
<1> QED
    BY <1>1, <1>2, <1>3, <1>4, <1>5

LEMMA PinCounted ==
    ASSUME SdInv, NEW o \in Operators, NEW j \in Jobs, job' = [job EXCEPT ![o] = j]
    PROVE  /\ job'[o] = j /\ \A q \in Processes \ {o} : job'[q] = job[q]
           /\ (job[o].at \in Out <=> j.at \in Out) => In(job') = In(job) /\ Cardinality(In(job')) = pin.count
           /\ job[o].at \in Out /\ j.at \notin Out
                => In(job') = In(job) \cup {o} /\ Cardinality(In(job')) = pin.count + 1
           /\ job[o].at \notin Out /\ j.at \in Out
                => In(job') = In(job) \ {o} /\ Cardinality(In(job')) = pin.count - 1
<1>1. o \in Processes /\ IsFiniteSet(In(job)) /\ pin.count = Cardinality(In(job))
    BY SdFacts, OpFacts
<1>2. job'[o] = j /\ \A q \in Processes \ {o} : job'[q] = job[q]
    BY <1>1, SdFacts
<1>3. \A q \in Operators : q # o => job'[q] = job[q]
    BY <1>2 DEF Processes
<1>4. ASSUME job[o].at \in Out <=> j.at \in Out PROVE In(job') = In(job)
    BY <1>2, <1>3, <1>4 DEF In
<1>5. ASSUME job[o].at \in Out, j.at \notin Out
      PROVE  In(job') = In(job) \cup {o} /\ Cardinality(In(job')) = pin.count + 1
    <2>1. In(job') = In(job) \cup {o} /\ o \notin In(job)
        BY <1>2, <1>3, <1>5 DEF In
    <2> QED
        BY <1>1, <2>1, FS_AddElement
<1>6. ASSUME job[o].at \notin Out, j.at \in Out
      PROVE  In(job') = In(job) \ {o} /\ Cardinality(In(job')) = pin.count - 1
    <2>1. In(job') = In(job) \ {o} /\ o \in In(job)
        BY <1>2, <1>3, <1>6 DEF In
    <2> QED
        BY <1>1, <2>1, FS_RemoveElement
<1> QED
    BY <1>1, <1>2, <1>4, <1>5, <1>6

LEMMA OrderlyAsleep == ASSUME Orderly PROVE Asleep
<1>1. Wakes \subseteq Processes \ Operators
    BY SdAssumption DEF Processes
<1> QED
    BY <1>1 DEF Orderly, OnlyOperators, Asleep

LEMMA Before ==
    ASSUME SdInv, NEW o \in Operators, NEW j \in Jobs, job' = [job EXCEPT ![o] = j], cast' = cast
    PROVE  /\ Asleep' => Asleep
           /\ Orderly' /\ job[o].at \notin {"quit", "failed"} => Orderly
<1>1. job'[o] = j /\ \A q \in Processes \ {o} : job'[q] = job[q]
    BY PinCounted
<1>2. \A w \in Wakes : w \in Processes \ {o}
    BY SdAssumption DEF Processes
<1>3. \A q \in Processes \ Operators : q # o
    OBVIOUS
<1>4. \A q \in Operators : q # o => q \in Processes \ {o}
    BY DEF Processes
<1> QED
    BY <1>1, <1>2, <1>3, <1>4 DEF Asleep, Orderly, OnlyOperators

LEMMA InsideStep ==
    ASSUME SdInv, NEW o \in Operators, NEW j \in Jobs, job' = [job EXCEPT ![o] = j], GoodJob(o, j),
           job[o].at \notin Out \cup {"after", "quit"}, j.at \notin Out \cup {"quit"},
           j.at \in FirstAt => job[o].at \in FirstAt,
           j.at \in RaisesAt => \/ job[o].at \in RaisesAt
                                \/ pin'.before = desire /\ desire.n = 0 /\ desire' = desire,
           \/ pin' = pin
           \/ job[o].at = "mine" /\ pin' = [pin EXCEPT !.before = desire],
           desire' \in Demands,
           \/ desire' = desire
           \/ /\ desire'.gen = desire.gen + 1 /\ desire.n = 0 /\ desire'.n = 1 /\ desire'.why = "ensure"
              /\ j.at = "after",
           UNCHANGED <<policy, vers, rep, lock, sdPass, cast>>
    PROVE  SdInv'
<1>1. /\ job'[o] = j /\ \A q \in Processes \ {o} : job'[q] = job[q]
      /\ Cardinality(In(job')) = pin.count
    BY PinCounted
<1>2. \A q \in Operators : q # o => job'[q] = job[q]
    BY <1>1 DEF Processes
<1>3. /\ pin \in [count : Nat, owns : BOOLEAN, before : Demands]
      /\ desire \in Demands /\ desire.gen \in Nat /\ desire.n \in 0..1
    BY SdFacts
<1>4. /\ pin' \in [count : Nat, owns : BOOLEAN, before : Demands] /\ Past(pin'.before)
      /\ pin'.count = pin.count /\ pin'.owns = pin.owns
    BY <1>3 DEF SdInv, Past
<1>5. OneFirst /\ pin.count > 0
    BY OpFacts DEF SdInv
<1>6. OneFirst'
    <2>1. \A q \in Operators : job'[q].at \in FirstAt => job[q].at \in FirstAt
        BY <1>1, <1>2
    <2>2. ASSUME NEW q \in Operators, job'[q].at \in RaisesAt PROVE pin'.before.n = 0
        <3>1. CASE pin' = pin
            BY <1>1, <1>2, <1>5, <2>2, <3>1 DEF OneFirst
        <3>2. CASE pin' # pin
            <4>1. job[o].at = "mine" /\ pin'.before = desire
                BY <1>3, <3>2
            <4>2. q = o
                BY <1>2, <1>5, <2>2, <4>1 DEF OneFirst, FirstAt, RaisesAt
            <4> QED
                BY <1>1, <2>2, <4>1, <4>2 DEF RaisesAt
        <3> QED
            BY <3>1, <3>2
    <2> QED
        BY <1>4, <1>5, <2>1, <2>2 DEF OneFirst
<1>7. ASSUME Asleep' PROVE OneDrop'
    <2>1. OneDrop
        BY <1>7, Before DEF SdInv
    <2>2. \A q \in Operators : job'[q].at = "drop" => q # o /\ job[q].at = "drop" /\ desire' = desire
        BY <1>1, <1>2, <2>1 DEF OneDrop, Out
    <2>3. \A q \in Operators : job'[q].at \in RaisesAt \cup {"drop"} =>
              \/ job[q].at \in RaisesAt \cup {"drop"}
              \/ desire.n = 0 /\ desire' = desire
        BY <1>1, <1>2 DEF Out
    <2> QED
        BY <1>3, <1>4, <2>1, <2>2, <2>3 DEF OneDrop
<1>8. ASSUME Orderly' PROVE SomeoneLowers'
    <2>1. Orderly /\ Asleep /\ OneDrop /\ SomeoneLowers
        BY <1>8, Before, OrderlyAsleep DEF SdInv, Out
    <2>2. \A q \in Operators : job'[q].at = "drop" => q # o /\ job[q].at = "drop" /\ desire' = desire
        BY <1>1, <1>2, <2>1 DEF OneDrop, Out
    <2>3. \A q \in Operators : job[q].at \in {"after", "drop"} => job'[q] = job[q]
        BY <1>2 DEF Out
    <2>4. CASE desire' = desire
        BY <1>2, <1>4, <2>1, <2>2, <2>3, <2>4 DEF SomeoneLowers
    <2>5. CASE desire' # desire
        BY <1>1, <2>2, <2>5 DEF SomeoneLowers
    <2> QED
        BY <2>4, <2>5
<1>9. o \in Processes
    BY OpFacts
<1> QED
    BY <1>1, <1>3, <1>4, <1>6, <1>7, <1>8, <1>9, AtRest, SdFrame

LEMMA OpsEnsure ==
    ASSUME SdInv, NEW o \in Operators,
           EnsureChecks(o) \/ EnsureReads(o) \/ EnsureWrites(o) \/ OpRuns(o) \/ OpStops(o) \/ OpReads(o)
    PROVE  SdInv'
<1>1. /\ o \in Processes /\ o \in cast /\ job[o] \in Jobs /\ GoodJob(o, job[o])
      /\ Ensured(o) = "after" /\ NotEnsured(o) = "leave" /\ o \notin Wakes /\ o \notin Deploys
    BY OpFacts, SdAssumption
       DEF EnsureChecks, EnsureReads, EnsureWrites, OpRuns, OpStops, OpReads, At, Ensured, NotEnsured
<1>2. /\ desire \in Demands /\ desire.gen \in Nat /\ desire.n \in 0..1
      /\ pin \in [count : Nat, owns : BOOLEAN, before : Demands]
    BY SdFacts
<1>3. UNCHANGED <<policy, vers, rep, lock, sdPass, cast>>
    BY DEF EnsureChecks, EnsureReads, EnsureWrites, OpRuns, OpStops, OpReads
<1>4. job[o].at \in {"mine", "check", "ensure", "join", "run"}
    BY DEF EnsureChecks, EnsureReads, EnsureWrites, OpRuns, OpStops, OpReads, At
<1>5. ASSUME NEW j \in Jobs, job' = [job EXCEPT ![o] = j], j.seen = desire \/ j.seen = job[o].seen,
             j.at \in {"join", "check", "ensure", "after", "run", "leave"},
             j.at \in RaisesAt =>
                \/ job[o].at \in RaisesAt
                \/ job[o].at = "mine" /\ pin'.before = desire /\ desire.n = 0 /\ desire' = desire,
             \/ pin' = pin
             \/ job[o].at = "mine" /\ pin' = [pin EXCEPT !.before = desire],
             \/ desire' = desire
             \/ /\ desire'.gen = desire.gen + 1 /\ desire.n = 0 /\ desire'.n = 1 /\ desire'.why = "ensure"
                /\ j.at = "after" /\ desire' \in Demands
      PROVE  SdInv'
    <2>1. GoodJob(o, j)
        BY <1>1, <1>2, <1>5 DEF GoodJob, Past, OpPlaces, WakePlaces, RaisePlaces
    <2>2. j.at \in FirstAt => job[o].at \in FirstAt
        BY <1>5 DEF FirstAt, RaisesAt
    <2>3. job[o].at \notin Out \cup {"after", "quit"} /\ j.at \notin Out \cup {"quit"}
        BY <1>4, <1>5 DEF Out
    <2>4. desire' \in Demands
        BY <1>2, <1>5
    <2> QED
        BY <1>3, <1>5, <2>1, <2>2, <2>3, <2>4, InsideStep
<1>6. ASSUME NEW l \in {"join", "ensure", "after", "run", "leave"}, SdGo(o, l), UNCHANGED desire,
             l \in RaisesAt => job[o].at \in RaisesAt,
             \/ pin' = pin
             \/ job[o].at = "mine" /\ pin' = [pin EXCEPT !.before = desire]
      PROVE  SdInv'
    <2>1. PICK j \in Jobs : /\ j = [at |-> l, cas |-> FALSE, seen |-> job[o].seen, tries |-> 0]
                            /\ job' = [job EXCEPT ![o] = j]
        BY <1>1, <1>6, Moves DEF Places
    <2>2. j.at = l /\ j.seen = job[o].seen
        BY <2>1
    <2> QED
        BY <1>5, <1>6, <2>1, <2>2
<1>7. CASE EnsureChecks(o)
    <2>1. job[o].at \in RaisesAt /\ pin' = pin
        BY <1>7 DEF EnsureChecks, At, RaisesAt
    <2> QED
        BY <1>1, <1>6, <1>7, <2>1 DEF EnsureChecks
<1>8. CASE EnsureReads(o)
    <2>1. job[o].at \in RaisesAt /\ pin' = pin /\ desire' = desire /\ job[o].at = "ensure"
        BY <1>8 DEF EnsureReads, At, RaisesAt
    <2>2. CASE desire.n >= 1
        BY <1>1, <1>6, <1>8, <2>1, <2>2 DEF EnsureReads
    <2>3. CASE ~(desire.n >= 1)
        <3>1. PICK j : j = [job[o] EXCEPT !.cas = TRUE, !.seen = desire]
            OBVIOUS
        <3>2. job' = [job EXCEPT ![o] = j]
            BY <3>1, <1>8, <2>3, SdFacts DEF EnsureReads
        <3>3. j \in Jobs /\ j.at = job[o].at /\ j.seen = desire
            BY <3>1, <1>1, <1>2 DEF Jobs
        <3> QED
            BY <1>5, <2>1, <3>2, <3>3
    <2> QED
        BY <2>2, <2>3
<1>9. CASE EnsureWrites(o)
    <2>1. job[o].at \in RaisesAt /\ pin' = pin
        BY <1>9 DEF EnsureWrites, At, RaisesAt
    <2>2. CASE SdGo(o, "leave") /\ UNCHANGED desire
        BY <1>6, <2>1, <2>2
    <2>3. CASE SdGo(o, "after") /\ UNCHANGED desire
        BY <1>6, <2>1, <2>3
    <2>4. CASE desire.n = 0 /\ Fits(job[o].seen) /\ SdGo(o, "after")
               /\ desire' = DesireWritten(job[o].seen, 1, "ensure")
        <3>1. job[o].seen \in Demands /\ Past(job[o].seen) /\ "ensure" \in Reasons
            BY <1>1 DEF Jobs, GoodJob, Reasons
        <3>2. desire' \in Demands /\ desire'.gen = desire.gen + 1 /\ desire'.n = 1 /\ desire'.why = "ensure"
            BY <3>1, <2>4, DesireRewritten
        <3>3. PICK j \in Jobs : /\ j = [at |-> "after", cas |-> FALSE, seen |-> job[o].seen, tries |-> 0]
                                /\ job' = [job EXCEPT ![o] = j]
            BY <1>1, <2>4, Moves DEF Places
        <3>4. j.at = "after" /\ j.seen = job[o].seen
            BY <3>3
        <3> QED
            BY <1>5, <2>1, <2>4, <3>2, <3>3, <3>4
    <2>5. CASE /\ job' = [job EXCEPT ![o].at = "check", ![o].cas = FALSE, ![o].tries = @ + 1]
               /\ UNCHANGED desire
        <3>1. PICK j : j = [job[o] EXCEPT !.at = "check", !.cas = FALSE, !.tries = @ + 1]
            OBVIOUS
        <3>2. job' = [job EXCEPT ![o] = j]
            BY <3>1, <2>5, SdFacts
        <3>3. job[o].tries + 1 \in Nat /\ "check" \in Places
            BY <1>1 DEF Jobs, Places
        <3>4. j \in Jobs /\ j.at = "check" /\ j.seen = job[o].seen
            BY <3>1, <3>3, <1>1 DEF Jobs
        <3> QED
            BY <1>5, <2>1, <2>5, <3>2, <3>4
    <2> QED
        BY <1>1, <1>9, <2>2, <2>3, <2>4, <2>5 DEF EnsureWrites
<1>10. CASE OpRuns(o) \/ OpStops(o)
    <2>1. PICK l \in {"leave", "run"} : SdGo(o, l)
        BY <1>10 DEF OpRuns, OpStops
    <2>2. UNCHANGED <<desire, pin>>
        BY <1>10 DEF OpRuns, OpStops
    <2> QED
        BY <1>6, <2>1, <2>2 DEF RaisesAt
<1>11. CASE OpReads(o)
    <2>1. job[o].at = "mine" /\ UNCHANGED desire
        BY <1>11 DEF OpReads, At
    <2>2. CASE pin' = [pin EXCEPT !.before = desire] /\ SdGo(o, "join")
        BY <1>6, <2>1, <2>2 DEF RaisesAt
    <2>3. CASE SdGo(o, "leave") /\ UNCHANGED pin
        BY <1>6, <2>1, <2>3 DEF RaisesAt
    <2>4. CASE /\ desire.n = 0 /\ pin' = [pin EXCEPT !.before = desire]
               /\ job' = [job EXCEPT ![o].at = "check", ![o].seen = desire]
        <3>1. PICK j : j = [job[o] EXCEPT !.at = "check", !.seen = desire]
            OBVIOUS
        <3>2. job' = [job EXCEPT ![o] = j] /\ pin'.before = desire
            BY <3>1, <2>4, <1>2, SdFacts
        <3>3. "check" \in Places
            BY DEF Places
        <3>4. j \in Jobs /\ j.at = "check" /\ j.seen = desire
            BY <3>1, <3>3, <1>1, <1>2 DEF Jobs
        <3> QED
            BY <1>5, <2>1, <2>4, <3>2, <3>4
    <2> QED
        BY <1>11, <2>2, <2>3, <2>4 DEF OpReads
<1> QED
    BY <1>7, <1>8, <1>9, <1>10, <1>11

LEMMA OpsEnter ==
    ASSUME SdInv, NEW o \in Operators, OpEnters(o)
    PROVE  SdInv'
<1>1. /\ o \in Processes /\ o \in cast /\ job[o] \in Jobs /\ GoodJob(o, job[o]) /\ job[o].at = "start"
      /\ o \notin Wakes /\ o \notin Deploys
    BY OpFacts, SdAssumption DEF OpEnters, At
<1>2. /\ desire \in Demands /\ desire.gen \in Nat /\ desire.gen > 0
      /\ pin \in [count : Nat, owns : BOOLEAN, before : Demands]
    BY SdFacts
<1>3. UNCHANGED <<desire, policy, vers, rep, lock, sdPass, cast>> /\ Past(pin.before) /\ OneFirst
    BY DEF OpEnters, SdInv
<1>4. PICK l \in {"mine", "join"} : SdGo(o, l) /\ (l = "mine" <=> pin.count = 0)
    BY DEF OpEnters
<1>5. PICK j \in Jobs : /\ j = [at |-> l, cas |-> FALSE, seen |-> job[o].seen, tries |-> 0]
                        /\ job' = [job EXCEPT ![o] = j]
    BY <1>1, <1>4, Moves DEF Places
<1>6. j.at = l /\ j.seen = job[o].seen
    BY <1>5
<1>7. GoodJob(o, j)
    BY <1>1, <1>6 DEF GoodJob, OpPlaces, WakePlaces, RaisePlaces
<1>8. /\ job'[o] = j /\ \A q \in Operators : q # o => job'[q] = job[q] /\ q \in Processes
      /\ Cardinality(In(job')) = pin.count + 1
    <2>1. job[o].at \in Out /\ j.at \notin Out
        BY <1>1, <1>6 DEF Out
    <2>2. Cardinality(In(job')) = pin.count + 1
        BY <1>5, <2>1, PinCounted
    <2> QED
        BY <1>5, <2>2, PinCounted DEF Processes
<1>9. pin'.owns = pin.owns /\ pin'.count = pin.count + 1
    <2>1. CASE pin.count = 0
        <3>1. pin'.count = 1 /\ pin'.owns = FALSE /\ pin.owns = FALSE
            BY <1>2, <1>3, <2>1 DEF OpEnters, OneFirst
        <3>2. pin'.owns = pin.owns
            BY <3>1
        <3>3. pin'.count = pin.count + 1
            BY <2>1, <3>1
        <3> QED
            BY <3>2, <3>3
    <2>2. CASE pin.count # 0
        <3>1. pin' = [pin EXCEPT !.count = @ + 1]
            BY <2>2 DEF OpEnters
        <3> QED
            BY <1>2, <3>1
    <2> QED
        BY <2>1, <2>2
<1>10. pin' \in [count : Nat, owns : BOOLEAN, before : Demands] /\ Past(pin'.before)
    <2>1. CASE pin.count = 0
        <3>1. DesireRow(0, 0, "idle") \in Demands /\ Past(DesireRow(0, 0, "idle"))
            BY <1>2 DEF DesireRow, Demands, Reasons, Past
        <3>2. pin' = [count |-> 1, owns |-> FALSE, before |-> DesireRow(0, 0, "idle")]
            BY <2>1 DEF OpEnters
        <3> QED
            BY <3>1, <3>2
    <2>2. CASE pin.count # 0
        <3>1. pin' = [pin EXCEPT !.count = @ + 1]
            BY <2>2 DEF OpEnters
        <3> QED
            BY <1>2, <1>3, <3>1
    <2> QED
        BY <2>1, <2>2
<1>11. OneFirst'
    <2>1. CASE pin.count = 0
        <3>1. \A q \in Operators : job[q].at \in Out
            BY <2>1, OpFacts
        <3>2. \A q \in Operators : job'[q].at \in FirstAt => q = o
            BY <1>8, <3>1 DEF FirstAt, Out
        <3>3. \A q \in Operators : job'[q].at \notin RaisesAt
            BY <1>4, <1>6, <1>8, <3>1 DEF RaisesAt, Out
        <3> QED
            BY <1>3, <1>9, <2>1, <3>2, <3>3 DEF OneFirst
    <2>2. CASE pin.count # 0
        <3>1. \A q \in Operators : job'[q].at \in FirstAt \cup RaisesAt => job'[q] = job[q]
            BY <1>4, <1>6, <1>8, <2>2 DEF FirstAt, RaisesAt
        <3>2. pin'.before = pin.before /\ pin'.count # 0
            BY <1>2, <2>2, <1>9 DEF OpEnters
        <3> QED
            BY <1>3, <1>9, <3>1, <3>2 DEF OneFirst
    <2> QED
        BY <2>1, <2>2
<1>12. \A q \in Operators : job'[q].at \in RaisesAt \cup {"drop"} => job'[q] = job[q]
    BY <1>4, <1>6, <1>8 DEF RaisesAt
<1>13. ASSUME Asleep' PROVE OneDrop'
    <2>1. OneDrop
        BY <1>3, <1>5, <1>13, Before DEF SdInv
    <2> QED
        BY <1>3, <1>9, <1>12, <2>1 DEF OneDrop
<1>14. ASSUME Orderly' PROVE SomeoneLowers'
    <2>1. SomeoneLowers
        BY <1>1, <1>3, <1>5, <1>14, Before DEF SdInv
    <2>2. \A q \in Operators : job[q].at \in {"after", "drop"} => job'[q] = job[q]
        BY <1>1, <1>8
    <2> QED
        BY <1>3, <1>9, <1>12, <2>1, <2>2 DEF SomeoneLowers
<1> QED
    BY <1>1, <1>2, <1>3, <1>5, <1>7, <1>8, <1>9, <1>10, <1>11, <1>13, <1>14, AtRest, SdFrame

LEMMA OpsRecord ==
    ASSUME SdInv, NEW o \in Operators, OpRecords(o)
    PROVE  SdInv'
<1>1. /\ o \in Processes /\ o \in cast /\ job[o] \in Jobs /\ GoodJob(o, job[o]) /\ job[o].at = "after"
      /\ o \notin Wakes /\ o \notin Deploys /\ pin.count > 0
    BY OpFacts, SdAssumption DEF OpRecords, At, Out
<1>2. /\ desire \in Demands /\ desire.gen \in Nat /\ desire.n \in 0..1
      /\ pin \in [count : Nat, owns : BOOLEAN, before : Demands]
    BY SdFacts
<1>3. UNCHANGED <<desire, policy, vers, rep, lock, sdPass, cast>> /\ Past(pin.before) /\ OneFirst
    BY DEF OpRecords, SdInv
<1>4. PICK l \in {"join", "quit"} :
        /\ SdGo(o, l)
        /\ l = "quit" => pin' = pin
        /\ l = "join" => pin' = [pin EXCEPT !.owns = desire.n >= 1 /\ desire.gen # pin.before.gen]
    BY DEF OpRecords
<1>5. PICK j \in Jobs : /\ j = [at |-> l, cas |-> FALSE, seen |-> job[o].seen, tries |-> 0]
                        /\ job' = [job EXCEPT ![o] = j]
    BY <1>1, <1>4, Moves DEF Places
<1>6. j.at = l /\ j.seen = job[o].seen
    BY <1>5
<1>7. GoodJob(o, j)
    BY <1>1, <1>6 DEF GoodJob, OpPlaces, WakePlaces, RaisePlaces
<1>8. /\ job'[o] = j /\ \A q \in Operators : q # o => job'[q] = job[q] /\ q \in Processes
      /\ Cardinality(In(job')) = pin.count
    BY <1>1, <1>5, <1>6, PinCounted DEF Out, Processes
<1>9. /\ pin'.count = pin.count /\ pin'.before = pin.before
      /\ pin' \in [count : Nat, owns : BOOLEAN, before : Demands]
    BY <1>2, <1>4
\* It is the only one, and what it read before was another desire.
<1>10. /\ \A q \in Operators : q # o => job[q].at \notin FirstAt
       /\ pin.before.n = 0 /\ (desire.n = 1 => desire.gen # pin.before.gen)
    BY <1>1, <1>2, <1>3 DEF OneFirst, FirstAt, RaisesAt, Past
<1>11. pin'.owns => pin.owns \/ (desire.n = 1 /\ l = "join")
    BY <1>2, <1>4
<1>12. \A q \in Operators : job'[q].at \notin RaisesAt
    BY <1>6, <1>8, <1>10 DEF FirstAt, RaisesAt
<1>13. OneFirst'
    <2>1. \A q \in Operators : job'[q].at \in FirstAt => q = o /\ pin' = pin
        BY <1>4, <1>6, <1>8, <1>10 DEF FirstAt
    <2>2. ~pin.owns
        BY <1>1, <1>3 DEF OneFirst, FirstAt
    <2> QED
        BY <1>1, <1>9, <1>12, <2>1, <2>2 DEF OneFirst
<1>14. ASSUME Asleep' PROVE OneDrop'
    <2>1. OneDrop
        BY <1>3, <1>5, <1>14, Before DEF SdInv
    <2>2. desire.why # "qualify" /\ \A q \in Operators : job[q].at # "drop"
        BY <1>1, <2>1 DEF OneDrop, RaisesAt
    <2>3. \A q \in Operators : job'[q].at # "drop"
        BY <1>6, <1>8, <2>2
    <2> QED
        BY <1>3, <1>11, <2>1, <2>2, <2>3 DEF OneDrop
<1>15. ASSUME Orderly' PROVE SomeoneLowers'
    <2>1. SomeoneLowers /\ OneDrop
        BY <1>1, <1>3, <1>5, <1>15, Before, OrderlyAsleep DEF SdInv
    <2>2. \A q \in Operators : job'[q].at # "drop"
        BY <1>1, <1>6, <1>8, <2>1 DEF OneDrop, RaisesAt
    <2>3. l = "join"
        BY <1>6, <1>8, <1>15 DEF Orderly
    <2>4. desire.n = 1 => pin'.owns
        <3>1. PICK b \in BOOLEAN : b = (desire.n >= 1 /\ desire.gen # pin.before.gen)
            OBVIOUS
        <3>2. pin'.owns = b
            BY <1>2, <1>4, <2>3, <3>1
        <3>3. desire.n = 1 => desire.n >= 1 /\ desire.gen # pin.before.gen
            BY <1>10
        <3>4. desire.n = 1 => b = TRUE
            BY <3>1, <3>3
        <3> QED
            BY <3>2, <3>4
    <2> QED
        BY <1>3, <2>1, <2>2, <2>4 DEF SomeoneLowers
<1> QED
    BY <1>1, <1>2, <1>3, <1>5, <1>7, <1>8, <1>9, <1>13, <1>14, <1>15, AtRest, SdFrame

LEMMA OpsLeave ==
    ASSUME SdInv, NEW o \in Operators, OpLeaves(o)
    PROVE  SdInv'
<1>1. /\ o \in Processes /\ o \in cast /\ job[o] \in Jobs /\ GoodJob(o, job[o]) /\ job[o].at \in {"leave", "quit"}
      /\ o \notin Wakes /\ o \notin Deploys /\ pin.count > 0
      /\ pin.count = 1 => In(job) = {o}
    BY OpFacts, SdAssumption DEF OpLeaves, At, Out
<1>2. /\ desire \in Demands /\ desire.gen \in Nat /\ desire.gen > 0 /\ desire.n \in 0..1
      /\ pin \in [count : Nat, owns : BOOLEAN, before : Demands]
    BY SdFacts
<1>3. UNCHANGED <<desire, policy, vers, rep, lock, sdPass, cast>> /\ Past(pin.before) /\ OneFirst
    BY DEF OpLeaves, SdInv
<1>4. PICK l \in {"drop", "failed", "done"} :
        /\ SdGo(o, l)
        /\ l = "drop" <=> pin.count = 1 /\ pin.owns
        /\ l = "failed" <=> job[o].at = "quit" /\ ~(pin.count = 1 /\ pin.owns)
    BY <1>1 DEF OpLeaves, LastOut, At
<1>5. PICK j \in Jobs : /\ j = [at |-> l, cas |-> FALSE, seen |-> job[o].seen, tries |-> 0]
                        /\ job' = [job EXCEPT ![o] = j]
    BY <1>1, <1>4, Moves DEF Places
<1>6. j.at = l /\ j.seen = job[o].seen /\ j.cas = FALSE
    BY <1>5
<1>7. GoodJob(o, j)
    BY <1>1, <1>6 DEF GoodJob, OpPlaces, WakePlaces, RaisePlaces
<1>8. /\ job'[o] = j /\ \A q \in Operators : q # o => job'[q] = job[q] /\ q \in Processes
      /\ In(job') = In(job) \ {o} /\ Cardinality(In(job')) = pin.count - 1
    <2>1. job[o].at \notin Out /\ j.at \in Out
        BY <1>1, <1>6 DEF Out
    <2>2. In(job') = In(job) \ {o} /\ Cardinality(In(job')) = pin.count - 1
        BY <1>5, <2>1, PinCounted
    <2> QED
        BY <1>5, <2>2, PinCounted DEF Processes
<1>9. /\ pin'.count = pin.count - 1 /\ pin' \in [count : Nat, owns : BOOLEAN, before : Demands]
      /\ Past(pin'.before)
      /\ pin.count = 1 => pin'.owns = FALSE
      /\ pin.count # 1 => pin'.owns = pin.owns /\ pin'.before = pin.before
    <2>1. CASE pin.count = 1
        <3>1. DesireRow(0, 0, "idle") \in Demands /\ Past(DesireRow(0, 0, "idle"))
            BY <1>2 DEF DesireRow, Demands, Reasons, Past
        <3>2. pin' = [count |-> 0, owns |-> FALSE, before |-> DesireRow(0, 0, "idle")]
            BY <2>1 DEF OpLeaves, LastOut
        <3> QED
            BY <2>1, <3>1, <3>2
    <2>2. CASE pin.count # 1
        <3>1. pin' = [pin EXCEPT !.count = @ - 1] /\ pin.count - 1 \in Nat
            BY <1>1, <1>2, <2>2 DEF OpLeaves, LastOut
        <3> QED
            BY <1>2, <1>3, <2>2, <3>1
    <2> QED
        BY <2>1, <2>2
<1>10. \A q \in Operators : job'[q].at \in FirstAt => job'[q] = job[q] /\ pin.count # 1
    <2>1. \A q \in Operators : job'[q].at \in FirstAt => q # o /\ q \in In(job')
        BY <1>6, <1>8 DEF FirstAt, In, Out
    <2> QED
        BY <1>1, <1>8, <2>1
<1>11. OneFirst'
    <2>1. pin'.count = 0 => pin.count = 1
        BY <1>2, <1>9
    <2> QED
        BY <1>3, <1>9, <1>10, <2>1 DEF OneFirst, FirstAt, RaisesAt
<1>12. ASSUME Asleep' PROVE OneDrop'
    <2>1. OneDrop
        BY <1>3, <1>5, <1>12, Before DEF SdInv
    <2>2. pin'.owns => pin.owns
        BY <1>9
    <2>3. CASE l = "drop"
        <3>1. desire.n = 1 /\ ~pin'.owns /\ pin.owns /\ desire.why # "qualify"
            BY <1>4, <1>9, <2>1, <2>3 DEF OneDrop
        <3>2. \A q \in Operators : q # o => job'[q].at \notin RaisesAt \cup {"drop"}
            BY <1>4, <1>8, <1>10, <2>1, <2>3, <3>1 DEF OneDrop, FirstAt, RaisesAt
        <3> QED
            BY <1>3, <3>1, <3>2 DEF OneDrop
    <2>4. CASE l # "drop"
        <3>1. \A q \in Operators : job'[q].at \in RaisesAt \cup {"drop"} => job'[q] = job[q]
            BY <1>4, <1>6, <1>8, <2>4 DEF RaisesAt
        <3> QED
            BY <1>3, <2>1, <2>2, <3>1 DEF OneDrop
    <2> QED
        BY <2>3, <2>4
<1>13. ASSUME Orderly' PROVE SomeoneLowers'
    <2>1. l # "failed"
        BY <1>6, <1>8, <1>13 DEF Orderly
    <2>2. job[o].at = "leave"
        BY <1>1, <1>3, <1>4, <2>1 DEF OneFirst, FirstAt
    <2>3. SomeoneLowers /\ OneDrop
        BY <1>3, <1>5, <1>13, <2>2, Before, OrderlyAsleep DEF SdInv
    <2>4. \A q \in Operators : job[q].at \in {"after", "drop"} => job'[q] = job[q]
        BY <1>8, <2>2
    <2>5. CASE l = "drop"
        <3>1. pin.owns /\ \A q \in Operators : job[q].at # "drop"
            BY <1>4, <2>3, <2>5 DEF OneDrop
        <3>2. \A q \in Operators : job'[q].at = "drop" => q = o
            BY <1>8, <3>1
        <3> QED
            BY <1>3, <1>6, <1>8, <2>3, <2>5, <3>2 DEF SomeoneLowers
    <2>6. CASE l # "drop"
        <3>1. pin.owns => pin'.owns = pin.owns
            BY <1>4, <1>9, <2>6
        <3>2. \A q \in Operators : job'[q].at = "drop" => job'[q] = job[q]
            BY <1>4, <1>6, <1>8, <2>6
        <3> QED
            BY <1>3, <2>3, <2>4, <3>1, <3>2 DEF SomeoneLowers
    <2> QED
        BY <2>5, <2>6
<1> QED
    BY <1>1, <1>2, <1>3, <1>5, <1>7, <1>8, <1>9, <1>11, <1>12, <1>13, AtRest, SdFrame

LEMMA OpsDrop ==
    ASSUME SdInv, NEW o \in Operators, OpDropReads(o) \/ OpDropWrites(o)
    PROVE  SdInv'
<1>1. /\ o \in Processes /\ o \in cast /\ job[o] \in Jobs /\ GoodJob(o, job[o]) /\ job[o].at = "drop"
      /\ o \notin Wakes /\ o \notin Deploys
    BY OpFacts, SdAssumption DEF OpDropReads, OpDropWrites, At
<1>2. /\ desire \in Demands /\ desire.gen \in Nat /\ desire.n \in 0..1
      /\ pin \in [count : Nat, owns : BOOLEAN, before : Demands]
    BY SdFacts
<1>3. UNCHANGED <<policy, vers, rep, lock, pin, sdPass, cast>> /\ Past(pin.before) /\ OneFirst
    BY DEF OpDropReads, OpDropWrites, SdInv
<1>4. ASSUME NEW j \in Jobs, job' = [job EXCEPT ![o] = j], j.at \in {"drop", "done"},
             j.seen = desire \/ j.seen = job[o].seen,
             j.at = "drop" => j.seen = desire /\ desire' = desire,
             j.at = "done" => \/ desire' = desire /\ (Orderly /\ OneDrop /\ SomeoneLowers => FALSE)
                              \/ desire' \in Demands /\ desire'.n = 0 /\ desire'.why = "idle"
                                 /\ desire'.gen = desire.gen + 1
                              \/ desire' = desire /\ ~Fits(job[o].seen) /\ job[o].cas
      PROVE  SdInv'
    <2>1. GoodJob(o, j)
        BY <1>1, <1>2, <1>4 DEF GoodJob, OpPlaces, WakePlaces, RaisePlaces, Past
    <2>2. /\ job'[o] = j /\ \A q \in Operators : q # o => job'[q] = job[q] /\ q \in Processes
          /\ Cardinality(In(job')) = pin.count
        <3>1. job[o].at \in Out /\ j.at \in Out
            BY <1>1, <1>4 DEF Out
        <3> QED
            BY <1>4, <3>1, PinCounted DEF Processes
    <2>3. OneFirst'
        BY <1>3, <1>4, <2>2 DEF OneFirst, FirstAt, RaisesAt
    <2>4. ASSUME Asleep' PROVE OneDrop'
        <3>1. OneDrop
            BY <1>3, <1>4, <2>4, Before DEF SdInv
        <3>2. /\ desire.n = 1 /\ ~pin.owns /\ desire.why # "qualify"
              /\ \A q \in Operators : job[q].at \in RaisesAt \cup {"drop"} => q = o
            BY <1>1, <3>1 DEF OneDrop
        <3>3. \A q \in Operators : job'[q].at \in RaisesAt \cup {"drop"} => q = o /\ j.at = "drop" /\ desire' = desire
            BY <1>4, <2>2, <3>2 DEF RaisesAt
        <3>4. desire'.why # "qualify"
            BY <1>4, <3>2
        <3> QED
            BY <1>3, <3>2, <3>3, <3>4 DEF OneDrop
    <2>5. ASSUME Orderly' PROVE SomeoneLowers'
        <3>1. SomeoneLowers /\ OneDrop /\ Orderly
            BY <1>1, <1>3, <1>4, <2>5, Before, OrderlyAsleep DEF SdInv
        <3>2. \A q \in Operators : job[q].at = "drop" => q = o
            BY <1>1, <3>1 DEF OneDrop
        <3>3. CASE j.at = "drop"
            <4>1. \A q \in Operators : job'[q].at = "drop" => q = o
                BY <2>2, <3>2
            <4> QED
                BY <1>4, <2>2, <3>1, <3>3, <4>1 DEF SomeoneLowers
        <3>4. CASE j.at = "done"
            <4>1. \A q \in Operators : job'[q].at # "drop"
                BY <2>2, <3>2, <3>4
            <4>2. job[o].cas => Fits(job[o].seen)
                BY <1>1, <3>1 DEF SomeoneLowers, Fits
            <4>3. desire'.n = 0
                BY <1>4, <3>1, <3>4, <4>2
            <4> QED
                BY <4>1, <4>3 DEF SomeoneLowers
        <3> QED
            BY <1>4, <3>3, <3>4
    <2> QED
        BY <1>1, <1>2, <1>3, <1>4, <2>1, <2>2, <2>3, <2>4, <2>5, AtRest, SdFrame
<1>5. ASSUME SdGo(o, "done")
      PROVE \E j \in Jobs : job' = [job EXCEPT ![o] = j] /\ j.at = "done" /\ j.seen = job[o].seen
    <2>1. PICK j \in Jobs : /\ j = [at |-> "done", cas |-> FALSE, seen |-> job[o].seen, tries |-> 0]
                            /\ job' = [job EXCEPT ![o] = j]
        BY <1>1, <1>5, Moves DEF Places
    <2> QED
        BY <2>1
<1>6. CASE OpDropReads(o)
    <2>1. CASE desire.n >= 1 /\ desire.why = "ensure"
        <3>1. PICK j : j = [job[o] EXCEPT !.cas = TRUE, !.seen = desire]
            OBVIOUS
        <3>2. job' = [job EXCEPT ![o] = j] /\ desire' = desire
            BY <3>1, <1>6, <2>1, SdFacts DEF OpDropReads
        <3>3. j \in Jobs /\ j.at = "drop" /\ j.seen = desire
            BY <3>1, <1>1, <1>2 DEF Jobs
        <3> QED
            BY <1>4, <3>2, <3>3
    <2>2. CASE ~(desire.n >= 1 /\ desire.why = "ensure")
        <3>1. SdGo(o, "done") /\ desire' = desire
            BY <1>6, <2>2 DEF OpDropReads
        <3>2. OneDrop /\ SomeoneLowers => FALSE
            BY <1>1, <1>2, <2>2 DEF OneDrop, SomeoneLowers
        <3> QED
            BY <1>4, <1>5, <3>1, <3>2
    <2> QED
        BY <2>1, <2>2
<1>7. CASE OpDropWrites(o)
    <2>1. SdGo(o, "done") /\ job[o].cas
        BY <1>7 DEF OpDropWrites
    <2>2. CASE Fits(job[o].seen)
        <3>1. job[o].seen \in Demands /\ Past(job[o].seen) /\ "idle" \in Reasons
            BY <1>1 DEF Jobs, GoodJob, Reasons
        <3>2. desire' \in Demands /\ desire'.gen = desire.gen + 1 /\ desire'.n = 0 /\ desire'.why = "idle"
            BY <1>7, <2>2, <3>1, DesireRewritten DEF OpDropWrites
        <3> QED
            BY <1>4, <1>5, <2>1, <3>2
    <2>3. CASE ~Fits(job[o].seen)
        <3>1. desire' = desire
            BY <1>7, <2>3 DEF OpDropWrites
        <3> QED
            BY <1>4, <1>5, <2>1, <2>3, <3>1
    <2> QED
        BY <2>2, <2>3
<1> QED
    BY <1>6, <1>7

LEMMA PassKeeps ==
    ASSUME SdInv, SdPass \/ ReplicaLost \/ GuardLost
    PROVE  SdInv'
<1>1. UNCHANGED <<desire, policy, pin, job, cast>>
    BY DEF SdPass, PassStarts, PassReads, PassMoves, PassDecides, PassWrites, ReplicaLost, GuardLost
<1>2. OneFirst' /\ (Asleep' => OneDrop') /\ (Orderly' => SomeoneLowers') /\ Past(pin.before)'
      /\ (\A p \in Processes : GoodJob(p, job[p]))'
    BY <1>1 DEF SdInv, OneFirst, Asleep, OneDrop, Orderly, OnlyOperators, SomeoneLowers, Past, GoodJob
<1>3. SdTypeOK /\ policy \in 0..1 /\ desire \in Demands
    BY AtRest, SdFacts DEF SdInv
<1>4. sdPass \in [at : {"rest", "desire", "move", "status", "cas"}, min : 0..1, ready : BOOLEAN, des : Demands]
    BY <1>3 DEF SdTypeOK, Demands
<1>5. /\ sdPass' \in [at : {"rest", "desire", "move", "status", "cas"}, min : 0..1, ready : BOOLEAN,
                      des : Demands]
      /\ (sdPass.at = "cas" /\ ~sdPass.ready => sdPass.des.n = 0)'
    <2>1. CASE PassStarts \/ PassReads \/ PassMoves \/ PassWrites
        BY <1>3, <1>4, <2>1 DEF PassStarts, PassReads, PassMoves, PassWrites
    <2>2. CASE PassDecides
        <3>1. PICK warm \in BOOLEAN :
                warm = (vers.status = "deploy_ready" /\ sdPass.des.why = "ensure" /\ rep = "ready")
            OBVIOUS
        <3>2. PICK l \in {"cas", "rest"} :
                /\ sdPass' = [sdPass EXCEPT !.at = l, !.ready = warm]
                /\ l = "cas" /\ ~warm => sdPass.des.n = 0
            BY <2>2, <3>1 DEF PassDecides
        <3> QED
            BY <1>4, <3>2
    <2>3. CASE ReplicaLost \/ GuardLost
        BY <1>4, <2>3 DEF ReplicaLost, GuardLost, SdInv
    <2> QED
        BY <2>1, <2>2, <2>3 DEF SdPass
<1>6. /\ vers' \in [status : {"ready", "deploy_ready", "archived"}, route : BOOLEAN, prod : BOOLEAN]
      /\ rep' \in {"none", "starting", "ready"} /\ lock' \in BOOLEAN
    <2>1. vers \in [status : {"ready", "deploy_ready", "archived"}, route : BOOLEAN, prod : BOOLEAN]
          /\ rep \in {"none", "starting", "ready"} /\ lock \in BOOLEAN
        BY <1>3 DEF SdTypeOK
    <2>2. CASE PassWrites
        BY <2>1, <2>2 DEF PassWrites
    <2>3. CASE ~PassWrites
        BY <2>1, <2>3 DEF SdPass, PassStarts, PassReads, PassMoves, PassDecides, ReplicaLost, GuardLost
    <2> QED
        BY <2>2, <2>3
<1>7. SdTypeOK'
    BY <1>1, <1>3, <1>5, <1>6 DEF SdTypeOK, Demands
<1>8. cast' \subseteq Processes /\ desire'.gen > 0
    BY <1>1 DEF SdInv
<1> QED
    BY <1>2, <1>5, <1>7, <1>8 DEF SdInv

LEMMA ProcessKeeps ==
    ASSUME SdInv, NEW p \in Processes, ProcessStep(p)
    PROVE  SdInv'
<1>1. ASSUME NEW l \in RaisePlaces, RaiseRead(p, l) \/ RaiseWrite(p, l) PROVE SdInv'
    BY <1>1, OthersRaiseRead, OthersRaiseWrite
<1>2. CASE FlightStarts(p) \/ FlightEnds(p)
    BY <1>2, OthersFlights
<1>3. CASE EnsureChecks(p) \/ EnsureReads(p) \/ EnsureWrites(p)
    BY <1>3, OthersEnsure, OpsEnsure
<1>4. ASSUME \/ OpEnters(p) \/ OpReads(p) \/ OpRecords(p) \/ OpRuns(p) \/ OpStops(p)
             \/ OpLeaves(p) \/ OpDropReads(p) \/ OpDropWrites(p)
      PROVE  SdInv'
    <2>1. p \in Operators
        BY <1>4, SdFacts DEF OpEnters, OpReads, OpRecords, OpRuns, OpStops, OpLeaves, OpDropReads,
                             OpDropWrites, At, GoodJob, OtherPlaces
    <2> QED
        BY <1>4, <2>1, OpsEnter, OpsEnsure, OpsRecord, OpsLeave, OpsDrop
<1>5. CASE DeployReads(p) \/ DeployWrites(p)
    BY <1>5, OthersDeploy
<1>6. CASE CronPolicy(p) \/ PromoteStarts(p) \/ PromoteWaits(p) \/ PromoteCommits(p)
    BY <1>6, OthersCronPromote
<1>7. CASE WakeStarts(p)
    BY <1>7, OthersWakeStarts
<1>8. CASE WakeReads(p) \/ WakeWrites(p) \/ WakeWaits(p) \/ WakeReleases(p) \/ WakeRestores(p)
    BY <1>8, OthersWakes
<1> QED
    BY <1>1, <1>2, <1>3, <1>4, <1>5, <1>6, <1>7, <1>8 DEF ProcessStep, RaisePlaces

LEMMA SdStarted == SdInit => SdInv
<1> SUFFICES ASSUME SdInit PROVE SdInv
    OBVIOUS
<1>1. PICK s \in SdStarts : Suits(cast, s) /\ vers = s[1] /\ desire = s[2] /\ rep = s[3]
    BY DEF SdInit
<1>2. /\ desire \in {DesireRow(0, 1, "idle"), DesireRow(1, 1, "qualify")}
      /\ desire.why = "qualify" <=> cast \cap Deploys # {}
      /\ vers \in [status : {"ready", "deploy_ready", "archived"}, route : BOOLEAN, prod : BOOLEAN]
      /\ rep \in {"none", "starting", "ready"}
    <2>1. CASE s = <<[status |-> "ready", route |-> TRUE, prod |-> FALSE], DesireRow(1, 1, "qualify"), "ready">>
        <3>1. /\ vers = [status |-> "ready", route |-> TRUE, prod |-> FALSE]
              /\ desire = DesireRow(1, 1, "qualify") /\ rep = "ready"
            BY <1>1, <2>1
        <3>2. desire.why = "qualify" <=> cast \cap Deploys # {}
            BY <1>1 DEF Suits
        <3> QED
            BY <3>1, <3>2
    <2>2. CASE \E st \in {"ready", "deploy_ready", "archived"} :
                 s = <<[status |-> st, route |-> FALSE, prod |-> FALSE], DesireRow(0, 1, "idle"), "none">>
        <3>1. PICK st \in {"ready", "deploy_ready", "archived"} :
                 s = <<[status |-> st, route |-> FALSE, prod |-> FALSE], DesireRow(0, 1, "idle"), "none">>
            BY <2>2
        <3>2. /\ vers = [status |-> st, route |-> FALSE, prod |-> FALSE]
              /\ desire = DesireRow(0, 1, "idle") /\ rep = "none"
            BY <1>1, <3>1
        <3>3. desire.why = "qualify" <=> cast \cap Deploys # {}
            BY <1>1 DEF Suits
        <3> QED
            BY <3>2, <3>3
    <2> QED
        BY <2>1, <2>2 DEF SdStarts
<1>3. desire \in Demands /\ desire.gen = 1 /\ (desire.why = "qualify" => desire.n = 1)
      /\ (desire.why # "qualify" => desire.n = 0)
    BY <1>2 DEF DesireRow, Demands, Reasons
<1>4. /\ job = [p \in Processes |-> [at |-> "start", cas |-> FALSE,
                                     seen |-> DesireRow(0, 0, "idle"), tries |-> 0]]
      /\ pin = [count |-> 0, owns |-> FALSE, before |-> DesireRow(0, 0, "idle")]
      /\ sdPass = [at |-> "rest", min |-> 0, des |-> DesireRow(0, 0, "idle"), ready |-> FALSE]
      /\ cast \in SdCasts /\ policy = 0 /\ lock = TRUE
    BY DEF SdInit
<1>5. DesireRow(0, 0, "idle") \in Demands /\ DesireRow(0, 0, "idle").gen = 0 /\ "start" \in Places
    BY DEF DesireRow, Demands, Reasons, Places
<1>6. \A p \in Processes : /\ job[p].at = "start" /\ job[p].cas = FALSE /\ job[p] \in Jobs
                           /\ job[p].seen = DesireRow(0, 0, "idle")
    BY <1>4, <1>5 DEF Jobs
<1>7. job \in [Processes -> Jobs]
    BY <1>4, <1>5 DEF Jobs
<1>8. \A o \in Operators : o \in Processes
    BY DEF Processes
<1>9. In(job) = {} /\ pin.count = Cardinality(In(job))
    <2>1. In(job) = {}
        BY <1>6, <1>8 DEF In, Out
    <2> QED
        BY <2>1, <1>4, FS_EmptySet
<1>10. SdTypeOK
    BY <1>2, <1>3, <1>4, <1>5, <1>7, <1>9 DEF SdTypeOK, Demands, Jobs, In, Out
<1>11. Past(DesireRow(0, 0, "idle"))
    BY <1>3, <1>5 DEF Past
<1>12. \A p \in Processes : GoodJob(p, job[p])
    BY <1>6, <1>11 DEF GoodJob, OpPlaces, OtherPlaces, WakePlaces, RaisePlaces, Places
<1>13. OneFirst /\ (Asleep => OneDrop)
    BY <1>3, <1>4, <1>6, <1>8 DEF OneFirst, OneDrop, FirstAt, RaisesAt
<1>14. Orderly => SomeoneLowers
    BY <1>2, <1>3, <1>6, <1>8 DEF Orderly, SomeoneLowers
<1>15. cast \subseteq Processes /\ desire.gen > 0 /\ sdPass.at # "cas" /\ Past(pin.before)
    BY <1>3, <1>4, <1>11, SdAssumption
<1> QED
    BY <1>10, <1>12, <1>13, <1>14, <1>15 DEF SdInv

\* SdInv holds of every behaviour: the row moves on only from what somebody read,
\* one operator at a time raises it for all, and none drops it for another.
THEOREM SdInvariance == SdSpec => []SdInv
<1>1. SdInv /\ [SdNext]_sdVars => SdInv'
    <2>1. SdInv /\ SdNext => SdInv'
        BY PassKeeps, ProcessKeeps DEF SdNext
    <2>2. SdInv /\ UNCHANGED sdVars => SdInv'
        BY DEF sdVars, SdInv, SdTypeOK, OneFirst, Asleep, OneDrop, Orderly, OnlyOperators, SomeoneLowers,
               Past, GoodJob
    <2> QED
        BY <2>1, <2>2
<1> QED
    BY <1>1, SdStarted, PTL DEF SdSpec

LEMMA PinsHoldThen == SdInv => PinsHold
<1> SUFFICES ASSUME SdInv PROVE PinsHold
    OBVIOUS
<1>1. OperatorPinHolds
    BY DEF SdInv, OperatorPinHolds, Asleep, OneDrop
<1>2. ASSUME OnlyOperators, cast \cap Deploys = {}, \A o \in Operators : job[o].at \in {"start", "done"},
             pin.count = 0
      PROVE  desire.n = 0
    <2>1. Orderly
        BY <1>2 DEF Orderly
    <2>2. ~pin.owns /\ SomeoneLowers /\ desire.n \in 0..1
        BY <1>2, <2>1, SdFacts DEF SdInv, OneFirst
    <2> QED
        BY <1>2, <2>2 DEF SomeoneLowers
<1> QED
    BY <1>1, <1>2 DEF PinsHold, PinsReturned, SdInv

\* operatorServingEnsurer (serve/operator_serving.go), whoever else writes the
\* desire: while the pin is the operators' own, none that left has taken the demand
\* away, and when all are out of it without an error nobody wants the version.
THEOREM PinsAreHeld == SdSpec => []PinsHold
    BY SdInvariance, PinsHoldThen, PTL

\* CompareAndSetElasticVersionStatus (registry/serving_sqlite.go), however old the
\* pass's reads are: the write that makes a version cold finds no demand, no
\* resident policy, and no prod that has to stay.
THEOREM ColdIsUnwanted == SdSpec => CooledUnwanted
<1>1. SdInv /\ [SdNext]_sdVars =>
        [vers.status = "ready" /\ vers'.status = "deploy_ready"
            => desire.n = 0 /\ policy = 0 /\ (vers.prod => ProdScaleToZero)]_sdVars
    <2> SUFFICES ASSUME SdInv, SdNext, vers.status = "ready", vers'.status = "deploy_ready"
                 PROVE  desire.n = 0 /\ policy = 0 /\ (vers.prod => ProdScaleToZero)
        BY DEF sdVars
    <2>1. vers \in [status : {"ready", "deploy_ready", "archived"}, route : BOOLEAN, prod : BOOLEAN]
        BY AtRest
    <2>2. CASE PassWrites
        <3>1. desire = sdPass.des /\ ~sdPass.ready /\ MayCool
            BY <2>1, <2>2 DEF PassWrites, MayWarm
        <3> QED
            BY <2>2, <3>1 DEF PassWrites, MayCool, SdInv
    <2>3. CASE (SdPass /\ ~PassWrites) \/ ReplicaLost \/ GuardLost
        BY <2>3 DEF SdPass, PassStarts, PassReads, PassMoves, PassDecides, ReplicaLost, GuardLost
    <2>4. ASSUME NEW p \in Processes, ProcessStep(p) PROVE FALSE
        <3>1. vers'.status = vers.status \/ vers'.status = "ready"
            <4>1. CASE WakeStarts(p)
                BY <2>1, <4>1 DEF WakeStarts
            <4>2. CASE PromoteCommits(p)
                BY <2>1, <4>2 DEF PromoteCommits
            <4>3. CASE ~WakeStarts(p) /\ ~PromoteCommits(p)
                <5>1. vers' = vers
                    BY <2>4, <4>3 DEF ProcessStep, RaiseRead, RaiseWrite, FlightStarts, EnsureChecks, EnsureReads,
                        EnsureWrites, FlightEnds, OpEnters, OpReads, OpRecords, OpRuns, OpStops, OpLeaves,
                        OpDropReads, OpDropWrites, DeployReads, DeployWrites, CronPolicy, PromoteStarts,
                        PromoteWaits, WakeReads, WakeWrites, WakeWaits, WakeReleases, WakeRestores
                <5> QED
                    BY <5>1
            <4> QED
                BY <4>1, <4>2, <4>3
        <3> QED
            BY <3>1
    <2> QED
        BY <2>2, <2>3, <2>4 DEF SdNext
<1> QED
    BY <1>1, SdInvariance, PTL DEF SdSpec, CooledUnwanted

===============================================================================
