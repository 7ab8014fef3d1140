--------------------------- MODULE Processes_proofs ---------------------------
(***************************************************************************)
(* Proofs about NodeLife: for any number of lives of an agent, of requests *)
(* and of faults, a generation has one holder, and its lease is given back *)
(* only when the holder is idle.  Then proofs about ControllerLife: for    *)
(* any number of processes, of attempts and of faults, only the holder of  *)
(* the guard writes, and the lease of an embedded agent is given back when *)
(* nothing is left that could use it.                                      *)
(***************************************************************************)
EXTENDS NodeLife, ControllerLife, TLAPS, FiniteSetTheorems

LifeRow == [at : LifeAts, gen : Nat, open : BOOLEAN, cmds : 0 .. LifeCommands]

\* Where the listener may accept commands, and where a life has ended its work.
InLoop == {"loop", "heartbeat", "reconcile"}
LifeEnded == {"release", "gone"}

\* An activation that was written, whose life has not heard of it.
Won(q) == q.op = "activate" /\ q.at = "done" /\ q.ans = "ok"

LifeTyped ==
    /\ ticks \in 1 .. LifeTime /\ node \in [gen : Nat, until : LifeTimes]
    /\ seen \in [Unscoped -> LifeTimes] /\ woes \in 0 .. LifeFaults
    /\ life \in [Lives -> LifeRow]
    /\ requests \subseteq Request /\ \A q \in requests : q.sent <= LifeTime

GoodLife(r) ==
    /\ r.open => r.at \in InLoop
    /\ r.at \in LifeEnded => r.cmds = 0
    /\ r.gen <= node.gen

\* Who waits for an answer is where it asked; a release is of a life that ended its
\* work; what was checked will be written with a time to come.
GoodRequest(q) ==
    /\ q.heard => life[q.by].at = q.op
    /\ q.op = "release" /\ q.at # "done" =>
         q.gen > 0 /\ life[q.by].gen = q.gen /\ life[q.by].at \in LifeEnded
    /\ q.at = "checked" => Writes(q) /\ (q.op # "release" => q.until > 0)
    /\ Won(q) => q.exp < node.gen /\ \A l \in Lives : life[l].gen # q.exp + 1

\* A life waits for one answer, and an activation is won once.
Single(Q) ==
    \A p, q \in Q :
        \/ p.heard /\ q.heard /\ p.by = q.by
        \/ Won(p) /\ Won(q) /\ p.exp = q.exp
        => p = q

LifeInv ==
    /\ LifeTyped
    /\ \A l \in Lives : GoodLife(life[l])
    /\ \A q \in requests : GoodRequest(q)
    /\ Single(requests)
    /\ OneLifePerGeneration

-----------------------------------------------------------------------------
\* The invariant holds at first.
LEMMA LifeInitially == NlInit => LifeInv
<1> SUFFICES ASSUME NlInit PROVE LifeInv
  OBVIOUS
<1> LifeTime \in Nat \ {0} /\ NodeTtl \in Nat /\ ScopeTtl \in Nat /\ LifeCommands \in Nat /\ LifeFaults \in Nat
  BY LifeAssumption
<1>1. 0 \in LifeTimes
  BY DEF LifeTimes
<1>2. Unborn \in LifeRow
  BY DEF Unborn, LifeRow, LifeAts
<1>3. ticks \in 1 .. LifeTime /\ woes \in 0 .. LifeFaults
  BY DEF NlInit
<1>4. node \in [gen : Nat, until : LifeTimes] /\ seen \in [Unscoped -> LifeTimes]
  BY <1>1 DEF NlInit
<1>5. life \in [Lives -> LifeRow] /\ requests = {}
  BY <1>2 DEF NlInit
<1>6. LifeTyped /\ Single(requests) /\ \A q \in requests : GoodRequest(q)
  BY <1>3, <1>4, <1>5 DEF LifeTyped, Single
<1>7. \A l \in Lives : life[l] = Unborn
  BY DEF NlInit
<1>8. \A l \in Lives : GoodLife(life[l])
  BY <1>7 DEF GoodLife, NlInit, Unborn
<1>9. OneLifePerGeneration
  BY <1>7 DEF OneLifePerGeneration, Unborn
<1>10. QED BY <1>6, <1>8, <1>9 DEF LifeInv

\* It implies the property the runs check.
LEMMA LifeSuffices == LifeInv => NodesFenced
<1> SUFFICES ASSUME LifeInv PROVE NodesFenced
  OBVIOUS
<1>1. ASSUME NEW l \in Lives PROVE Cardinality(Calling(l)) <= 1
  <2>1. CASE Calling(l) = {}
    BY <2>1, FS_EmptySet
  <2>2. ASSUME NEW q \in Calling(l) PROVE Cardinality(Calling(l)) <= 1
    <3>1. Calling(l) = {q}
      BY <2>2 DEF Calling, LifeInv, Single
    <3>2. Cardinality({q}) = 1
      BY FS_Singleton
    <3>3. QED BY <3>1, <3>2
  <2>3. QED BY <2>1, <2>2
<1>2. ticks \in 0 .. LifeTime
  BY LifeAssumption DEF LifeInv, LifeTyped
<1>3. QED BY <1>1, <1>2 DEF LifeInv, LifeTyped, LifeRow, NodesFenced, NlTypeOK

-----------------------------------------------------------------------------
(* The agent's steps.                                                       *)

\* What giving up leaves of a request.
Unheard(q) == [q EXCEPT !.heard = FALSE]

\* A request l sends: r is the row it waits in.
Sends(l, r, q) ==
    /\ q \in Request /\ q.sent <= LifeTime
    /\ q.by = l /\ q.op = r.at /\ q.at = "sent"
    /\ q.op = "release" => q.gen > 0 /\ r.gen = q.gen

\* A request whose caller stopped listening stays a good one.
LEMMA UnheardGood ==
  ASSUME LifeInv, NEW q \in requests
  PROVE  /\ Unheard(q) \in Request /\ Unheard(q).sent <= LifeTime
         /\ GoodRequest(Unheard(q)) /\ ~Unheard(q).heard
         /\ Unheard(q).by = q.by /\ Unheard(q).op = q.op /\ Unheard(q).at = q.at
         /\ Unheard(q).gen = q.gen /\ Unheard(q).exp = q.exp /\ Unheard(q).ans = q.ans
<1>1. q \in Request /\ q.sent <= LifeTime /\ GoodRequest(q)
  BY DEF LifeInv, LifeTyped
<1>2. /\ Unheard(q) \in Request /\ Unheard(q).sent = q.sent /\ Unheard(q).until = q.until
      /\ ~Unheard(q).heard
      /\ Unheard(q).by = q.by /\ Unheard(q).op = q.op /\ Unheard(q).at = q.at
      /\ Unheard(q).gen = q.gen /\ Unheard(q).exp = q.exp /\ Unheard(q).ans = q.ans
  BY <1>1 DEF Unheard, Request
<1>3. GoodRequest(Unheard(q))
  BY <1>1, <1>2 DEF GoodRequest, Won, Writes
<1>4. QED BY <1>1, <1>2, <1>3

\* Fewer requests, still one per life at most that is listened to.
LEMMA SingleLess == ASSUME Single(requests), NEW Q, Q \subseteq requests PROVE Single(Q)
BY DEF Single

\* A life that sends has no other request it listens to.
LEMMA SingleSends ==
  ASSUME Single(requests), NEW Q, Q \subseteq requests,
         NEW l \in Lives, NEW r \in LifeRow, NEW s, Sends(l, r, s),
         \A q \in Q : ~(q.by = l /\ q.heard)
  PROVE  Single(Q \cup {s})
BY DEF Single, Sends, Won

\* What is left of the requests of a life that gives up.
LEMMA GivenUpGood ==
  ASSUME LifeInv, NEW l \in Lives
  PROVE  /\ Single(GivenUp(l))
         /\ \A q \in GivenUp(l) :
              /\ ~(q.by = l /\ q.heard)
              /\ q \in requests \/ \E p \in requests : p.by = l /\ p.at # "done" /\ q = Unheard(p)
<1>1. ASSUME NEW q \in GivenUp(l)
      PROVE  \/ q \in requests /\ q.by # l
             \/ \E p \in requests : p.by = l /\ p.at # "done" /\ q = Unheard(p)
  BY DEF GivenUp, Unheard
<1>2. ASSUME NEW p \in requests, p.by = l, p.at # "done"
      PROVE  ~Unheard(p).heard /\ Unheard(p).by = l /\ ~Won(Unheard(p))
  BY <1>2, UnheardGood DEF Won
<1>3. ASSUME NEW q \in GivenUp(l), NEW p \in GivenUp(l),
             (p.heard /\ q.heard /\ p.by = q.by) \/ (Won(p) /\ Won(q) /\ p.exp = q.exp)
      PROVE  p = q
  <2>1. q \in requests /\ p \in requests
    BY <1>1, <1>2, <1>3
  <2>2. QED BY <2>1, <1>3 DEF LifeInv, Single
<1>4. Single(GivenUp(l))
  BY <1>3 DEF Single
<1>5. QED BY <1>1, <1>2, <1>4

\* A step of one life: it moves to row r, sends a request, waits on or gives up; a
\* new generation is that of an activation it won.
LEMMA LifeMoves ==
  ASSUME LifeInv, NEW l \in Lives, NEW r \in LifeRow, SetLife(l, r),
         UNCHANGED <<ticks, node, seen>>, woes' \in 0 .. LifeFaults,
         r.open => r.at \in InLoop,
         \/ r.gen = life[l].gen
         \/ /\ life[l].at \notin LifeEnded
            /\ \E q \in requests : Won(q) /\ r.gen = q.exp + 1 /\ q \notin requests',
         life[l].at \in LifeEnded => r.at \in LifeEnded, r.at \in LifeEnded => r.cmds = 0,
         \A q \in requests' :
            \/ q \in requests /\ (q.by = l /\ q.heard => q.op = r.at)
            \/ \E p \in requests : p.by = l /\ p.at # "done" /\ q = Unheard(p)
            \/ Sends(l, r, q),
         Single(requests')
  PROVE  LifeInv'
<1>1. /\ life' \in [Lives -> LifeRow] /\ life'[l] = r
      /\ \A k \in Lives \ {l} : life'[k] = life[k]
  BY DEF SetLife, LifeInv, LifeTyped
<1>2. r.gen = life[l].gen \/ (r.gen > 0 /\ \A k \in Lives \ {l} : life[k].gen # r.gen)
  BY DEF LifeInv, GoodRequest, LifeTyped, Request
<1>3. r.gen \in Nat /\ node.gen \in Nat /\ r.gen <= node.gen
  <2>1. CASE r.gen = life[l].gen
    BY <2>1 DEF LifeInv, GoodLife, LifeTyped, LifeRow
  <2>2. CASE r.gen # life[l].gen
    <3>1. PICK q \in requests : Won(q) /\ r.gen = q.exp + 1
      BY <2>2
    <3>2. q.exp \in Nat /\ node.gen \in Nat /\ q.exp < node.gen
      BY <3>1 DEF LifeInv, LifeTyped, GoodRequest, Request
    <3>3. QED BY <3>1, <3>2
  <2>3. QED BY <2>1, <2>2
<1>4. ASSUME NEW k \in Lives PROVE GoodLife(life[k])'
  BY <1>1, <1>3 DEF LifeInv, GoodLife
<1>5. OneLifePerGeneration'
  BY <1>1, <1>2 DEF LifeInv, OneLifePerGeneration
<1>6. ASSUME NEW q \in requests, q.by = l /\ q.heard => q.op = r.at, q \in requests'
      PROVE  GoodRequest(q)'
  <2>1. q \in Request /\ GoodRequest(q) /\ q.by \in Lives
    BY DEF LifeInv, LifeTyped, Request
  <2>2. q.heard => life'[q.by].at = q.op
    BY <2>1, <1>1, <1>6 DEF GoodRequest
  <2>3. q.op = "release" /\ q.at # "done" =>
          q.gen > 0 /\ life'[q.by].gen = q.gen /\ life'[q.by].at \in LifeEnded
    BY <2>1, <1>1 DEF GoodRequest
  <2>4. ASSUME Won(q) PROVE q.exp < node.gen /\ \A k \in Lives : life'[k].gen # q.exp + 1
    <3>1. q.exp \in Nat /\ q.exp < node.gen /\ \A k \in Lives : life[k].gen # q.exp + 1
      BY <2>1, <2>4 DEF GoodRequest, Request
    <3>2. r.gen # q.exp + 1
      <4>1. CASE r.gen = life[l].gen
        BY <4>1, <3>1
      <4>2. ASSUME NEW p \in requests, Won(p), r.gen = p.exp + 1, p \notin requests'
            PROVE  r.gen # q.exp + 1
        <5>1. p # q /\ p.exp \in Nat
          BY <4>2, <1>6 DEF LifeInv, LifeTyped, Request
        <5>2. p.exp # q.exp
          BY <5>1, <2>4, <4>2 DEF LifeInv, Single
        <5>3. QED BY <5>1, <5>2, <3>1, <4>2
      <4>3. QED BY <4>1, <4>2
    <3>3. QED BY <3>1, <3>2, <1>1
  <2>5. QED BY <2>1, <2>2, <2>3, <2>4 DEF GoodRequest, Won, Writes
<1>7. ASSUME NEW p \in requests, p.by = l, p.at # "done" PROVE GoodRequest(Unheard(p))'
  <2>1. PICK u : u = Unheard(p)
    OBVIOUS
  <2>2. ~u.heard /\ u.by = l /\ GoodRequest(u) /\ ~Won(u)
    BY <2>1, <1>7, UnheardGood DEF Won
  <2>3. GoodRequest(u)'
    BY <2>2, <1>1 DEF GoodRequest, Won, Writes
  <2>4. QED BY <2>1, <2>3 DEF Unheard
<1>8. ASSUME NEW q, Sends(l, r, q) PROVE GoodRequest(q)' /\ q \in Request /\ q.sent <= LifeTime
  BY <1>8, <1>1 DEF Sends, GoodRequest, Won, LifeEnded
<1>9. ASSUME NEW q \in requests' PROVE GoodRequest(q)' /\ q \in Request /\ q.sent <= LifeTime
  <2>1. CASE q \in requests /\ (q.by = l /\ q.heard => q.op = r.at)
    BY <2>1, <1>6 DEF LifeInv, LifeTyped
  <2>2. ASSUME NEW p \in requests, p.by = l, p.at # "done", q = Unheard(p)
        PROVE  GoodRequest(q)' /\ q \in Request /\ q.sent <= LifeTime
    BY <2>2, <1>7, UnheardGood
  <2>3. QED BY <2>1, <2>2, <1>8
<1>10. LifeTyped'
  BY <1>1, <1>9 DEF LifeInv, LifeTyped
<1>11. QED BY <1>4, <1>5, <1>9, <1>10 DEF LifeInv

\* Nothing new is asked, and of l's requests none waits elsewhere.
LEMMA LifeQuiet ==
  ASSUME LifeInv, NEW l \in Lives, NEW r \in LifeRow, SetLife(l, r),
         UNCHANGED <<ticks, node, seen>>, woes' \in 0 .. LifeFaults,
         r.open => r.at \in InLoop,
         r.gen = life[l].gen,
         life[l].at \in LifeEnded => r.at \in LifeEnded, r.at \in LifeEnded => r.cmds = 0,
         requests' \subseteq requests,
         \A q \in requests' : q.by = l /\ q.heard => q.op = r.at
  PROVE  LifeInv'
<1>1. Single(requests')
  BY SingleLess DEF LifeInv
<1>2. QED BY <1>1, LifeMoves

\* The life asks, or asks again after an answer: whatever else it waited for is over.
LEMMA LifeAsks ==
  ASSUME LifeInv, NEW l \in Lives, NEW r \in LifeRow, SetLife(l, r),
         UNCHANGED <<ticks, node, seen>>, woes' \in 0 .. LifeFaults,
         r.open => r.at \in InLoop,
         NEW Q, Q \subseteq requests, \A q \in Q : ~(q.by = l /\ q.heard),
         NEW s, Sends(l, r, s), requests' = Q \cup {s},
         \/ r.gen = life[l].gen
         \/ /\ life[l].at \notin LifeEnded
            /\ \E q \in requests : Won(q) /\ r.gen = q.exp + 1 /\ q \notin requests',
         life[l].at \notin LifeEnded, r.at \in LifeEnded => r.cmds = 0
  PROVE  LifeInv'
<1>1. Single(requests')
  BY SingleSends DEF LifeInv
<1>2. \A q \in requests' :
            \/ q \in requests /\ (q.by = l /\ q.heard => q.op = r.at)
            \/ \E p \in requests : p.by = l /\ p.at # "done" /\ q = Unheard(p)
            \/ Sends(l, r, q)
  OBVIOUS
<1>3. QED BY <1>1, <1>2, LifeMoves

\* The requests of l are given up, and it moves on without an answer.
LEMMA LifeGivesUp ==
  ASSUME LifeInv, NEW l \in Lives, NEW r \in LifeRow, SetLife(l, r),
         UNCHANGED <<ticks, node, seen>>, woes' \in 0 .. LifeFaults,
         r.open => r.at \in InLoop,
         r.gen = life[l].gen,
         life[l].at \in LifeEnded => r.at \in LifeEnded, r.at \in LifeEnded => r.cmds = 0,
         requests' = GivenUp(l)
  PROVE  LifeInv'
BY GivenUpGood, LifeMoves

-----------------------------------------------------------------------------
\* The calls of the register, as rows a life sends.
LEMMA CallSends ==
  ASSUME LifeInv, NEW l \in Lives, NEW r \in LifeRow, r.at \in LifeOps,
         r.at = "release" => r.gen = life[l].gen /\ r.gen > 0
  PROVE  /\ Sends(l, r, LifeCall(l, r.at))
         /\ r.at = "activate" => \A n \in Nat : Sends(l, r, [LifeCall(l, "activate") EXCEPT !.exp = n])
         /\ r.at = "reconcile" => Sends(l, r, RelayCall(l))
         /\ r.at = "list" => Sends(l, r, [RelayCall(l) EXCEPT !.op = "list"])
<1>1. ticks \in LifeTimes /\ 0 \in LifeTimes /\ ticks <= LifeTime /\ life[l].gen \in Nat
  BY LifeAssumption DEF LifeInv, LifeTyped, LifeTimes, LifeRow
<1>2. ASSUME NEW op \in LifeOps PROVE LifeCall(l, op) \in Request
  BY <1>1 DEF LifeCall, Request, LifeAnswers
<1>3. Sends(l, r, LifeCall(l, r.at))
  BY <1>1, <1>2 DEF Sends, LifeCall
<1>4. ASSUME r.at = "activate", NEW n \in Nat
      PROVE  Sends(l, r, [LifeCall(l, "activate") EXCEPT !.exp = n])
  BY <1>1, <1>4 DEF Sends, LifeCall, Request, LifeAnswers, LifeOps, Unscoped
<1>5. r.at = "reconcile" => Sends(l, r, RelayCall(l))
  BY <1>1 DEF Sends, LifeCall, RelayCall, Request, LifeAnswers, LifeOps, Unscoped
<1>6. r.at = "list" => Sends(l, r, [RelayCall(l) EXCEPT !.op = "list"])
  BY <1>1 DEF Sends, LifeCall, RelayCall, Request, LifeAnswers, LifeOps, Unscoped
<1>7. QED BY <1>3, <1>4, <1>5, <1>6

\* What holds of the row of a life.
LEMMA LifeMoved ==
  ASSUME LifeInv, NEW l \in Lives
  PROVE  /\ life[l] \in LifeRow
         /\ life[l].open => life[l].at \in InLoop
         /\ life[l].at \in LifeEnded => life[l].cmds = 0
BY DEF LifeInv, LifeTyped, GoodLife

\* The request a life waits for is the only one it hears.
LEMMA HeardAlone ==
  ASSUME LifeInv, NEW l \in Lives, NEW q \in Calling(l), NEW p \in requests \ {q}
  PROVE  /\ ~(p.by = l /\ p.heard) /\ q \in requests /\ life[l].at = q.op
BY DEF LifeInv, Single, Calling, GoodRequest

LEMMA HearsKeeps == ASSUME LifeInv, NEW l \in Lives, HearsAnswer(l) PROVE LifeInv'
<1> DEFINE row == life[l]
<1>1. PICK q \in requests : \/ HearsStatus(l, q) \/ HearsActivate(l, q) \/ HearsList(l, q)
                            \/ HearsInLoop(l, q) \/ HearsRelease(l, q)
  BY DEF HearsAnswer
<1>2. q \in Calling(l) /\ q.at = "done" /\ life[l].at = q.op
  <2>1. q \in Calling(l) /\ q.at = "done"
    BY <1>1 DEF HearsStatus, HearsActivate, HearsList, HearsInLoop, HearsRelease, Hears
  <2>2. QED BY <2>1, HeardAlone DEF Calling, LifeInv, GoodRequest
<1>3. \A p \in requests \ {q} : ~(p.by = l /\ p.heard)
  BY <1>2, HeardAlone
<1>4. UNCHANGED <<ticks, node, seen>> /\ woes' \in 0 .. LifeFaults
  BY DEF HearsAnswer, LifeOnly, LifeInv, LifeTyped
<1>5. q \in Request /\ q.exp \in Nat /\ q.found \in Nat
  BY <1>2 DEF Calling, LifeInv, LifeTyped, Request
<1>6. life[l] \in LifeRow /\ (life[l].open => life[l].at \in InLoop) /\ (life[l].at \in LifeEnded => life[l].cmds = 0)
  BY LifeMoved
<1>7. ASSUME life[l].at \notin LifeEnded, Quits(l), CallOver(q) PROVE LifeInv'
  <2> DEFINE r == [life[l] EXCEPT !.at = "quiesce", !.open = FALSE]
  <2>1. r \in LifeRow /\ ~r.open /\ r.gen = life[l].gen /\ r.at \notin LifeEnded
    BY <1>6 DEF LifeRow, LifeAts, LifeEnded
  <2>2. QED BY <1>3, <1>4, <1>7, <2>1, LifeQuiet DEF Quits, CallOver
<1>8. CASE HearsStatus(l, q)
  <2>1. life[l].at = "status" /\ ~life[l].open
    BY <1>2, <1>6, <1>8 DEF HearsStatus, Hears, InLoop
  <2>2. CASE q.ans = "ok" /\ q.until <= ticks
    <3> DEFINE r == [life[l] EXCEPT !.at = "activate"]
               s == [LifeCall(l, "activate") EXCEPT !.exp = q.found]
    <3>1. r \in LifeRow /\ r.gen = life[l].gen /\ r.at = "activate" /\ r.open = life[l].open
      BY <1>6 DEF LifeRow, LifeAts
    <3>2. Sends(l, r, s)
      BY <3>1, <1>5, CallSends DEF LifeOps, Unscoped
    <3>3. SetLife(l, r) /\ requests' = (requests \ {q}) \cup {s}
      BY <1>8, <2>2 DEF HearsStatus, Goes, Then
    <3>4. QED BY <1>3, <1>4, <2>1, <3>1, <3>2, <3>3, LifeAsks DEF LifeEnded
  <2>3. CASE ~(q.ans = "ok" /\ q.until <= ticks)
    BY <1>7, <1>8, <2>1, <2>3 DEF HearsStatus, LifeEnded
  <2>4. QED BY <2>2, <2>3
<1>9. CASE HearsActivate(l, q)
  <2>1. life[l].at = "activate" /\ q.op = "activate" /\ ~life[l].open
    BY <1>2, <1>6, <1>9 DEF HearsActivate, Hears, InLoop
  <2>2. CASE q.ans = "ok"
    <3> DEFINE r == [life[l] EXCEPT !.at = "list", !.gen = q.exp + 1]
               s == [RelayCall(l) EXCEPT !.op = "list"]
    <3>1. r \in LifeRow /\ r.gen = q.exp + 1 /\ r.at = "list" /\ r.open = life[l].open
      <4>1. q.exp + 1 \in Nat
        BY <1>5
      <4>2. ASSUME NEW n \in Nat PROVE [life[l] EXCEPT !.at = "list", !.gen = n] \in LifeRow
        BY <1>6 DEF LifeRow, LifeAts
      <4>3. QED BY <1>6, <4>1, <4>2 DEF LifeRow
    <3>2. Sends(l, r, s)
      BY <3>1, CallSends DEF LifeOps, Unscoped
    <3>3. SetLife(l, r) /\ requests' = (requests \ {q}) \cup {s}
      BY <1>9, <2>2 DEF HearsActivate, Then
    <3>4. Won(q) /\ q \notin requests'
      BY <1>2, <2>1, <2>2, <3>2, <3>3 DEF Won, Sends
    <3>5. QED BY <1>3, <1>4, <2>1, <3>1, <3>2, <3>3, <3>4, LifeAsks DEF LifeEnded
  <2>3. CASE q.ans # "ok"
    BY <1>7, <1>9, <2>1, <2>3 DEF HearsActivate, LifeEnded
  <2>4. QED BY <2>2, <2>3
<1>10. CASE HearsList(l, q)
  <2>1. life[l].at = "list" /\ CallOver(q)
    BY <1>2, <1>10 DEF HearsList, Hears
  <2>2. CASE q.ans = "ok"
    <3> DEFINE r == [life[l] EXCEPT !.at = "loop", !.open = TRUE]
    <3>1. r \in LifeRow /\ r.at \in InLoop /\ r.gen = life[l].gen /\ r.at \notin LifeEnded
      BY <1>6 DEF LifeRow, LifeAts, InLoop, LifeEnded
    <3>2. QED BY <1>3, <1>4, <1>10, <2>1, <2>2, <3>1, LifeQuiet DEF HearsList, CallOver, LifeEnded
  <2>3. CASE q.ans # "ok"
    BY <1>7, <1>10, <2>1, <2>3 DEF HearsList, LifeEnded
  <2>4. QED BY <2>2, <2>3
<1>11. CASE HearsInLoop(l, q)
  <2>1. life[l].at \in InLoop \ {"loop"} /\ CallOver(q)
    BY <1>2, <1>11 DEF HearsInLoop, Hears, InLoop
  <2>2. CASE FatalAnswer(q.ans)
    BY <1>7, <1>11, <2>1, <2>2 DEF HearsInLoop, LifeEnded, InLoop
  <2>3. CASE ~FatalAnswer(q.ans)
    <3> DEFINE r == [life[l] EXCEPT !.at = "loop"]
    <3>1. r \in LifeRow /\ r.at \in InLoop /\ r.gen = life[l].gen /\ r.at \notin LifeEnded
      BY <1>6 DEF LifeRow, LifeAts, InLoop, LifeEnded
    <3>2. QED BY <1>3, <1>4, <1>11, <2>1, <2>3, <3>1, LifeQuiet
          DEF HearsInLoop, Goes, CallOver, LifeEnded, InLoop
  <2>4. QED BY <2>2, <2>3
<1>12. CASE HearsRelease(l, q)
  <2>1. life[l].at = "release" /\ life[l].cmds = 0 /\ CallOver(q)
    BY <1>2, <1>6, <1>12 DEF HearsRelease, Hears, LifeEnded
  <2> DEFINE r == [life[l] EXCEPT !.at = "gone"]
  <2>2. r \in LifeRow /\ ~r.open /\ r.gen = life[l].gen /\ r.cmds = 0 /\ r.at = "gone"
    BY <1>6, <2>1 DEF LifeRow, LifeAts, InLoop
  <2>3. QED BY <1>3, <1>4, <1>12, <2>1, <2>2, LifeQuiet DEF HearsRelease, Goes, CallOver, LifeEnded
<1>13. QED BY <1>1, <1>8, <1>9, <1>10, <1>11, <1>12

\* A life that does not wait for an answer has no request that is heard.
LEMMA Unasked ==
  ASSUME LifeInv, NEW l \in Lives, life[l].at \notin LifeOps, NEW q \in requests
  PROVE  ~(q.by = l /\ q.heard)
BY DEF LifeInv, LifeTyped, GoodRequest, Request

LEMMA LifeStepKeeps == ASSUME LifeInv, NEW l \in Lives, LifeSteps(l) PROVE LifeInv'
<1>1. life[l] \in LifeRow /\ (life[l].open => life[l].at \in InLoop) /\ (life[l].at \in LifeEnded => life[l].cmds = 0)
  BY LifeMoved
<1>2. woes \in 0 .. LifeFaults /\ (woes < LifeFaults => woes + 1 \in 0 .. LifeFaults)
  BY LifeAssumption DEF LifeInv, LifeTyped
<1> LifeCommands \in Nat /\ 0 \in 0 .. LifeCommands
  BY LifeAssumption
<1>3. ASSUME Quits(l), requests' = GivenUp(l), LifeOnly, woes' \in 0 .. LifeFaults, life[l].at \notin LifeEnded
      PROVE  LifeInv'
  <2> DEFINE r == [life[l] EXCEPT !.at = "quiesce", !.open = FALSE]
  <2>1. r \in LifeRow /\ ~r.open /\ r.gen = life[l].gen /\ r.at \notin LifeEnded
    BY <1>1 DEF LifeRow, LifeAts, LifeEnded
  <2>2. QED BY <1>3, <2>1, LifeGivesUp DEF Quits, LifeOnly
<1>4. ASSUME NEW a \in LifeOps, ~life[l].open \/ a \in InLoop, life[l].at \notin LifeOps \cup LifeEnded,
             a = "release" => life[l].gen > 0 /\ life[l].cmds = 0,
             Goes(l, a), NEW s, s = LifeCall(l, a) \/ (a = "reconcile" /\ s = RelayCall(l)),
             requests' = requests \cup {s}, LifeOnly, UNCHANGED woes
      PROVE  LifeInv'
  <2> DEFINE r == [life[l] EXCEPT !.at = a]
  <2>1. r \in LifeRow /\ r.open = life[l].open /\ r.gen = life[l].gen /\ r.cmds = life[l].cmds /\ r.at = a
    BY <1>1, <1>4 DEF LifeRow, LifeAts, LifeOps, Unscoped
  <2>2. Sends(l, r, s)
    BY <1>4, <2>1, CallSends
  <2>3. \A q \in requests : ~(q.by = l /\ q.heard)
    BY <1>4, Unasked
  <2>4. r.at \in LifeEnded => r.cmds = 0
    BY <1>4, <2>1 DEF LifeEnded, LifeOps, Unscoped
  <2>5. r.open => r.at \in InLoop
    BY <1>4, <2>1
  <2>6. SetLife(l, r) /\ UNCHANGED <<ticks, node, seen>> /\ woes' \in 0 .. LifeFaults
    BY <1>2, <1>4 DEF Goes, LifeOnly
  <2>7. QED BY <1>4, <2>1, <2>2, <2>3, <2>4, <2>5, <2>6, LifeAsks
<1>5. CASE LifeStarts(l)
  <2>1. life[l].at = "off" /\ ~life[l].open
    BY <1>1, <1>5 DEF LifeStarts, InLoop
  <2>2. QED BY <1>4, <1>5, <2>1 DEF LifeStarts, LifeOps, Unscoped, LifeEnded
<1>6. CASE HearsNothing(l)
  <2>1. requests' = GivenUp(l) /\ LifeOnly /\ woes' \in 0 .. LifeFaults
    BY <1>2, <1>6 DEF HearsNothing
  <2>2. CASE life[l].at \in {"heartbeat", "reconcile"} /\ Goes(l, "loop")
    <3> DEFINE r == [life[l] EXCEPT !.at = "loop"]
    <3>1. r \in LifeRow /\ r.at \in InLoop /\ r.gen = life[l].gen /\ r.at \notin LifeEnded
      BY <1>1 DEF LifeRow, LifeAts, InLoop, LifeEnded
    <3>2. QED BY <2>1, <2>2, <3>1, LifeGivesUp DEF Goes, LifeOnly, LifeEnded
  <2>3. CASE life[l].at = "release" /\ Goes(l, "gone")
    <3> DEFINE r == [life[l] EXCEPT !.at = "gone"]
    <3>1. /\ r \in LifeRow /\ r.open = life[l].open /\ r.gen = life[l].gen
          /\ r.cmds = life[l].cmds /\ r.at = "gone"
      BY <1>1 DEF LifeRow, LifeAts
    <3>2. ~life[l].open /\ life[l].cmds = 0
      BY <1>1, <2>3 DEF InLoop, LifeEnded
    <3>3. QED BY <2>1, <2>3, <3>1, <3>2, LifeGivesUp DEF Goes, LifeOnly, LifeEnded
  <2>4. CASE life[l].at \in {"status", "activate", "list"} /\ Quits(l)
    BY <1>3, <2>1, <2>4 DEF LifeEnded
  <2>5. QED BY <1>6, <2>2, <2>3, <2>4 DEF HearsNothing
<1>7. CASE StopAsked(l)
  BY <1>2, <1>3, <1>7 DEF StopAsked, LifeEnded
<1>8. CASE Quiesced(l)
  <2>1. life[l].at = "quiesce" /\ life[l].cmds = 0 /\ ~life[l].open /\ life[l].at \notin LifeOps \cup LifeEnded
    BY <1>1, <1>8 DEF Quiesced, InLoop, LifeOps, Unscoped, LifeEnded
  <2>2. CASE life[l].gen > 0
    BY <1>4, <1>8, <2>1, <2>2 DEF Quiesced, LifeOps
  <2>3. CASE ~(life[l].gen > 0)
    <3> DEFINE r == [life[l] EXCEPT !.at = "gone"]
    <3>1. /\ r \in LifeRow /\ r.open = life[l].open /\ r.gen = life[l].gen
          /\ r.cmds = life[l].cmds /\ r.at = "gone"
      BY <1>1 DEF LifeRow, LifeAts
    <3>2. \A q \in requests : ~(q.by = l /\ q.heard)
      BY <2>1, Unasked
    <3>3. SetLife(l, r) /\ UNCHANGED <<ticks, node, seen, woes, requests>>
      BY <1>8, <2>3 DEF Quiesced, Goes, LifeOnly
    <3>4. QED BY <1>2, <2>1, <3>1, <3>2, <3>3, LifeQuiet DEF LifeEnded
  <2>4. QED BY <2>2, <2>3
<1>9. CASE QuiesceTimesOut(l)
  <2>1. life[l].at = "quiesce" /\ ~life[l].open /\ life[l].at \notin LifeOps \cup LifeEnded
    BY <1>1, <1>9 DEF QuiesceTimesOut, InLoop, LifeOps, Unscoped, LifeEnded
  <2> DEFINE r == [life[l] EXCEPT !.at = "gone", !.cmds = 0]
  <2>2. /\ r \in LifeRow /\ r.open = life[l].open /\ r.gen = life[l].gen /\ r.cmds = 0 /\ r.at = "gone"
    BY <1>1 DEF LifeRow, LifeAts
  <2>3. \A q \in requests : ~(q.by = l /\ q.heard)
    BY <2>1, Unasked
  <2>4. QED BY <1>2, <1>9, <2>1, <2>2, <2>3, LifeQuiet DEF QuiesceTimesOut, LifeOnly
<1>10. CASE LifeCrashes(l)
  <2> DEFINE r == [life[l] EXCEPT !.at = "gone", !.open = FALSE, !.cmds = 0]
  <2>1. r \in LifeRow /\ ~r.open /\ r.gen = life[l].gen /\ r.cmds = 0 /\ r.at \in LifeEnded
    BY <1>1 DEF LifeRow, LifeAts, LifeEnded
  <2>2. QED BY <1>2, <1>10, <2>1, LifeGivesUp DEF LifeCrashes, LifeOnly
<1>11. ASSUME CommandIn(l) \/ CommandOut(l) PROVE LifeInv'
  <2>1. PICK n \in 0 .. LifeCommands : /\ SetLife(l, [life[l] EXCEPT !.cmds = n])
                                       /\ life[l].open \/ life[l].cmds > 0
    <3>1. life[l].cmds \in 0 .. LifeCommands
      BY <1>1 DEF LifeRow
    <3>2. CASE CommandIn(l)
      <4>1. life[l].cmds + 1 \in 0 .. LifeCommands
        BY <3>1, <3>2 DEF CommandIn
      <4>2. QED BY <3>2, <4>1 DEF CommandIn
    <3>3. CASE CommandOut(l)
      <4>1. life[l].cmds - 1 \in 0 .. LifeCommands
        BY <3>1, <3>3 DEF CommandOut
      <4>2. QED BY <3>3, <4>1 DEF CommandOut
    <3>4. QED BY <1>11, <3>2, <3>3
  <2> DEFINE r == [life[l] EXCEPT !.cmds = n]
  <2>2. r \in LifeRow /\ r.open = life[l].open /\ r.gen = life[l].gen /\ r.at = life[l].at
    BY <1>1 DEF LifeRow
  <2>3. life[l].at \notin LifeEnded
    BY <1>1, <2>1 DEF InLoop, LifeEnded, LifeRow
  <2>4. \A q \in requests : q.by = l /\ q.heard => q.op = r.at
    BY <2>2 DEF LifeInv, GoodRequest
  <2>5. UNCHANGED <<ticks, node, seen, woes, requests>>
    BY <1>11 DEF CommandIn, CommandOut, LifeOnly
  <2>6. QED BY <1>1, <1>2, <2>1, <2>2, <2>3, <2>4, <2>5, LifeQuiet
<1>12. CASE HearsAnswer(l)
  BY <1>12, HearsKeeps
<1>13. CASE HeartbeatDue(l)
  BY <1>4, <1>13 DEF HeartbeatDue, LifeOps, Unscoped, LifeEnded, InLoop
<1>14. CASE ReconcileDue(l)
  BY <1>4, <1>14 DEF ReconcileDue, LifeOps, Unscoped, LifeEnded, InLoop
<1>15. QED BY <1>5, <1>6, <1>7, <1>8, <1>9, <1>10, <1>11, <1>12, <1>13, <1>14 DEF LifeSteps

-----------------------------------------------------------------------------
(* The controller's steps.                                                  *)

\* s takes the place of q.
Follows(s, q) ==
    /\ s \in Request /\ s.sent <= LifeTime
    /\ s.by = q.by /\ s.op = q.op /\ s.gen = q.gen /\ s.exp = q.exp
    /\ s.heard => q.heard
    /\ s.at # "done" => q.at # "done"
    /\ s.at = "checked" => Writes(q) /\ (q.op # "release" => s.until > 0)

\* A request is served on: a win is of the generation after the one it found.
LEMMA Served ==
  ASSUME LifeInv, NEW q \in requests,
         NEW S, \A s \in S : Follows(s, q), \A s, t \in S : s = t,
         \A s \in S : Won(s) => q.exp = node.gen /\ node'.gen = q.exp + 1,
         requests' = (requests \ {q}) \cup S,
         UNCHANGED <<ticks, life>>,
         node' \in [gen : Nat, until : LifeTimes], node'.gen >= node.gen,
         seen' \in [Unscoped -> LifeTimes], woes' \in 0 .. LifeFaults
  PROVE  LifeInv'
<1>1. node.gen \in Nat /\ node'.gen \in Nat /\ q \in Request /\ GoodRequest(q)
  BY DEF LifeInv, LifeTyped
<1>2. \A l \in Lives : GoodLife(life[l]) /\ life[l].gen \in Nat
  BY DEF LifeInv, LifeTyped, LifeRow
<1>3. ASSUME NEW p \in requests PROVE GoodRequest(p)'
  <2>1. p.exp \in Nat /\ GoodRequest(p)
    BY DEF LifeInv, LifeTyped, Request
  <2>2. QED BY <1>1, <2>1 DEF GoodRequest, Won, Writes
<1>4. ASSUME NEW s \in S PROVE GoodRequest(s)'
  <2>1. s.heard => life'[s.by].at = s.op
    BY <1>1 DEF Follows, GoodRequest
  <2>2. s.op = "release" /\ s.at # "done" =>
          s.gen > 0 /\ life'[s.by].gen = s.gen /\ life'[s.by].at \in LifeEnded
    BY <1>1 DEF Follows, GoodRequest
  <2>3. s.at = "checked" => Writes(s) /\ (s.op # "release" => s.until > 0)
    BY DEF Follows, Writes
  <2>4. ASSUME Won(s) PROVE s.exp < node'.gen /\ \A l \in Lives : life'[l].gen # s.exp + 1
    <3>1. s.exp = node.gen /\ node'.gen = s.exp + 1
      BY <2>4 DEF Follows
    <3>2. QED BY <1>1, <1>2, <3>1 DEF GoodLife
  <2>5. QED BY <2>1, <2>2, <2>3, <2>4 DEF GoodRequest, Won, Writes
<1>5. \A p \in requests' : GoodRequest(p)' /\ p \in Request /\ p.sent <= LifeTime
  BY <1>3, <1>4 DEF LifeInv, LifeTyped, Follows
<1>6. Single(requests')
  <2>1. ASSUME NEW s \in S, NEW p \in requests \ {q},
               (p.heard /\ s.heard /\ p.by = s.by) \/ (Won(p) /\ Won(s) /\ p.exp = s.exp)
        PROVE  FALSE
    <3>1. CASE p.heard /\ s.heard /\ p.by = s.by
      BY <3>1 DEF LifeInv, Single, Follows
    <3>2. CASE Won(p) /\ Won(s) /\ p.exp = s.exp
      <4>1. p.exp \in Nat /\ p.exp < node.gen
        BY <3>2 DEF LifeInv, LifeTyped, GoodRequest, Request
      <4>2. p.exp = node.gen
        BY <3>2 DEF Follows
      <4>3. QED BY <1>1, <4>1, <4>2
    <3>3. QED BY <2>1, <3>1, <3>2
  <2>2. QED BY <2>1 DEF LifeInv, Single
<1>7. LifeTyped'
  BY <1>5 DEF LifeInv, LifeTyped
<1>8. \A l \in Lives : GoodLife(life[l])'
  BY <1>1, <1>2 DEF GoodLife
<1>9. OneLifePerGeneration'
  BY DEF LifeInv, OneLifePerGeneration
<1>10. QED BY <1>5, <1>6, <1>7, <1>8, <1>9 DEF LifeInv

\* p is q, but for what an answer says of the node.
Kept(p, q) ==
    /\ p \in Request
    /\ p.by = q.by /\ p.op = q.op /\ p.gen = q.gen /\ p.exp = q.exp /\ p.heard = q.heard

\* The changes the controller makes to a request keep what its caller relies on.
LEMMA RequestKept ==
  ASSUME NEW q \in Request
  PROVE  /\ Kept(q, q)
         /\ \A u \in LifeTimes : Kept([q EXCEPT !.until = u], q)
         /\ \A u \in LifeTimes, f \in Nat : Kept([q EXCEPT !.until = u, !.found = f], q)
BY DEF Kept, Request

\* An answer is of the request: it wins only as the answer to an activation.
LEMMA AnswerFollows ==
  ASSUME NEW q \in Request, NEW p, Kept(p, q), NEW ans \in LifeAnswers
  PROVE  /\ \A s \in Answered(p, ans) : Follows(s, q) /\ (Won(s) => q.op = "activate" /\ ans = "ok")
         /\ \A s, t \in Answered(p, ans) : s = t
<1>1. 0 \in LifeTimes /\ 0 <= LifeTime
  BY LifeAssumption DEF LifeTimes
<1>2. PICK s : s = [p EXCEPT !.at = "done", !.ans = ans, !.sent = 0]
  OBVIOUS
<1>3. /\ s \in Request /\ s.sent = 0 /\ s.at = "done" /\ s.ans = ans
      /\ s.by = p.by /\ s.op = p.op /\ s.gen = p.gen /\ s.exp = p.exp /\ s.heard = p.heard
  BY <1>1, <1>2 DEF Kept, Request
<1>4. Answered(p, ans) \subseteq {s}
  BY <1>2 DEF Answered
<1>5. Follows(s, q) /\ (Won(s) => q.op = "activate" /\ ans = "ok")
  BY <1>1, <1>3 DEF Kept, Follows, Won
<1>6. QED BY <1>4, <1>5

\* The answers, and when an activation is granted.
LEMMA VerdictFits ==
  ASSUME NEW q
  PROVE  /\ Verdict(q) \in LifeAnswers
         /\ q.op = "activate" /\ Verdict(q) = "ok" => q.exp = node.gen
BY DEF Verdict, LifeAnswers, Activatable, Registered, RelayRegistered

\* A consumed nonce is kept for a time that fits.
LEMMA ConsumesTyped ==
  ASSUME LifeInv, NEW q \in requests, Consumes(q)
  PROVE  seen' \in [Unscoped -> LifeTimes]
<1>1. q \in Request /\ q.sent <= LifeTime /\ ScopeTtl \in Nat /\ NodeTtl \in Nat /\ LifeTime \in Nat
  BY LifeAssumption DEF LifeInv, LifeTyped
<1>2. q.sent + ScopeTtl \in LifeTimes
  BY <1>1 DEF Request, LifeTimes
<1>3. QED BY <1>2 DEF Consumes, LifeInv, LifeTyped

LEMMA ChecksKeeps == ASSUME LifeInv, NEW q \in requests, Checks(q) PROVE LifeInv'
<1>1. /\ node' = node /\ node \in [gen : Nat, until : LifeTimes]
      /\ UNCHANGED <<ticks, life>> /\ woes' \in 0 .. LifeFaults
  BY DEF Checks, LifeInv, LifeTyped
<1>2. seen' \in [Unscoped -> LifeTimes] /\ q.at = "sent"
  BY ConsumesTyped DEF Checks
<1>3. q \in Request /\ ticks \in 1 .. LifeTime /\ q.sent <= LifeTime
  BY DEF LifeInv, LifeTyped
<1>4. CASE Verdict(q) = "ok" /\ Writes(q)
  <2>1. PICK u : u = IF q.op = "release" THEN 0 ELSE ticks + NodeTtl
    OBVIOUS
  <2>2. u \in LifeTimes /\ (q.op # "release" => u > 0) /\ 0 \in LifeTimes /\ 0 <= LifeTime
    BY <1>3, <2>1, LifeAssumption DEF LifeTimes
  <2>3. PICK s : s = [q EXCEPT !.at = "checked", !.sent = 0, !.until = u]
    OBVIOUS
  <2>4. /\ s \in Request /\ s.sent = 0 /\ s.at = "checked" /\ s.until = u
        /\ s.by = q.by /\ s.op = q.op /\ s.gen = q.gen /\ s.exp = q.exp /\ s.heard = q.heard
    BY <1>3, <2>2, <2>3 DEF Request
  <2>5. Follows(s, q) /\ ~Won(s)
    BY <1>2, <1>4, <2>2, <2>4 DEF Follows, Won
  <2>6. requests' = (requests \ {q}) \cup {s}
    BY <1>4, <2>1, <2>3 DEF Checks
  <2>7. PICK S : S = {s}
    OBVIOUS
  <2>8. requests' = (requests \ {q}) \cup S
        /\ (\A x \in S : Follows(x, q) /\ ~Won(x)) /\ (\A x, y \in S : x = y)
    BY <2>5, <2>6, <2>7
  <2>9. QED BY <1>1, <1>2, <2>8, Served
<1>5. CASE ~(Verdict(q) = "ok" /\ Writes(q)) /\ Verdict(q) = "ok"
  <2>1. PICK p : p = [q EXCEPT !.until = node.until, !.found = node.gen]
    OBVIOUS
  <2>2. requests' = (requests \ {q}) \cup Answered(p, "ok")
    BY <1>5, <2>1 DEF Checks
  <2>3. /\ \A s \in Answered(p, "ok") : Follows(s, q) /\ (Won(s) => q.op = "activate")
        /\ \A s, t \in Answered(p, "ok") : s = t
    <3>1. Kept(p, q)
      BY <1>1, <1>3, <2>1, RequestKept
    <3>2. QED BY <1>3, <3>1, AnswerFollows DEF LifeAnswers
  <2>4. QED BY <1>1, <1>2, <1>5, <2>2, <2>3, Served DEF Writes
<1>6. CASE Verdict(q) # "ok"
  <2>1. requests' = (requests \ {q}) \cup Answered(q, Verdict(q))
    BY <1>6 DEF Checks
  <2>2. /\ \A s \in Answered(q, Verdict(q)) : Follows(s, q) /\ ~Won(s)
        /\ \A s, t \in Answered(q, Verdict(q)) : s = t
    <3>1. Kept(q, q) /\ Verdict(q) \in LifeAnswers
      BY <1>3, RequestKept, VerdictFits
    <3>2. QED BY <1>3, <1>6, <3>1, AnswerFollows
  <2>3. QED BY <1>1, <1>2, <2>1, <2>2, Served
<1>7. QED BY <1>4, <1>5, <1>6

LEMMA RelayChecksKeeps == ASSUME LifeInv, NEW q \in requests, RelayChecks(q) PROVE LifeInv'
<1>1. /\ node' = node /\ node \in [gen : Nat, until : LifeTimes]
      /\ UNCHANGED <<ticks, life>> /\ woes' \in 0 .. LifeFaults
  BY DEF RelayChecks, LifeInv, LifeTyped
<1>2. seen' \in [Unscoped -> LifeTimes] /\ q.op # "activate"
  BY ConsumesTyped DEF RelayChecks
<1>3. requests' = (requests \ {q}) \cup Answered(q, Verdict(q))
  BY DEF RelayChecks
<1>4. /\ \A s \in Answered(q, Verdict(q)) : Follows(s, q) /\ ~Won(s)
      /\ \A s, t \in Answered(q, Verdict(q)) : s = t
  <2>1. q \in Request /\ Kept(q, q) /\ Verdict(q) \in LifeAnswers
    BY RequestKept, VerdictFits DEF LifeInv, LifeTyped
  <2>2. QED BY <1>2, <2>1, AnswerFollows
<1>5. QED BY <1>1, <1>2, <1>3, <1>4, Served

\* The statement's WHERE: an activation finds the generation it expected.
LEMMA CommitsKeeps == ASSUME LifeInv, NEW q \in requests, Commits(q) PROVE LifeInv'
<1>1. /\ node \in [gen : Nat, until : LifeTimes] /\ seen' \in [Unscoped -> LifeTimes]
      /\ UNCHANGED <<ticks, life>> /\ woes' \in 0 .. LifeFaults
  BY DEF Commits, LifeInv, LifeTyped
<1>2. q.until \in LifeTimes /\ q.exp \in Nat /\ 0 \in LifeTimes
  BY LifeAssumption DEF LifeInv, LifeTyped, Request, LifeTimes
<1>3. node' \in [gen : Nat, until : LifeTimes] /\ node'.gen >= node.gen
  BY <1>1, <1>2 DEF Commits, NodeWritten, Matches
<1>4. Matches(q) /\ q.op = "activate" => q.exp = node.gen /\ node'.gen = q.exp + 1
  BY DEF Commits, NodeWritten, Matches
<1>5. PICK ans \in LifeAnswers : ans = IF Matches(q) THEN "ok" ELSE "stale"
  BY DEF LifeAnswers
<1>6. PICK p : p = [q EXCEPT !.until = 0]
  OBVIOUS
<1>7. requests' = (requests \ {q}) \cup Answered(p, ans)
  BY <1>5, <1>6 DEF Commits
<1>8. /\ \A s \in Answered(p, ans) : Follows(s, q) /\ (Won(s) => q.op = "activate" /\ Matches(q))
      /\ \A s, t \in Answered(p, ans) : s = t
  <2>1. q \in Request /\ Kept(p, q)
    BY <1>2, <1>6, RequestKept DEF LifeInv, LifeTyped
  <2>2. QED BY <1>5, <2>1, AnswerFollows
<1>9. QED BY <1>1, <1>3, <1>4, <1>7, <1>8, Served

LEMMA UnavailableKeeps == ASSUME LifeInv, NEW q \in requests, Unavailable(q) PROVE LifeInv'
<1>1. /\ node' = node /\ node \in [gen : Nat, until : LifeTimes] /\ seen' \in [Unscoped -> LifeTimes]
      /\ UNCHANGED <<ticks, life>> /\ 0 \in LifeTimes
  BY LifeAssumption DEF Unavailable, LifeInv, LifeTyped, LifeTimes
<1>2. woes' \in 0 .. LifeFaults
  BY LifeAssumption DEF Unavailable, LifeInv, LifeTyped
<1>3. PICK p : p = [q EXCEPT !.until = 0]
  OBVIOUS
<1>4. requests' = (requests \ {q}) \cup Answered(p, "unavailable")
  BY <1>3 DEF Unavailable
<1>5. /\ \A s \in Answered(p, "unavailable") : Follows(s, q) /\ ~Won(s)
      /\ \A s, t \in Answered(p, "unavailable") : s = t
  <2>1. q \in Request /\ Kept(p, q)
    BY <1>1, <1>3, RequestKept DEF LifeInv, LifeTyped
  <2>2. QED BY <2>1, AnswerFollows DEF LifeAnswers
<1>6. QED BY <1>1, <1>2, <1>4, <1>5, Served

\* Steps that change neither node nor lives, and at most forget requests.
LEMMA LessRequests ==
  ASSUME LifeInv, UNCHANGED <<node, life>>, requests' \subseteq requests,
         ticks' \in 1 .. LifeTime, seen' \in [Unscoped -> LifeTimes], woes' \in 0 .. LifeFaults
  PROVE  LifeInv'
<1>1. Single(requests')
  BY SingleLess DEF LifeInv
<1>2. QED BY <1>1 DEF LifeInv, LifeTyped, GoodLife, GoodRequest, OneLifePerGeneration

\* Every step keeps the invariant.
LEMMA LifeInvStep == ASSUME LifeInv, [NlNext]_nlVars PROVE LifeInv'
<1> /\ ticks \in 1 .. LifeTime /\ LifeTime \in Nat /\ LifeFaults \in Nat
    /\ seen \in [Unscoped -> LifeTimes] /\ woes \in 0 .. LifeFaults
  BY LifeAssumption DEF LifeInv, LifeTyped
<1>1. CASE LifeTicks
  <2>1. ticks' \in 1 .. LifeTime
    BY <1>1 DEF LifeTicks
  <2>2. QED BY <1>1, <2>1, LessRequests DEF LifeTicks
<1>2. ASSUME NEW q \in requests, Checks(q) \/ RelayChecks(q) \/ Commits(q) \/ Unavailable(q)
      PROVE  LifeInv'
  BY <1>2, ChecksKeeps, RelayChecksKeeps, CommitsKeeps, UnavailableKeeps
<1>3. ASSUME NEW q \in requests, Dropped(q) PROVE LifeInv'
  BY <1>3, LessRequests DEF Dropped
<1>4. CASE CachesLost
  <2>1. woes' \in 0 .. LifeFaults
    BY <1>4 DEF CachesLost
  <2>2. seen' \in [Unscoped -> LifeTimes]
    BY <1>4, LifeAssumption DEF CachesLost, LifeTimes
  <2>3. QED BY <1>4, <2>1, <2>2, LessRequests DEF CachesLost
<1>5. ASSUME NEW l \in Lives, LifeSteps(l) PROVE LifeInv'
  BY <1>5, LifeStepKeeps
<1>6. CASE UNCHANGED nlVars
  BY <1>6, LessRequests DEF nlVars
<1>7. QED BY <1>1, <1>2, <1>3, <1>4, <1>5, <1>6 DEF NlNext, ServerSteps

\* No two lives of an agent hold one generation of its node, whatever is lost,
\* repeated or written late (NodesFenced).
THEOREM GenerationFence == NlSpec => []NodesFenced
<1>1. NlSpec => []LifeInv
  BY LifeInitially, LifeInvStep, PTL DEF NlSpec
<1>2. QED BY <1>1, LifeSuffices, PTL

-----------------------------------------------------------------------------
\* Only a release that is written ends a lease before its time, and whoever sent it
\* has ended its work.
LEMMA ReleasesIdle ==
  ASSUME LifeInv, [NlNext]_nlVars,
         node'.gen = node.gen, node'.until < node.until, node'.until = 0,
         NEW l \in Lives, life[l].gen = node.gen
  PROVE  life[l].cmds = 0 /\ ~life[l].open
<1>1. node.gen \in Nat /\ node.until \in Nat /\ node' # node
  BY LifeAssumption DEF LifeInv, LifeTyped, LifeTimes
<1>2. PICK q \in requests : Commits(q)
  BY <1>1 DEF NlNext, nlVars, LifeTicks, ServerSteps, Checks, RelayChecks, Unavailable, Dropped,
      CachesLost, LifeSteps, LifeStarts, HearsNothing, StopAsked, Quiesced, QuiesceTimesOut,
      LifeCrashes, CommandIn, CommandOut, HearsAnswer, HeartbeatDue, ReconcileDue, LifeOnly
<1>3. Matches(q) /\ node' = NodeWritten(q) /\ GoodRequest(q) /\ q.at = "checked" /\ q.by \in Lives
  BY <1>1, <1>2 DEF Commits, LifeInv, LifeTyped, Request
<1>4. q.op = "release"
  <2>1. q.exp \in Nat /\ q.until \in Nat
    BY LifeAssumption DEF LifeInv, LifeTyped, Request, LifeTimes
  <2>2. q.op # "activate"
    BY <1>1, <1>3, <2>1 DEF Matches, NodeWritten
  <2>3. q.op # "release" => q.until > 0
    BY <1>3 DEF GoodRequest
  <2>4. QED BY <1>3, <2>1, <2>2, <2>3 DEF NodeWritten
<1>5. q.gen > 0 /\ q.gen = node.gen /\ life[q.by].gen = q.gen /\ life[q.by].at \in LifeEnded
  BY <1>3, <1>4 DEF GoodRequest, Matches
<1>6. l = q.by
  BY <1>3, <1>5 DEF LifeInv, OneLifePerGeneration
<1>7. QED BY <1>5, <1>6, LifeMoved DEF LifeEnded, InLoop

\* A lease is given back only when its life neither executes nor accepts a command
\* (ReleasedIdle).
THEOREM IdleRelease == NlSpec => ReleasedIdle
<1>1. LifeInv /\ [NlNext]_nlVars =>
        [(node'.gen = node.gen /\ node'.until < node.until /\ node'.until = 0) =>
           \A l \in Lives : life[l].gen = node.gen => life[l].cmds = 0 /\ ~life[l].open]_nlVars
  BY ReleasesIdle
<1>2. NlSpec => []LifeInv
  BY LifeInitially, LifeInvStep, PTL DEF NlSpec
<1>3. QED BY <1>1, <1>2, PTL DEF NlSpec, ReleasedIdle

-----------------------------------------------------------------------------
(* ControllerLife: the guard of the controller and the lease of its agent. *)

Starting == {"off", "read", "clear", "set"}
Serving == {"boot", "run"} \cup CleanupStages

\* The stages of the cleanup after the one that waits for the agent, ...
PastAgent == {"celld", "lease", "free", "exit"}
PastLoops == {"agent"} \cup PastAgent
PastServers == {"loops"} \cup PastLoops

\* A process that serves or cleans up has the guard, and one that failed to end
\* its workers keeps it.
Needs(q) == q.at \in Serving \/ (q.at = "exit" /\ ~q.quiesced)

\* Before the guard is set, and after the end, nothing runs.  While no wait was
\* given up, what a stage has waited for is gone.
GoodProcess(q) ==
    /\ q \in Process
    /\ q.at \in Starting \cup {"gone"} => q.up = {} /\ ~q.cron
    /\ q.quiesced =>
        /\ q.at \in PastServers => "servers" \notin q.up
        /\ q.at \in PastLoops => "loops" \notin q.up
        /\ q.at \in PastAgent => "agent" \notin q.up

\* Whoever is about to clear the guard has seen the holder dead, and the dead stay so.
SawDead(q, processes) ==
    q.at = "clear" => q.cur \in Cellpds /\ processes[q.cur].at = "gone"

GuardInv ==
    /\ guard \in Cellpds \cup {NoCellpd} /\ setbacks \in 0 .. CellpdFaults
    /\ cellpd \in [Cellpds -> Process]
    /\ \A p \in Cellpds : GoodProcess(cellpd[p]) /\ SawDead(cellpd[p], cellpd)
    /\ \A p \in Cellpds : Needs(cellpd[p]) => guard = p
    /\ guard # NoCellpd => cellpd[guard].at \notin Starting

-----------------------------------------------------------------------------
LEMMA GuardInitially == ClInit => GuardInv
BY CellpdAssumption DEF ClInit, GuardInv, GoodProcess, SawDead, Needs, Process, NoProcess,
    CellpdAts, Starting, Serving, CleanupStages, PastServers, PastLoops, PastAgent, Tracked

LEMMA GuardSuffices == GuardInv => GuardSound
<1> SUFFICES ASSUME GuardInv, NEW p \in Cellpds, cellpd[p].up \cap Writers # {} PROVE guard = p
  BY DEF GuardSound, GuardInv, WorkersHoldGuard, ClTypeOK
<1>1. cellpd[p].at \in CellpdAts /\ cellpd[p].at \notin Starting \cup {"gone"}
  BY DEF GuardInv, GoodProcess, Process
<1>2. CASE cellpd[p].at \in Serving
  BY <1>2 DEF GuardInv, Needs
<1>3. CASE cellpd[p].at = "exit"
  BY <1>3 DEF GuardInv, GoodProcess, Needs, PastServers, PastLoops, PastAgent, Writers, Tracked
<1>4. QED BY <1>1, <1>2, <1>3 DEF CellpdAts, Starting, Serving, CleanupStages

\* A step of one process that is not dead: the others keep what they need.
LEMMA OneMoves ==
  ASSUME GuardInv,
         NEW p \in Cellpds, cellpd[p].at # "gone",
         NEW q, SetCellpd(p, q), GoodProcess(q), SawDead(q, cellpd),
         setbacks' \in 0 .. CellpdFaults,
         guard' \in {NoCellpd, p, guard},
         Needs(q) => guard' = p,
         guard' = p => q.at \notin Starting,
         \A r \in Cellpds \ {p} : Needs(cellpd[r]) => guard' = r
  PROVE  GuardInv'
<1> q \in Process BY DEF GoodProcess
<1>1. guard' \in Cellpds \cup {NoCellpd}
  BY DEF GuardInv
<1>2. cellpd' \in [Cellpds -> Process] /\ cellpd'[p] = q /\ \A r \in Cellpds \ {p} : cellpd'[r] = cellpd[r]
  BY DEF GuardInv, SetCellpd
<1>3. \A r \in Cellpds : cellpd[r].at = "gone" => cellpd'[r].at = "gone"
  BY <1>2
<1>4. ASSUME NEW r \in Cellpds PROVE GoodProcess(cellpd'[r]) /\ SawDead(cellpd'[r], cellpd')
  <2>1. CASE r = p
    BY <2>1, <1>2, <1>3 DEF SawDead
  <2>2. CASE r # p
    BY <2>2, <1>2, <1>3 DEF GuardInv, SawDead
  <2>3. QED BY <2>1, <2>2
<1>5. ASSUME NEW r \in Cellpds, Needs(cellpd'[r]) PROVE guard' = r
  BY <1>2, <1>5
<1>6. guard' # NoCellpd => cellpd'[guard'].at \notin Starting
  BY <1>2 DEF GuardInv
<1>7. QED BY <1>1, <1>2, <1>4, <1>5, <1>6 DEF GuardInv

LEMMA MishapBounded ==
  ASSUME setbacks \in 0 .. CellpdFaults, Mishap
  PROVE  setbacks' \in 0 .. CellpdFaults
BY CellpdAssumption DEF Mishap

LEMMA GoneGood == GoodProcess(Gone) /\ SawDead(Gone, cellpd) /\ ~Needs(Gone) /\ Gone.at = "gone"
BY CellpdAssumption DEF Gone, NoProcess, GoodProcess, SawDead, Needs, Process, CellpdAts, Starting,
    Serving, CleanupStages, PastServers, PastLoops, PastAgent, Tracked

\* A step that leaves the guard alone, of a process that had it or does not need it.
LEMMA Walks ==
  ASSUME GuardInv, NEW p \in Cellpds, cellpd[p].at # "gone",
         NEW q, SetCellpd(p, q), GoodProcess(q), SawDead(q, cellpd),
         setbacks' \in 0 .. CellpdFaults, guard' = guard,
         Needs(q) => Needs(cellpd[p]),
         q.at \in Starting => cellpd[p].at \in Starting
  PROVE  GuardInv'
<1>1. guard' = p => q.at \notin Starting
  BY CellpdAssumption DEF GuardInv
<1>2. \A r \in Cellpds \ {p} : Needs(cellpd[r]) => guard' = r
  BY DEF GuardInv
<1>3. Needs(q) => guard' = p
  BY DEF GuardInv
<1>4. QED BY <1>1, <1>2, <1>3, OneMoves

\* What TriesAgain makes of a process that does not have the guard.
LEMMA TryWalks ==
  ASSUME GuardInv, NEW p \in Cellpds, cellpd[p].at \in {"clear", "set"}, TriesAgain(p),
         UNCHANGED <<guard, setbacks>>
  PROVE  GuardInv'
<1> DEFINE q == [cellpd[p] EXCEPT !.at = "read", !.tries = @ + 1, !.cur = NoCellpd]
<1>1. CASE SetCellpd(p, Gone)
  BY <1>1, GoneGood, Walks DEF GuardInv, Starting
<1>2. CASE SetCellpd(p, q)
  <2>1. GoodProcess(cellpd[p]) /\ cellpd[p] \in Process
    BY DEF GuardInv, GoodProcess
  <2>2. q \in Process /\ q.at = "read" /\ q.up = cellpd[p].up /\ q.cron = cellpd[p].cron
    <3>1. "read" \in CellpdAts /\ NoCellpd \in Cellpds \cup {NoCellpd} /\ cellpd[p].tries + 1 \in Nat
      BY <2>1 DEF Process, CellpdAts
    <3>2. QED BY <2>1, <3>1 DEF Process
  <2>3. GoodProcess(q) /\ SawDead(q, cellpd) /\ ~Needs(q)
    BY <2>1, <2>2 DEF GoodProcess, SawDead, Needs, Starting, Serving, CleanupStages, PastServers,
        PastLoops, PastAgent
  <2>4. QED BY <1>2, <2>3, Walks DEF GuardInv, Starting
<1>3. QED BY <1>1, <1>2 DEF TriesAgain

\* The steps that change one process and not where it is: what else may change.
LEMMA Works ==
  ASSUME GuardInv, NEW p \in Cellpds, cellpd[p].at \notin Starting \cup {"gone"},
         NEW q \in Process, SetCellpd(p, q), q.at = cellpd[p].at, q.quiesced = cellpd[p].quiesced,
         q.up \cap Writers \subseteq cellpd[p].up, UNCHANGED <<guard, setbacks>>
  PROVE  GuardInv'
<1>1. GoodProcess(cellpd[p]) /\ setbacks \in 0 .. CellpdFaults
  BY DEF GuardInv
<1>2. GoodProcess(q) /\ SawDead(q, cellpd) /\ (Needs(q) <=> Needs(cellpd[p]))
  BY <1>1 DEF GoodProcess, SawDead, Needs, Writers, Tracked, Starting
<1>3. QED BY <1>1, <1>2, Walks

\* A step to the end of a process.
LEMMA Dies ==
  ASSUME GuardInv, NEW p \in Cellpds, cellpd[p].at # "gone", SetCellpd(p, Gone),
         setbacks' \in 0 .. CellpdFaults, guard' = guard
  PROVE  GuardInv'
BY GoneGood, Walks DEF Starting

\* A step to another stage of a process that has the guard and keeps needing it, or
\* not: what the stage has waited for is gone, or the process is not quiesced.
LEMMA Moves ==
  ASSUME GuardInv, NEW p \in Cellpds, cellpd[p].at \in Serving,
         NEW q \in Process, SetCellpd(p, q), q.at \in Serving, q.up \subseteq cellpd[p].up \cup {"ingress", "celld"},
         q.quiesced => /\ cellpd[p].quiesced
                       /\ q.at \in PastServers => cellpd[p].at \in PastServers \/ "servers" \notin q.up
                       /\ q.at \in PastLoops => cellpd[p].at \in PastLoops \/ "loops" \notin q.up
                       /\ q.at \in PastAgent => cellpd[p].at \in PastAgent \/ "agent" \notin q.up,
         setbacks' \in 0 .. CellpdFaults, guard' = guard
  PROVE  GuardInv'
<1>1. GoodProcess(cellpd[p])
  BY DEF GuardInv
<1>2. q.at \notin Starting \cup {"gone", "exit"}
  BY DEF Starting, Serving, CleanupStages
<1>3. GoodProcess(q) /\ SawDead(q, cellpd) /\ Needs(cellpd[p])
  BY <1>1, <1>2 DEF GoodProcess, SawDead, Needs, Starting
<1>4. cellpd[p].at # "gone" BY DEF Serving, CleanupStages
<1>5. QED BY <1>2, <1>3, <1>4, Walks

-----------------------------------------------------------------------------
(* The guard.                                                               *)

LEMMA LaunchSteps ==
  ASSUME GuardInv, NEW p \in Cellpds, Launched(p) \/ ReadsGuard(p)
  PROVE  GuardInv'
<1>1. /\ GoodProcess(cellpd[p]) /\ cellpd[p] \in Process
      /\ guard \in Cellpds \cup {NoCellpd} /\ setbacks \in 0 .. CellpdFaults
      /\ guard # NoCellpd => cellpd[guard].at \notin Starting
  BY DEF GuardInv, GoodProcess
<1>2. {"read", "set", "clear"} \subseteq CellpdAts /\ NoCellpd \notin Cellpds
  BY CellpdAssumption DEF CellpdAts
<1>3. ASSUME NEW at \in {"read", "set"}, Stage(p, at), cellpd[p].at \in Starting, UNCHANGED <<guard, setbacks>>
      PROVE  GuardInv'
  <2> DEFINE q == [cellpd[p] EXCEPT !.at = at]
  <2>1. q \in Process /\ q.at = at /\ q.up = cellpd[p].up /\ q.cron = cellpd[p].cron
    BY <1>1, <1>2 DEF Process
  <2>2. GoodProcess(q) /\ SawDead(q, cellpd) /\ ~Needs(q)
    BY <1>1, <1>3, <2>1 DEF GoodProcess, SawDead, Needs, Starting, Serving, CleanupStages, PastServers,
        PastLoops, PastAgent
  <2>3. QED BY <1>1, <1>3, <2>2, Walks DEF Stage, Starting
<1>4. CASE Launched(p)
  BY <1>3, <1>4 DEF Launched, Starting
<1>5. CASE ReadsGuard(p)
  <2>1. CASE Stage(p, "set")
    BY <1>3, <1>5, <2>1 DEF ReadsGuard, Starting
  <2>2. CASE SetCellpd(p, Gone)
    BY <1>1, <1>5, <2>2, Dies DEF ReadsGuard
  <2>3. CASE guard \notin {NoCellpd, p} /\ ~PidAlive(guard)
    <3> DEFINE q == [cellpd[p] EXCEPT !.at = "clear", !.cur = guard]
    <3>1. guard \in Cellpds /\ cellpd[guard].at = "gone" /\ SetCellpd(p, q) /\ cellpd[p].at = "read"
      BY <1>1, <1>5, <2>3 DEF ReadsGuard, PidAlive, Starting
    <3>2. q \in Process /\ q.at = "clear" /\ q.cur = guard /\ q.up = cellpd[p].up /\ q.cron = cellpd[p].cron
      BY <1>1, <1>2 DEF Process
    <3>3. GoodProcess(q) /\ SawDead(q, cellpd) /\ ~Needs(q)
      BY <1>1, <3>1, <3>2 DEF GoodProcess, SawDead, Needs, Starting, Serving, CleanupStages, PastServers,
          PastLoops, PastAgent
    <3>4. QED BY <1>1, <1>5, <3>1, <3>3, Walks DEF ReadsGuard, Starting
  <2>4. QED BY <1>5, <2>1, <2>2, <2>3 DEF ReadsGuard
<1>6. QED BY <1>4, <1>5

LEMMA GuardSteps ==
  ASSUME GuardInv, NEW p \in Cellpds, ClearsGuard(p) \/ SetsGuard(p)
  PROVE  GuardInv'
<1>1. /\ GoodProcess(cellpd[p]) /\ cellpd[p] \in Process /\ SawDead(cellpd[p], cellpd)
      /\ guard \in Cellpds \cup {NoCellpd} /\ setbacks \in 0 .. CellpdFaults
      /\ \A r \in Cellpds : Needs(cellpd[r]) => guard = r
  BY DEF GuardInv, GoodProcess
<1>2. {"set", "boot"} \subseteq CellpdAts /\ NoCellpd \notin Cellpds
  BY CellpdAssumption DEF CellpdAts
<1>3. CASE ClearsGuard(p) /\ guard = cellpd[p].cur
  <2> DEFINE q == [cellpd[p] EXCEPT !.at = "set", !.cur = NoCellpd]
  <2>1. cellpd[p].at = "clear" /\ SetCellpd(p, q) /\ guard' = NoCellpd /\ setbacks' = setbacks
    BY <1>3 DEF ClearsGuard
  <2>2. guard \in Cellpds /\ cellpd[guard].at = "gone"
    BY <1>1, <1>3, <2>1 DEF SawDead
  <2>3. \A r \in Cellpds : ~Needs(cellpd[r])
    BY <1>1, <2>2 DEF Needs, Serving, CleanupStages
  <2>4. q \in Process /\ q.at = "set" /\ q.up = cellpd[p].up /\ q.cron = cellpd[p].cron
    BY <1>1, <1>2 DEF Process
  <2>5. GoodProcess(q) /\ SawDead(q, cellpd) /\ ~Needs(q)
    BY <1>1, <2>1, <2>4 DEF GoodProcess, SawDead, Needs, Starting, Serving, CleanupStages, PastServers,
        PastLoops, PastAgent
  <2>6. QED BY <1>1, <1>2, <2>1, <2>3, <2>5, OneMoves
<1>4. CASE SetsGuard(p) /\ guard \in {NoCellpd, p}
  <2> DEFINE q == [cellpd[p] EXCEPT !.at = "boot", !.tries = 0]
  <2>1. cellpd[p].at = "set" /\ SetCellpd(p, q) /\ guard' = p /\ setbacks' = setbacks
    BY <1>4 DEF SetsGuard
  <2>2. \A r \in Cellpds \ {p} : ~Needs(cellpd[r])
    BY <1>1, <1>2, <1>4
  <2>3. q \in Process /\ q.at = "boot" /\ q.up = cellpd[p].up
    BY <1>1, <1>2 DEF Process
  <2>4. GoodProcess(q) /\ SawDead(q, cellpd) /\ q.at \notin Starting
    BY <1>1, <2>1, <2>3 DEF GoodProcess, SawDead, Starting, PastServers, PastLoops, PastAgent
  <2>5. QED BY <1>1, <2>1, <2>2, <2>4, OneMoves
<1>5. CASE TriesAgain(p) /\ UNCHANGED <<guard, setbacks>> /\ cellpd[p].at \in {"clear", "set"}
  BY <1>5, TryWalks
<1>6. QED BY <1>3, <1>4, <1>5 DEF ClearsGuard, SetsGuard

-----------------------------------------------------------------------------
(* The start.                                                               *)

LEMMA BootSteps ==
  ASSUME GuardInv, NEW p \in Cellpds, Boots(p) \/ BootFails(p) \/ RunReturns(p)
  PROVE  GuardInv'
<1>1. /\ GoodProcess(cellpd[p]) /\ cellpd[p] \in Process
      /\ guard \in Cellpds \cup {NoCellpd} /\ setbacks \in 0 .. CellpdFaults
      /\ Needs(cellpd[p]) => guard = p
  BY DEF GuardInv, GoodProcess
<1>2. {"run", "ingress"} \subseteq CellpdAts /\ {"run", "ingress", "boot"} \subseteq Serving
      /\ "ingress" \notin PastServers \cup PastLoops \cup PastAgent
      /\ {"boot", "run"} \cap (PastServers \cup PastLoops \cup PastAgent \cup Starting \cup {"gone", "exit"}) = {}
  BY DEF CellpdAts, Serving, CleanupStages, PastServers, PastLoops, PastAgent, Starting
<1>3. CASE Boots(p)
  <2> DEFINE c == NextUp(cellpd[p].up \ {"celld"})
             q == [cellpd[p] EXCEPT !.up = @ \cup {c},
                     !.leased = @ \/ c = "agent", !.served = @ \/ c = "servers",
                     !.at = IF c = "servers" THEN "run" ELSE @]
  <2>1. cellpd[p].at = "boot" /\ SetCellpd(p, q) /\ UNCHANGED <<guard, setbacks>>
    BY <1>3 DEF Boots
  <2>2. c \in Tracked
    BY DEF NextUp, Tracked
  <2>3. q \in Process /\ q.at \in {"boot", "run"}
    <3>1. cellpd[p].up \cup {c} \in SUBSET (Tracked \cup {"celld"})
      BY <1>1, <2>2 DEF Process
    <3>2. q.at \in {"boot", "run"}
      BY <1>1, <2>1 DEF Process
    <3>3. q \in Process
      <4> HIDE DEF c
      <4>1. QED BY <1>1, <1>2, <2>1, <3>1 DEF Process
    <3>4. QED BY <3>2, <3>3
  <2>4. GoodProcess(q) /\ SawDead(q, cellpd) /\ q.at \notin Starting /\ Needs(cellpd[p])
    BY <1>2, <2>1, <2>3 DEF GoodProcess, SawDead, Needs
  <2>5. QED BY <1>1, <2>1, <2>4, Walks
<1>4. CASE BootFails(p)
  <2> DEFINE c == NextUp(cellpd[p].up \ {"celld"})
  <2>1. PICK some \in SUBSET ({c} \cap {"ingress"}) :
          SetCellpd(p, [cellpd[p] EXCEPT !.at = "ingress", !.cancelled = @ \/ c = "agent", !.up = @ \cup some])
    BY <1>4 DEF BootFails
  <2>2. cellpd[p].at = "boot" /\ guard' = guard /\ setbacks' \in 0 .. CellpdFaults
    <3>1. UNCHANGED setbacks \/ Mishap
      BY <1>4 DEF BootFails
    <3>2. cellpd[p].at = "boot" /\ guard' = guard
      BY <1>4 DEF BootFails
    <3>3. QED BY <1>1, <3>1, <3>2, MishapBounded
  <2> DEFINE q == [cellpd[p] EXCEPT !.at = "ingress", !.cancelled = @ \/ c = "agent", !.up = @ \cup some]
  <2>3. q \in Process /\ q.at = "ingress"
    <3>1. cellpd[p].up \cup some \in SUBSET (Tracked \cup {"celld"})
      BY <1>1 DEF Process, Tracked
    <3> HIDE DEF c
    <3>2. QED BY <1>1, <1>2, <3>1 DEF Process
  <2>4. GoodProcess(q) /\ SawDead(q, cellpd) /\ q.at \notin Starting /\ Needs(cellpd[p])
    BY <1>2, <2>2, <2>3 DEF GoodProcess, SawDead, Needs, Starting
  <2>5. QED BY <1>1, <2>1, <2>2, <2>4, Walks
<1>5. CASE RunReturns(p)
  <2> DEFINE q == [cellpd[p] EXCEPT !.at = "ingress"]
  <2>1. cellpd[p].at = "run" /\ SetCellpd(p, q) /\ UNCHANGED <<guard, setbacks>>
    BY <1>5 DEF RunReturns, Stage
  <2>2. q \in Process /\ q.at = "ingress"
    BY <1>1, <1>2 DEF Process
  <2>3. GoodProcess(q) /\ SawDead(q, cellpd) /\ q.at \notin Starting /\ Needs(cellpd[p])
    BY <1>2, <2>1, <2>2 DEF GoodProcess, SawDead, Needs, Starting
  <2>4. QED BY <1>1, <2>1, <2>3, Walks
<1>6. QED BY <1>3, <1>4, <1>5

\* The workers, the signal and the deadline; a crash.
LEMMA WorkSteps ==
  ASSUME GuardInv, NEW p \in Cellpds,
         \/ OpensIngress(p) \/ RunsCelld(p) \/ CronBegins(p) \/ CronEnds(p)
         \/ StopSignal(p) \/ Deadline(p) \/ Crashes(p) \/ \E c \in Tracked : Ends(p, c)
  PROVE  GuardInv'
<1>1. /\ GoodProcess(cellpd[p]) /\ cellpd[p] \in Process /\ setbacks \in 0 .. CellpdFaults
  BY DEF GuardInv, GoodProcess
<1>2. CASE Crashes(p)
  BY <1>1, <1>2, Dies, MishapBounded DEF Crashes, PidAlive
<1>3. CASE OpensIngress(p)
  <2> DEFINE q == [cellpd[p] EXCEPT !.up = @ \cup {"ingress"}]
  <2>1. q \in Process /\ q.at = cellpd[p].at /\ q.quiesced = cellpd[p].quiesced
        /\ q.up \cap Writers \subseteq cellpd[p].up
    BY <1>1 DEF Process, Tracked, Writers
  <2>2. cellpd[p].at \notin Starting \cup {"gone"} /\ SetCellpd(p, q) /\ UNCHANGED <<guard, setbacks>>
    BY <1>1, <1>3 DEF OpensIngress, GoodProcess
  <2> HIDE DEF q
  <2>3. QED BY <2>1, <2>2, Works
<1>4. CASE RunsCelld(p)
  <2> DEFINE q == [cellpd[p] EXCEPT !.up = @ \cup {"celld"}]
  <2>1. q \in Process /\ q.at = cellpd[p].at /\ q.quiesced = cellpd[p].quiesced
        /\ q.up \cap Writers \subseteq cellpd[p].up
    BY <1>1 DEF Process, Tracked, Writers
  <2>2. cellpd[p].at \notin Starting \cup {"gone"} /\ SetCellpd(p, q) /\ UNCHANGED <<guard, setbacks>>
    BY <1>1, <1>4 DEF RunsCelld, GoodProcess
  <2> HIDE DEF q
  <2>3. QED BY <2>1, <2>2, Works
<1>5. CASE CronBegins(p)
  <2> DEFINE q == [cellpd[p] EXCEPT !.cron = TRUE]
  <2>1. q \in Process /\ q.at = cellpd[p].at /\ q.quiesced = cellpd[p].quiesced
        /\ q.up \cap Writers \subseteq cellpd[p].up
    BY <1>1 DEF Process, Tracked, Writers
  <2>2. cellpd[p].at \notin Starting \cup {"gone"} /\ SetCellpd(p, q) /\ UNCHANGED <<guard, setbacks>>
    BY <1>1, <1>5 DEF CronBegins, GoodProcess
  <2> HIDE DEF q
  <2>3. QED BY <2>1, <2>2, Works
<1>6. CASE CronEnds(p)
  <2> DEFINE q == [cellpd[p] EXCEPT !.cron = FALSE]
  <2>1. q \in Process /\ q.at = cellpd[p].at /\ q.quiesced = cellpd[p].quiesced
        /\ q.up \cap Writers \subseteq cellpd[p].up
    BY <1>1 DEF Process, Tracked, Writers
  <2>2. cellpd[p].at \notin Starting \cup {"gone"} /\ SetCellpd(p, q) /\ UNCHANGED <<guard, setbacks>>
    BY <1>1, <1>6 DEF CronEnds, GoodProcess
  <2> HIDE DEF q
  <2>3. QED BY <2>1, <2>2, Works
<1>7. CASE StopSignal(p)
  <2> DEFINE q == [cellpd[p] EXCEPT !.cancelled = TRUE]
  <2>1. q \in Process /\ q.at = cellpd[p].at /\ q.quiesced = cellpd[p].quiesced
        /\ q.up \cap Writers \subseteq cellpd[p].up
    BY <1>1 DEF Process, Tracked, Writers
  <2>2. cellpd[p].at \notin Starting \cup {"gone"} /\ SetCellpd(p, q) /\ UNCHANGED <<guard, setbacks>>
    BY <1>1, <1>7 DEF StopSignal, Starting
  <2> HIDE DEF q
  <2>3. QED BY <2>1, <2>2, Works
<1>8. CASE Deadline(p)
  <2> DEFINE q == [cellpd[p] EXCEPT !.late = TRUE]
  <2>1. q \in Process /\ q.at = cellpd[p].at /\ q.quiesced = cellpd[p].quiesced
        /\ q.up \cap Writers \subseteq cellpd[p].up
    BY <1>1 DEF Process, Tracked, Writers
  <2>2. cellpd[p].at \notin Starting \cup {"gone"} /\ SetCellpd(p, q) /\ UNCHANGED <<guard, setbacks>>
    BY <1>1, <1>8 DEF Deadline, Starting, Cleaning, CleanupStages
  <2> HIDE DEF q
  <2>3. QED BY <2>1, <2>2, Works
<1>9. ASSUME NEW c \in Tracked, Ends(p, c) PROVE GuardInv'
  <2> DEFINE q == [cellpd[p] EXCEPT !.up = @ \ {c}]
  <2>1. q \in Process /\ q.at = cellpd[p].at /\ q.quiesced = cellpd[p].quiesced
        /\ q.up \cap Writers \subseteq cellpd[p].up
    BY <1>1 DEF Process, Tracked, Writers
  <2>2. cellpd[p].at \notin Starting \cup {"gone"} /\ SetCellpd(p, q) /\ UNCHANGED <<guard, setbacks>>
    BY <1>1, <1>9 DEF Ends, GoodProcess
  <2> HIDE DEF q
  <2>3. QED BY <2>1, <2>2, Works
<1>10. QED BY <1>2, <1>3, <1>4, <1>5, <1>6, <1>7, <1>8, <1>9

-----------------------------------------------------------------------------
(* The cleanup.                                                             *)

LEMMA WaitSteps ==
  ASSUME GuardInv, NEW p \in Cellpds, NEW c \in Tracked, WaitsFor(p, c) \/ GivesUpOn(p, c)
  PROVE  GuardInv'
<1>1. /\ GoodProcess(cellpd[p]) /\ cellpd[p] \in Process /\ setbacks \in 0 .. CellpdFaults
  BY DEF GuardInv, GoodProcess
<1>2. cellpd[p].at = c /\ UNCHANGED <<guard, setbacks>> /\ c \in Serving
      /\ NextCleanup(c) \in CellpdAts \cap Serving
  BY DEF WaitsFor, GivesUpOn, Serving, CleanupStages, Tracked, NextCleanup, CellpdAts
<1>3. PICK ok \in BOOLEAN : Moved(p, c, ok) /\ (ok => c \notin cellpd[p].up)
  BY DEF WaitsFor, GivesUpOn, Ended
<1> DEFINE q == [cellpd[p] EXCEPT !.at = NextCleanup(c), !.quiesced = @ /\ ok,
                   !.cancelled = @ \/ c = "servers"]
<1>4. /\ q \in Process /\ q.at = NextCleanup(c) /\ q.up = cellpd[p].up
      /\ q.quiesced = (cellpd[p].quiesced /\ ok) /\ SetCellpd(p, q)
  BY <1>1, <1>2, <1>3 DEF Process, Moved
<1> HIDE DEF q
<1>5. /\ NextCleanup(c) \in PastServers => c \in PastServers \/ c = "servers"
      /\ NextCleanup(c) \in PastLoops => c \in PastLoops \/ c = "loops"
      /\ NextCleanup(c) \in PastAgent => c \in PastAgent \/ c = "agent"
  BY DEF NextCleanup, Tracked, PastServers, PastLoops, PastAgent
<1>6. QED BY <1>1, <1>2, <1>3, <1>4, <1>5, Moves

LEMMA LateSteps ==
  ASSUME GuardInv, NEW p \in Cellpds,
         \/ StopsAll(p) \/ StopAllFails(p) \/ ReleasesLease(p) \/ ReleaseLeaseFails(p)
  PROVE  GuardInv'
<1>1. /\ GoodProcess(cellpd[p]) /\ cellpd[p] \in Process /\ setbacks \in 0 .. CellpdFaults
  BY DEF GuardInv, GoodProcess
<1>2. /\ cellpd[p].at \in {"celld", "lease"} /\ guard' = guard
      /\ setbacks' \in 0 .. CellpdFaults
  <2>1. UNCHANGED setbacks \/ Mishap
    BY DEF StopsAll, StopAllFails, ReleasesLease, ReleaseLeaseFails
  <2>2. cellpd[p].at \in {"celld", "lease"} /\ guard' = guard
    BY DEF StopsAll, StopAllFails, ReleasesLease, ReleaseLeaseFails
  <2>3. QED BY <1>1, <2>1, <2>2, MishapBounded
<1>3. {"lease", "free"} \subseteq CellpdAts /\ {"celld", "lease", "free"} \subseteq Serving \cap PastAgent
      /\ PastAgent \subseteq PastLoops /\ PastLoops \subseteq PastServers
  BY DEF CellpdAts, Serving, CleanupStages, PastAgent, PastLoops, PastServers
<1>4. ASSUME NEW q \in Process, SetCellpd(p, q), q.at \in {"lease", "free"}, q.up \subseteq cellpd[p].up,
             q.quiesced => cellpd[p].quiesced
      PROVE  GuardInv'
  BY <1>1, <1>2, <1>3, <1>4, Moves
<1>5. CASE StopsAll(p)
  <2> DEFINE q == [cellpd[p] EXCEPT !.at = "lease", !.up = @ \ {"celld"}]
  <2>1. q \in Process /\ q.at = "lease" /\ q.up \subseteq cellpd[p].up /\ q.quiesced = cellpd[p].quiesced
    BY <1>1, <1>3 DEF Process
  <2>2. QED BY <1>4, <1>5, <2>1 DEF StopsAll
<1>6. CASE StopAllFails(p)
  <2> DEFINE q == [cellpd[p] EXCEPT !.at = "lease", !.quiesced = FALSE]
  <2>1. q \in Process /\ q.at = "lease" /\ q.up = cellpd[p].up /\ ~q.quiesced
    BY <1>1, <1>3 DEF Process
  <2>2. QED BY <1>4, <1>6, <2>1 DEF StopAllFails
<1>7. CASE ReleasesLease(p)
  <2> DEFINE q == [cellpd[p] EXCEPT !.at = "free", !.leased = @ /\ ~cellpd[p].quiesced]
  <2>1. q \in Process /\ q.at = "free" /\ q.up = cellpd[p].up /\ q.quiesced = cellpd[p].quiesced
    BY <1>1, <1>3 DEF Process
  <2>2. QED BY <1>4, <1>7, <2>1 DEF ReleasesLease
<1>8. CASE ReleaseLeaseFails(p)
  <2> DEFINE q == [cellpd[p] EXCEPT !.at = "free", !.quiesced = FALSE]
  <2>1. q \in Process /\ q.at = "free" /\ q.up = cellpd[p].up /\ ~q.quiesced
    BY <1>1, <1>3 DEF Process
  <2>2. QED BY <1>4, <1>8, <2>1 DEF ReleaseLeaseFails
<1>9. QED BY <1>5, <1>6, <1>7, <1>8

LEMMA EndSteps ==
  ASSUME GuardInv, NEW p \in Cellpds, FreesGuard(p) \/ Exits(p)
  PROVE  GuardInv'
<1>1. /\ GoodProcess(cellpd[p]) /\ cellpd[p] \in Process /\ setbacks \in 0 .. CellpdFaults
      /\ \A r \in Cellpds : Needs(cellpd[r]) => guard = r
      /\ NoCellpd \notin Cellpds
  BY CellpdAssumption DEF GuardInv, GoodProcess
<1>2. CASE FreesGuard(p)
  <2> DEFINE q == [cellpd[p] EXCEPT !.at = "exit", !.late = FALSE, !.served = FALSE]
  <2>1. /\ cellpd[p].at = "free" /\ SetCellpd(p, q) /\ setbacks' = setbacks
        /\ guard' = IF cellpd[p].quiesced /\ guard = p THEN NoCellpd ELSE guard
    BY <1>2 DEF FreesGuard
  <2>2. /\ q \in Process /\ q.at = "exit" /\ q.up = cellpd[p].up /\ q.quiesced = cellpd[p].quiesced
    BY <1>1 DEF Process, CellpdAts
  <2>3. guard = p /\ \A r \in Cellpds \ {p} : ~Needs(cellpd[r])
    BY <1>1, <2>1 DEF Needs, Serving, CleanupStages
  <2>4. GoodProcess(q) /\ SawDead(q, cellpd) /\ q.at \notin Starting /\ (Needs(q) => ~cellpd[p].quiesced)
    BY <1>1, <2>1, <2>2 DEF GoodProcess, SawDead, Needs, Starting, Serving, CleanupStages, PastServers,
        PastLoops, PastAgent
  <2>5. guard' \in {NoCellpd, p, guard} /\ (Needs(q) => guard' = p)
    BY <2>1, <2>3, <2>4
  <2> HIDE DEF q
  <2>6. QED BY <1>1, <2>1, <2>3, <2>4, <2>5, OneMoves
<1>3. CASE Exits(p)
  BY <1>1, <1>3, Dies DEF Exits
<1>4. QED BY <1>2, <1>3

\* The invariant is inductive.
LEMMA GuardStep == GuardInv /\ [ClNext]_clVars => GuardInv'
<1> SUFFICES ASSUME GuardInv, [ClNext]_clVars PROVE GuardInv'
  OBVIOUS
<1>1. CASE UNCHANGED clVars
  BY <1>1 DEF clVars, GuardInv, SawDead
<1>2. ASSUME NEW p \in Cellpds, ClStep(p) PROVE GuardInv'
  <2>1. CASE Cleans(p)
    BY <2>1, WaitSteps, LateSteps, EndSteps DEF Cleans
  <2>2. CASE ~Cleans(p)
    BY <1>2, <2>2, LaunchSteps, GuardSteps, BootSteps, WorkSteps DEF ClStep
  <2>3. QED BY <2>1, <2>2
<1>3. QED BY <1>1, <1>2 DEF ClNext

-----------------------------------------------------------------------------
\* TryAcquireControllerGuard, Run: whatever crashes, races for the guard of a dead
\* process or overruns its deadline, only the holder of the guard writes.
THEOREM SingletonWriter == ClSpec => []GuardSound
<1>1. ClSpec => []GuardInv
  BY GuardInitially, GuardStep, PTL DEF ClSpec
<1>2. QED BY <1>1, GuardSuffices, PTL

\* Only ReleasesLease, and the end of the process, take its lease.
LEMMA LeaseKept ==
  ASSUME GuardInv, NEW p \in Cellpds, ClStep(p), NEW r \in Cellpds,
         cellpd[r].leased, ~cellpd'[r].leased, cellpd'[r].at # "gone"
  PROVE  r = p /\ ReleasesLease(p)
<1>1. cellpd \in [Cellpds -> Process] /\ cellpd[p] \in Process
  BY DEF GuardInv
<1>2. ASSUME NEW q, SetCellpd(p, q), q.at = "gone" \/ (cellpd[p].leased => q.leased)
      PROVE  FALSE
  BY <1>1, <1>2 DEF SetCellpd
<1>3. ~ SetCellpd(p, Gone) /\ ~ TriesAgain(p) /\ \A at : ~ Stage(p, at)
  <2>1. ~ SetCellpd(p, Gone)
    BY <1>2, GoneGood
  <2>2. \A at : ~ Stage(p, at)
    BY <1>1, <1>2 DEF Stage, Process
  <2>3. ~ SetCellpd(p, [cellpd[p] EXCEPT !.at = "read", !.tries = @ + 1, !.cur = NoCellpd])
    BY <1>1, <1>2 DEF Process
  <2>4. QED BY <2>1, <2>2, <2>3 DEF TriesAgain
<1>4. ~Launched(p) /\ ~ReadsGuard(p)
  <2>1. ~ SetCellpd(p, [cellpd[p] EXCEPT !.at = "clear", !.cur = guard])
    BY <1>1, <1>2 DEF Process
  <2>2. QED BY <1>3, <2>1 DEF Launched, ReadsGuard
<1>5. ~ClearsGuard(p) /\ ~SetsGuard(p)
  <2>1. ~ SetCellpd(p, [cellpd[p] EXCEPT !.at = "set", !.cur = NoCellpd])
    BY <1>1, <1>2 DEF Process
  <2>2. ~ SetCellpd(p, [cellpd[p] EXCEPT !.at = "boot", !.tries = 0])
    BY <1>1, <1>2 DEF Process
  <2>3. QED BY <1>3, <2>1, <2>2 DEF ClearsGuard, SetsGuard
<1>6. ~Boots(p) /\ ~BootFails(p) /\ ~RunReturns(p)
  <2>1. ~Boots(p)
    BY <1>1, <1>2 DEF Boots, Process
  <2>2. ~BootFails(p)
    BY <1>1, <1>2 DEF BootFails, Process
  <2>3. QED BY <1>3, <2>1, <2>2 DEF RunReturns
<1>7. ~OpensIngress(p) /\ ~RunsCelld(p) /\ ~CronBegins(p) /\ ~CronEnds(p)
  BY <1>1, <1>2 DEF OpensIngress, RunsCelld, CronBegins, CronEnds, Process
<1>8. ~StopSignal(p) /\ ~Deadline(p) /\ ~Crashes(p) /\ \A c \in Tracked : ~Ends(p, c)
  BY <1>1, <1>2, <1>3 DEF StopSignal, Deadline, Crashes, Ends, Process
<1>9. \A c \in Tracked : ~WaitsFor(p, c) /\ ~GivesUpOn(p, c)
  <2>1. ASSUME NEW c, NEW ok PROVE ~ Moved(p, c, ok)
    BY <1>1, <1>2 DEF Moved, Process
  <2>2. QED BY <2>1 DEF WaitsFor, GivesUpOn
<1>10. ~StopsAll(p) /\ ~StopAllFails(p) /\ ~ReleaseLeaseFails(p) /\ ~FreesGuard(p) /\ ~Exits(p)
  BY <1>1, <1>2, <1>3 DEF StopsAll, StopAllFails, ReleaseLeaseFails, FreesGuard, Exits, Process
<1>11. ReleasesLease(p)
  BY <1>4, <1>5, <1>6, <1>7, <1>8, <1>9, <1>10 DEF ClStep, Cleans
<1>12. QED BY <1>1, <1>11 DEF ReleasesLease, SetCellpd

\* quiesceElasticParts, releaseLease: the lease of the embedded agent is given back
\* when no server, loop or agent of the process is left.
THEOREM QuietRelease == ClSpec => LeaseReleasedQuiet
<1> DEFINE Quiet == \A p \in Cellpds :
      cellpd[p].leased /\ ~cellpd'[p].leased /\ cellpd'[p].at # "gone" => cellpd[p].up \cap Writers = {}
<1>1. ASSUME GuardInv, [ClNext]_clVars PROVE [Quiet]_clVars
  <2> SUFFICES ASSUME NEW p \in Cellpds, ClStep(p), NEW r \in Cellpds,
                      cellpd[r].leased, ~cellpd'[r].leased, cellpd'[r].at # "gone"
               PROVE  cellpd[r].up \cap Writers = {}
    BY <1>1 DEF ClNext
  <2>1. r = p /\ ReleasesLease(p)
    BY <1>1, LeaseKept
  <2>2. cellpd[p] \in Process /\ GoodProcess(cellpd[p])
    BY <1>1 DEF GuardInv, GoodProcess
  <2>3. cellpd[p].quiesced /\ cellpd[p].at = "lease"
    BY <1>1, <2>1, <2>2 DEF ReleasesLease, SetCellpd, Process, GuardInv
  <2>4. QED BY <2>1, <2>2, <2>3 DEF GoodProcess, PastServers, PastLoops, PastAgent, Writers, Tracked
<1>2. ClSpec => []GuardInv
  BY GuardInitially, GuardStep, PTL DEF ClSpec
<1>3. QED BY <1>1, <1>2, PTL DEF ClSpec, LeaseReleasedQuiet
=============================================================================
