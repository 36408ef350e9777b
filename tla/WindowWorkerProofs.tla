------------------------- MODULE WindowWorkerProofs -------------------------
(***************************************************************************)
(* Theorems about WindowWorker, with any number of replicas, admins and    *)
(* playtests, any lease and sweep times, and any horizon.                  *)
(***************************************************************************)
EXTENDS WindowWorker, TLAPS

-----------------------------------------------------------------------------
(* The inductive invariant: a transition that was made and not audited yet *)
(* is in the hands of one replica or one admin.                            *)

Transitioned(row) == playtest[row.id].status \in {NextStatus(row.status), "CLOSED"}
Unaudited(row) == row \in Row /\ Transitioned(row) /\ audit[row.id][row.status] = 0

OneAuthor ==
  /\ \A r \in Replicas : IF loop[r].pc = "audit" THEN Unaudited(flipped[r])
                         ELSE flipped[r] = NoRow
  /\ \A a \in Admins : /\ admin[a].pc = "idle" \/ admin[a].row \in Row
                       /\ admin[a].pc = "audit" => Unaudited(admin[a].row)
  /\ \A q, r \in Replicas : flipped[q] = flipped[r] /\ flipped[r] \in Row => q = r
  /\ \A a, b \in Admins : admin[a].pc = "audit" /\ admin[b].pc = "audit"
                            /\ admin[a].row = admin[b].row => a = b
  /\ \A a \in Admins, r \in Replicas : admin[a].pc = "audit" => flipped[r] # admin[a].row

IInv == TypeOK /\ OneAuthor /\ AuditedAtMostOnce

LoopType == [pc : {"off", "boot", "idle", "acquire", "beat", "sweep", "advance", "audit"},
             leading : BOOLEAN, fire : BOOLEAN, since : 0..LongEnough \cup {None}]
PlaytestType == [status : Statuses, starts : Times, ends : Times, deleted : BOOLEAN]
AdminType == [pc : {"idle", "cas", "audit"}, row : Row \cup {NoRow}]

\* The types, the loops and the admins apart.
RestTyped ==
  /\ lease \in [holder : Replicas \cup {None}, left : 0..LeaseTTL]
  /\ due \in [Replicas -> SUBSET Row]
  /\ flipped \in [Replicas -> Row \cup {NoRow}]
  /\ audit \in [Playtests -> [{"DRAFT", "OPEN"} -> Nat]]

LEMMA TypesApart ==
  /\ TypeOK <=> /\ loop \in [Replicas -> LoopType] /\ playtest \in [Playtests -> PlaytestType]
                /\ admin \in [Admins -> AdminType] /\ RestTyped
  /\ TypeOK' <=> /\ loop' \in [Replicas -> LoopType] /\ playtest' \in [Playtests -> PlaytestType]
                 /\ admin' \in [Admins -> AdminType] /\ RestTyped'
  BY DEF TypeOK, LeaseTypeOK, LoopType, PlaytestType, AdminType, RestTyped

LEMMA RowFacts ==
  /\ NoRow \notin Row
  /\ \A row \in Row : row.id \in Playtests /\ row.status \in {"DRAFT", "OPEN"}
  /\ \A q, r \in Row : q.id = r.id /\ q.status = r.status => q = r
  BY DEF Row, NoRow

-----------------------------------------------------------------------------

LEMMA InitIInv == Init => IInv
<1> SUFFICES ASSUME Init PROVE IInv
  OBVIOUS
<1>1. lease \in [holder : Replicas \cup {None}, left : 0..LeaseTTL] /\ Off \in LoopType
  BY LeaseTimes DEF Init, LeaseInit, NoLease, Off, LoopType
<1>2. loop \in [Replicas -> LoopType] /\ \A r \in Replicas : loop[r].pc = "off"
  BY <1>1 DEF Init, LeaseInit, Off
<1>3. playtest \in [Playtests -> PlaytestType]
  BY DEF Init, PlaytestType, Statuses, Times
<1>4. admin \in [Admins -> AdminType] /\ \A a \in Admins : admin[a].pc = "idle"
  BY DEF Init, NoAdmin, AdminType
<1>5. RestTyped
  BY <1>1 DEF Init, RestTyped
<1>6. TypeOK
  BY <1>2, <1>3, <1>4, <1>5, TypesApart
<1>7. OneAuthor
  BY <1>2, <1>4, RowFacts DEF Init, OneAuthor
<1>8. AuditedAtMostOnce
  BY DEF Init, AuditedAtMostOnce
<1> QED
  BY <1>6, <1>7, <1>8 DEF IInv

-----------------------------------------------------------------------------
(* The loop of a replica around its sweeps.                                *)

LoopMoves(r, x) == /\ loop' = [loop EXCEPT ![r] = x] /\ x \in LoopType
                   /\ x.pc # "audit" /\ loop[r].pc # "audit"

LEMMA LeaseTyped ==
  ASSUME TypeOK, NEW r \in Replicas, LoopStep(r)
  PROVE  lease' \in [holder : Replicas \cup {None}, left : 0..LeaseTTL]
<1>1. /\ lease \in [holder : Replicas \cup {None}, left : 0..LeaseTTL]
      /\ [holder |-> r, left |-> LeaseTTL] \in [holder : Replicas \cup {None}, left : 0..LeaseTTL]
      /\ [lease EXCEPT !.left = LeaseTTL] \in [holder : Replicas \cup {None}, left : 0..LeaseTTL]
  BY TypesApart, LeaseTimes DEF RestTyped
<1> QED
  BY <1>1 DEF LoopStep, Boot, Wake, Acquired, NotAcquired, Refreshed, NotRefreshed

LEMMA LoopStepMoves ==
  ASSUME TypeOK, NEW r \in Replicas, LoopStep(r) PROVE \E x : LoopMoves(r, x)
<1>1. loop \in [Replicas -> LoopType] /\ loop[r] \in LoopType
  BY TypesApart
<1>2. CASE Boot(r)
  <2> DEFINE x == [loop[r] EXCEPT !.pc = "boot"]
  <2>1. loop' = [loop EXCEPT ![r] = x] /\ loop[r].pc # "audit"
    BY <1>1, <1>2 DEF Boot
  <2>2. x \in LoopType /\ x.pc # "audit"
    BY <1>1, LeaseTimes DEF LoopType
  <2> HIDE DEF x
  <2> QED
    BY <2>1, <2>2 DEF LoopMoves
<1>3. CASE Wake(r)
  <2> DEFINE p == IF loop[r].leading THEN "beat" ELSE "acquire"
             x == [[loop[r] EXCEPT !.fire = FALSE] EXCEPT !.pc = p]
  <2>1. loop' = [loop EXCEPT ![r] = x] /\ loop[r].pc # "audit"
    BY <1>1, <1>3 DEF Wake
  <2>2. x \in LoopType /\ x.pc # "audit"
    BY <1>1, LeaseTimes DEF LoopType
  <2> HIDE DEF x
  <2> QED
    BY <2>1, <2>2 DEF LoopMoves
<1>4. CASE Acquired(r)
  <2> DEFINE p == IF loop[r].pc = "boot" THEN "idle" ELSE "beat"
             x == [[loop[r] EXCEPT !.leading = TRUE] EXCEPT !.pc = p]
  <2>1. loop' = [loop EXCEPT ![r] = x] /\ loop[r].pc # "audit"
    BY <1>1, <1>4 DEF Acquired
  <2>2. x \in LoopType /\ x.pc # "audit"
    BY <1>1, LeaseTimes DEF LoopType
  <2> HIDE DEF x
  <2> QED
    BY <2>1, <2>2 DEF LoopMoves
<1>5. CASE NotAcquired(r) \/ NotRefreshed(r)
  <2> DEFINE x == [[loop[r] EXCEPT !.leading = FALSE] EXCEPT !.pc = "idle"]
  <2>1. loop' = [loop EXCEPT ![r] = x] /\ loop[r].pc # "audit"
    BY <1>1, <1>5 DEF NotAcquired, NotRefreshed, StopLeading
  <2>2. x \in LoopType /\ x.pc # "audit"
    BY <1>1, LeaseTimes DEF LoopType
  <2> HIDE DEF x
  <2> QED
    BY <2>1, <2>2 DEF LoopMoves
<1>6. CASE Refreshed(r) /\ SweepDue(r)
  <2> DEFINE y == [loop[r] EXCEPT !.pc = "sweep"]
             x == [y EXCEPT !.since = 0]
  <2>1. loop' = [loop EXCEPT ![r] = x] /\ loop[r].pc # "audit"
    BY <1>1, <1>6 DEF Refreshed
  <2>2. y \in LoopType /\ y.pc = "sweep"
    BY <1>1 DEF LoopType
  <2> HIDE DEF y
  <2>3. 0 \in 0..LongEnough
    BY LeaseTimes DEF LongEnough
  <2>4. x \in LoopType /\ x.pc # "audit"
    BY <2>2, <2>3 DEF LoopType
  <2> HIDE DEF x
  <2> QED
    BY <2>1, <2>4 DEF LoopMoves
<1>7. CASE Refreshed(r) /\ ~SweepDue(r)
  <2> DEFINE x == [loop[r] EXCEPT !.pc = "idle"]
  <2>1. loop' = [loop EXCEPT ![r] = x] /\ loop[r].pc # "audit"
    BY <1>1, <1>7 DEF Refreshed
  <2>2. x \in LoopType /\ x.pc # "audit"
    BY <1>1, LeaseTimes DEF LoopType
  <2> HIDE DEF x
  <2> QED
    BY <2>1, <2>2 DEF LoopMoves
<1> QED
  BY <1>2, <1>3, <1>4, <1>5, <1>6, <1>7 DEF LoopStep

\* What a step of the loops leaves to the authors of transitions.
LEMMA AuthorsKeep ==
  ASSUME IInv, TypeOK', UNCHANGED <<flipped, admin, audit>>,
         \A p \in Playtests : playtest'[p].status = playtest[p].status,
         \A r \in Replicas : loop'[r].pc = "audit" <=> loop[r].pc = "audit"
  PROVE  IInv'
<1>1. \A row \in Row : Unaudited(row) => Unaudited(row)'
  BY RowFacts DEF Unaudited, Transitioned
<1>2. OneAuthor'
  <2>1. \A r \in Replicas : IF loop'[r].pc = "audit" THEN Unaudited(flipped[r])'
                            ELSE flipped'[r] = NoRow
    BY <1>1 DEF IInv, OneAuthor, Unaudited, Transitioned
  <2>2. \A a \in Admins : /\ admin'[a].pc = "idle" \/ admin'[a].row \in Row
                          /\ admin'[a].pc = "audit" => Unaudited(admin[a].row)'
    BY <1>1 DEF IInv, OneAuthor, Unaudited, Transitioned
  <2> QED
    BY <2>1, <2>2 DEF IInv, OneAuthor
<1>3. AuditedAtMostOnce'
  BY DEF IInv, AuditedAtMostOnce
<1> QED
  BY <1>2, <1>3 DEF IInv

LEMMA LoopStepStep ==
  ASSUME IInv, NEW r \in Replicas, LoopStep(r), UNCHANGED rows PROVE IInv'
<1>1. TypeOK
  BY DEF IInv
<1>2. PICK x : LoopMoves(r, x)
  BY <1>1, LoopStepMoves
<1>3. lease' \in [holder : Replicas \cup {None}, left : 0..LeaseTTL]
  BY <1>1, LeaseTyped
<1>4. /\ loop' \in [Replicas -> LoopType]
      /\ \A q \in Replicas : loop'[q].pc = "audit" <=> loop[q].pc = "audit"
  BY <1>1, <1>2, TypesApart DEF LoopMoves
<1>5. TypeOK'
  BY <1>1, <1>3, <1>4, TypesApart DEF rows, RestTyped
<1> QED
  BY <1>4, <1>5, AuthorsKeep DEF rows

-----------------------------------------------------------------------------
(* The sweep.                                                              *)

LEMMA GotoTyped ==
  ASSUME TypeOK, NEW r \in Replicas, NEW p \in {"idle", "advance", "audit"}, Goto(r, p)
  PROVE  /\ loop' \in [Replicas -> LoopType]
         /\ loop'[r].pc = p
         /\ \A q \in Replicas \ {r} : loop'[q] = loop[q]
<1> DEFINE x == [loop[r] EXCEPT !.pc = p]
<1>1. loop \in [Replicas -> LoopType] /\ loop[r] \in LoopType
  BY TypesApart
<1>2. x \in LoopType /\ x.pc = p
  BY <1>1 DEF LoopType
<1>3. loop' = [loop EXCEPT ![r] = x]
  BY DEF Goto
<1> HIDE DEF x
<1> QED
  BY <1>1, <1>2, <1>3

LEMMA ListDueStep ==
  ASSUME IInv, NEW r \in Replicas, ListDue(r) PROVE IInv'
<1>1. TypeOK /\ Goto(r, "advance")
  BY DEF IInv, ListDue
<1>2. /\ loop' \in [Replicas -> LoopType]
      /\ \A q \in Replicas : loop'[q].pc = "audit" <=> loop[q].pc = "audit"
  BY <1>1, GotoTyped DEF ListDue
<1>3. {[id |-> p, status |-> playtest[p].status] : p \in {q \in Playtests : Due(q)}} \subseteq Row
  BY DEF Due, Row
<1>4. TypeOK'
  BY <1>1, <1>2, <1>3, TypesApart DEF ListDue, RestTyped
<1> QED
  BY <1>2, <1>4, AuthorsKeep DEF ListDue

LEMMA SweepEndsStep ==
  ASSUME IInv, NEW r \in Replicas, ListFails(r) \/ SweepDone(r) PROVE IInv'
<1>1. TypeOK /\ Goto(r, "idle")
  BY DEF IInv, ListFails, SweepDone
<1>2. /\ loop' \in [Replicas -> LoopType]
      /\ \A q \in Replicas : loop'[q].pc = "audit" <=> loop[q].pc = "audit"
  BY <1>1, GotoTyped DEF ListFails, SweepDone
<1>3. TypeOK'
  BY <1>1, <1>2, TypesApart DEF ListFails, SweepDone, RestTyped, rows
<1> QED
  BY <1>2, <1>3, AuthorsKeep DEF ListFails, SweepDone, rows

-----------------------------------------------------------------------------
(* A transition: what the compare-and-set of the status does.              *)

LEMMA StatusSet ==
  ASSUME IInv, NEW row \in Row, Matches(row), SetStatus(row), UNCHANGED audit
  PROVE  /\ playtest' \in [Playtests -> PlaytestType]
         /\ audit[row.id][row.status] = 0
         /\ Unaudited(row)'
         /\ ~Unaudited(row)
         /\ \A q \in Row : Unaudited(q) => Unaudited(q)'
         /\ AuditedAtMostOnce'
<1>1. /\ playtest \in [Playtests -> PlaytestType] /\ playtest[row.id] \in PlaytestType
      /\ row.id \in Playtests /\ row.status \in {"DRAFT", "OPEN"}
      /\ audit[row.id][row.status] \in Nat /\ AuditedAtMostOnce
  BY TypesApart, RowFacts DEF IInv, RestTyped
<1> DEFINE x == [playtest[row.id] EXCEPT !.status = NextStatus(row.status)]
<1>2. NextStatus(row.status) \in Statuses /\ NextStatus(row.status) # row.status
  BY <1>1 DEF NextStatus, Statuses
<1>3. x \in PlaytestType /\ x.status = NextStatus(row.status)
  BY <1>1, <1>2 DEF PlaytestType
<1>4. playtest' = [playtest EXCEPT ![row.id] = x]
  BY DEF SetStatus
<1> HIDE DEF x
<1>5. /\ playtest' \in [Playtests -> PlaytestType]
      /\ playtest'[row.id].status = NextStatus(row.status)
      /\ \A p \in Playtests \ {row.id} : playtest'[p] = playtest[p]
  BY <1>1, <1>3, <1>4
<1>6. playtest[row.id].status = row.status
  BY DEF Matches
<1>7. ~Transitioned(row)
  BY <1>1, <1>6 DEF Transitioned, NextStatus
<1>8. audit[row.id][row.status] = 0
  BY <1>1, <1>7 DEF AuditedAtMostOnce, Transitioned
<1>9. Unaudited(row)' /\ ~Unaudited(row)
  BY <1>5, <1>7, <1>8 DEF Unaudited, Transitioned
<1>10. \A q \in Row : Transitioned(q) => Transitioned(q)'
  <2> SUFFICES ASSUME NEW q \in Row, Transitioned(q), q.id = row.id PROVE Transitioned(q)'
    BY <1>5, RowFacts DEF Transitioned
  <2>1. q.status \in {"DRAFT", "OPEN"}
    BY RowFacts
  <2> QED
    BY <1>1, <1>5, <1>6, <2>1 DEF Transitioned, NextStatus
<1>11. \A q \in Row : Unaudited(q) => Unaudited(q)'
  BY <1>10 DEF Unaudited
<1>12. AuditedAtMostOnce'
  <2> SUFFICES ASSUME NEW p \in Playtests, NEW s \in {"DRAFT", "OPEN"}, audit[p][s] = 1
               PROVE  playtest'[p].status \in {NextStatus(s), "CLOSED"}
    BY <1>1 DEF AuditedAtMostOnce
  <2>1. [id |-> p, status |-> s] \in Row /\ playtest[p].status \in {NextStatus(s), "CLOSED"}
    BY <1>1 DEF Row, AuditedAtMostOnce
  <2> QED
    BY <1>10, <2>1 DEF Transitioned
<1> QED
  BY <1>5, <1>8, <1>9, <1>11, <1>12

LEMMA AdvanceStep ==
  ASSUME IInv, NEW r \in Replicas, NEW row \in Row, Advance(r, row) PROVE IInv'
<1>1. /\ TypeOK /\ OneAuthor /\ Goto(r, "audit") /\ Matches(row) /\ SetStatus(row)
      /\ UNCHANGED <<lease, admin, audit>> /\ loop[r].pc = "advance"
      /\ due' = [due EXCEPT ![r] = @ \ {row}] /\ flipped' = [flipped EXCEPT ![r] = row]
  BY DEF IInv, Advance
<1>2. /\ loop' \in [Replicas -> LoopType] /\ loop'[r].pc = "audit"
      /\ \A q \in Replicas \ {r} : loop'[q] = loop[q]
  BY <1>1, GotoTyped
<1>3. /\ playtest' \in [Playtests -> PlaytestType] /\ Unaudited(row)' /\ ~Unaudited(row)
      /\ \A q \in Row : Unaudited(q) => Unaudited(q)'
      /\ AuditedAtMostOnce'
  BY <1>1, StatusSet
<1>4. /\ flipped \in [Replicas -> Row \cup {NoRow}] /\ due \in [Replicas -> SUBSET Row]
      /\ flipped'[r] = row /\ \A q \in Replicas \ {r} : flipped'[q] = flipped[q]
  BY <1>1, TypesApart DEF RestTyped
<1>5. TypeOK'
  BY <1>1, <1>2, <1>3, <1>4, TypesApart DEF RestTyped
<1>6. OneAuthor'
  <2>1. \A q \in Replicas : IF loop'[q].pc = "audit" THEN Unaudited(flipped[q])'
                            ELSE flipped'[q] = NoRow
    BY <1>1, <1>2, <1>3, <1>4 DEF OneAuthor, Unaudited
  <2>2. \A a \in Admins : /\ admin[a].pc = "idle" \/ admin[a].row \in Row
                          /\ admin[a].pc = "audit" => Unaudited(admin[a].row)'
    BY <1>1, <1>3 DEF OneAuthor, Unaudited
  <2>3. \A q \in Replicas \ {r} : flipped[q] # row
    BY <1>1, <1>3, RowFacts DEF OneAuthor
  <2>4. \A a \in Admins : admin[a].pc = "audit" => admin[a].row # row
    BY <1>1, <1>3 DEF OneAuthor
  <2>5. \A p, q \in Replicas : flipped'[p] = flipped'[q] /\ flipped'[q] \in Row => p = q
    BY <1>1, <1>4, <2>3 DEF OneAuthor
  <2>6. \A a \in Admins, q \in Replicas : admin[a].pc = "audit" => flipped'[q] # admin[a].row
    BY <1>1, <1>4, <2>4 DEF OneAuthor
  <2> QED
    BY <1>1, <2>1, <2>2, <2>5, <2>6 DEF OneAuthor
<1> QED
  BY <1>3, <1>5, <1>6 DEF IInv

LEMMA SkipRowStep ==
  ASSUME IInv, NEW r \in Replicas, NEW row \in Row, SkipRow(r, row) PROVE IInv'
<1>1. /\ TypeOK /\ OneAuthor /\ UNCHANGED <<lease, loop, flipped, admin, audit>>
      /\ due' = [due EXCEPT ![r] = @ \ {row}]
      /\ playtest' = playtest \/ (Matches(row) /\ SetStatus(row))
  BY DEF IInv, SkipRow, leaseVars
<1>2. /\ playtest' \in [Playtests -> PlaytestType]
      /\ \A q \in Row : Unaudited(q) => Unaudited(q)'
      /\ AuditedAtMostOnce'
  <2>1. CASE playtest' = playtest
    BY <1>1, <2>1, TypesApart, RowFacts
       DEF IInv, Unaudited, Transitioned, AuditedAtMostOnce
  <2>2. CASE Matches(row) /\ SetStatus(row)
    BY <1>1, <2>2, StatusSet
  <2> QED
    BY <1>1, <2>1, <2>2
<1>3. TypeOK'
  BY <1>1, <1>2, TypesApart DEF RestTyped
<1>4. OneAuthor'
  <2>1. \A q \in Replicas : IF loop[q].pc = "audit" THEN Unaudited(flipped[q])'
                            ELSE flipped[q] = NoRow
    BY <1>1, <1>2 DEF OneAuthor, Unaudited
  <2>2. \A a \in Admins : /\ admin[a].pc = "idle" \/ admin[a].row \in Row
                          /\ admin[a].pc = "audit" => Unaudited(admin[a].row)'
    BY <1>1, <1>2 DEF OneAuthor, Unaudited
  <2> QED
    BY <1>1, <2>1, <2>2 DEF OneAuthor
<1> QED
  BY <1>2, <1>3, <1>4 DEF IInv

LEMMA AppendStep ==
  ASSUME TypeOK, AuditedAtMostOnce, NEW row \in Row, Unaudited(row), UNCHANGED playtest,
         AppendTransition(row) \/ audit' = audit
  PROVE  /\ audit' \in [Playtests -> [{"DRAFT", "OPEN"} -> Nat]]
         /\ \A q \in Row \ {row} : audit'[q.id][q.status] = audit[q.id][q.status]
         /\ AuditedAtMostOnce'
<1>1. /\ audit \in [Playtests -> [{"DRAFT", "OPEN"} -> Nat]]
      /\ row.id \in Playtests /\ row.status \in {"DRAFT", "OPEN"}
      /\ audit[row.id][row.status] = 0 /\ Transitioned(row)
  BY TypesApart, RowFacts DEF RestTyped, Unaudited
<1>2. CASE audit' = audit
  BY <1>1, <1>2 DEF AuditedAtMostOnce
<1>3. CASE AppendTransition(row)
  <2> DEFINE x == [audit[row.id] EXCEPT ![row.status] = 1]
  <2>1. audit[row.id] \in [{"DRAFT", "OPEN"} -> Nat]
    BY <1>1
  <2>2. /\ x \in [{"DRAFT", "OPEN"} -> Nat] /\ x[row.status] = 1
        /\ \A s \in {"DRAFT", "OPEN"} \ {row.status} : x[s] = audit[row.id][s]
    BY <1>1, <2>1
  <2>3. audit' = [audit EXCEPT ![row.id] = x]
    BY <1>1, <1>3 DEF AppendTransition
  <2> HIDE DEF x
  <2>4. /\ audit' \in [Playtests -> [{"DRAFT", "OPEN"} -> Nat]]
        /\ audit'[row.id] = x
        /\ \A p \in Playtests \ {row.id} : audit'[p] = audit[p]
    BY <1>1, <2>2, <2>3
  <2>5. \A q \in Row \ {row} : audit'[q.id][q.status] = audit[q.id][q.status]
    BY <2>2, <2>4, RowFacts
  <2>6. AuditedAtMostOnce'
    <3> SUFFICES ASSUME NEW p \in Playtests, NEW s \in {"DRAFT", "OPEN"}
                 PROVE  /\ audit'[p][s] <= 1
                        /\ audit'[p][s] = 1 => playtest[p].status \in {NextStatus(s), "CLOSED"}
      BY DEF AuditedAtMostOnce
    <3>1. CASE p = row.id /\ s = row.status
      BY <1>1, <2>2, <2>4, <3>1 DEF Transitioned
    <3>2. CASE ~(p = row.id /\ s = row.status)
      BY <1>1, <2>2, <2>4, <3>2 DEF AuditedAtMostOnce
    <3> QED
      BY <3>1, <3>2
  <2> QED
    BY <2>4, <2>5, <2>6
<1> QED
  BY <1>2, <1>3

LEMMA AuditFlipStep ==
  ASSUME IInv, NEW r \in Replicas, AuditFlip(r) PROVE IInv'
<1> DEFINE row == flipped[r]
<1>1. /\ TypeOK /\ OneAuthor /\ AuditedAtMostOnce
      /\ Goto(r, "advance") /\ UNCHANGED <<lease, playtest, due, admin>>
      /\ loop[r].pc = "audit" /\ flipped' = [flipped EXCEPT ![r] = NoRow]
      /\ AppendTransition(row) \/ audit' = audit
  BY DEF IInv, AuditFlip
<1>2. /\ loop' \in [Replicas -> LoopType] /\ loop'[r].pc = "advance"
      /\ \A q \in Replicas \ {r} : loop'[q] = loop[q]
  BY <1>1, GotoTyped
<1>3. Unaudited(row) /\ row \in Row
  BY <1>1 DEF OneAuthor, Unaudited
<1>4. /\ audit' \in [Playtests -> [{"DRAFT", "OPEN"} -> Nat]]
      /\ \A q \in Row \ {row} : audit'[q.id][q.status] = audit[q.id][q.status]
      /\ AuditedAtMostOnce'
  BY <1>1, <1>3, AppendStep
<1>5. /\ flipped \in [Replicas -> Row \cup {NoRow}]
      /\ flipped'[r] = NoRow /\ \A q \in Replicas \ {r} : flipped'[q] = flipped[q]
      /\ flipped' \in [Replicas -> Row \cup {NoRow}]
  BY <1>1, TypesApart DEF RestTyped
<1>6. TypeOK'
  BY <1>1, <1>2, <1>4, <1>5, TypesApart DEF RestTyped
<1>7. \A q \in Row \ {row} : Unaudited(q) => Unaudited(q)'
  BY <1>1, <1>4 DEF Unaudited, Transitioned
<1>8. OneAuthor'
  <2>1. \A q \in Replicas \ {r} : loop[q].pc = "audit" => flipped[q] \in Row \ {row}
    BY <1>1, <1>3 DEF OneAuthor, Unaudited
  <2>2. \A q \in Replicas : IF loop'[q].pc = "audit" THEN Unaudited(flipped[q])'
                            ELSE flipped'[q] = NoRow
    <3> SUFFICES ASSUME NEW q \in Replicas
                 PROVE  IF loop'[q].pc = "audit" THEN Unaudited(flipped[q])'
                        ELSE flipped'[q] = NoRow
      OBVIOUS
    <3>1. CASE q = r
      BY <1>2, <1>5, <3>1
    <3>2. CASE q # r /\ loop[q].pc = "audit"
      <4>1. Unaudited(flipped[q]) /\ flipped[q] \in Row \ {row}
        BY <1>1, <2>1, <3>2 DEF OneAuthor
      <4>2. flipped'[q] = flipped[q] /\ loop'[q] = loop[q]
        BY <1>2, <1>5, <3>2
      <4> QED
        BY <1>1, <1>4, <3>2, <4>1, <4>2 DEF Unaudited, Transitioned
    <3>3. CASE q # r /\ loop[q].pc # "audit"
      BY <1>1, <1>2, <1>5, <3>3 DEF OneAuthor
    <3> QED
      BY <3>1, <3>2, <3>3
  <2>3. \A a \in Admins : /\ admin[a].pc = "idle" \/ admin[a].row \in Row
                          /\ admin[a].pc = "audit" => Unaudited(admin[a].row)'
    <3>1. \A a \in Admins : admin[a].pc = "audit" => admin[a].row \in Row \ {row}
      BY <1>1 DEF OneAuthor, Unaudited
    <3> QED
      BY <1>1, <1>7, <3>1 DEF OneAuthor
  <2>4. \A p, q \in Replicas : flipped'[p] = flipped'[q] /\ flipped'[q] \in Row => p = q
    BY <1>1, <1>5, RowFacts DEF OneAuthor
  <2>5. \A a \in Admins, q \in Replicas : admin[a].pc = "audit" => flipped'[q] # admin[a].row
    BY <1>1, <1>5, RowFacts DEF OneAuthor, Unaudited
  <2> QED
    BY <1>1, <2>2, <2>3, <2>4, <2>5 DEF OneAuthor
<1> QED
  BY <1>4, <1>6, <1>8 DEF IInv

LEMMA DieStep ==
  ASSUME IInv, NEW r \in Replicas, Die(r) PROVE IInv'
<1>1. /\ TypeOK /\ OneAuthor /\ AuditedAtMostOnce /\ Stop(r)
      /\ due' = [due EXCEPT ![r] = {}] /\ flipped' = [flipped EXCEPT ![r] = NoRow]
      /\ UNCHANGED <<playtest, admin, audit>>
  BY DEF IInv, Die
<1>2. /\ lease' \in [holder : Replicas \cup {None}, left : 0..LeaseTTL]
      /\ Off \in LoopType /\ Off.pc = "off" /\ loop' = [loop EXCEPT ![r] = Off]
  BY <1>1, TypesApart, LeaseTimes DEF Stop, RestTyped, NoLease, Off, LoopType
<1>3. /\ loop' \in [Replicas -> LoopType] /\ loop'[r].pc = "off"
      /\ \A q \in Replicas \ {r} : loop'[q] = loop[q]
  BY <1>1, <1>2, TypesApart
<1>4. /\ flipped'[r] = NoRow /\ \A q \in Replicas \ {r} : flipped'[q] = flipped[q]
      /\ flipped' \in [Replicas -> Row \cup {NoRow}] /\ due' \in [Replicas -> SUBSET Row]
  BY <1>1, TypesApart DEF RestTyped
<1>5. TypeOK'
  BY <1>1, <1>2, <1>3, <1>4, TypesApart DEF RestTyped
<1>6. OneAuthor'
  <2>1. \A q \in Replicas : IF loop'[q].pc = "audit" THEN Unaudited(flipped[q])'
                            ELSE flipped'[q] = NoRow
    BY <1>1, <1>3, <1>4 DEF OneAuthor, Unaudited, Transitioned
  <2>2. \A a \in Admins : /\ admin'[a].pc = "idle" \/ admin'[a].row \in Row
                          /\ admin'[a].pc = "audit" => Unaudited(admin[a].row)'
    BY <1>1 DEF OneAuthor, Unaudited, Transitioned
  <2>3. \A p, q \in Replicas : flipped'[p] = flipped'[q] /\ flipped'[q] \in Row => p = q
    BY <1>1, <1>4, RowFacts DEF OneAuthor
  <2>4. \A a \in Admins, q \in Replicas : admin'[a].pc = "audit" => flipped'[q] # admin'[a].row
    BY <1>1, <1>4, RowFacts DEF OneAuthor, Unaudited
  <2> QED
    BY <1>1, <2>1, <2>2, <2>3, <2>4 DEF OneAuthor
<1>7. AuditedAtMostOnce'
  BY <1>1 DEF AuditedAtMostOnce
<1> QED
  BY <1>5, <1>6, <1>7 DEF IInv

-----------------------------------------------------------------------------
(* Admins.                                                                 *)

\* A call that takes a row to compare, or lets go of it, is the author of nothing.
LEMMA AdminMoves ==
  ASSUME IInv, TypeOK', UNCHANGED <<leaseVars, playtest, flipped, audit>>, NEW a \in Admins,
         admin'[a].pc # "audit", admin'[a].pc = "idle" \/ admin'[a].row \in Row,
         \A b \in Admins \ {a} : admin'[b] = admin[b]
  PROVE  IInv'
<1>1. \A row \in Row : Unaudited(row)' <=> Unaudited(row)
  BY DEF Unaudited, Transitioned
<1>2. \A b \in Admins : admin'[b].pc = "audit" => admin'[b] = admin[b] /\ b # a
  OBVIOUS
<1>3. OneAuthor'
  <2>1. \A r \in Replicas : IF loop'[r].pc = "audit" THEN Unaudited(flipped[r])'
                            ELSE flipped'[r] = NoRow
    BY DEF IInv, OneAuthor, Unaudited, Transitioned, leaseVars
  <2>2. \A b \in Admins : /\ admin'[b].pc = "idle" \/ admin'[b].row \in Row
                          /\ admin'[b].pc = "audit" => Unaudited(admin[b].row)'
    BY <1>2 DEF IInv, OneAuthor, Unaudited, Transitioned
  <2> QED
    BY <1>2, <2>1, <2>2 DEF IInv, OneAuthor
<1>4. AuditedAtMostOnce'
  BY DEF IInv, AuditedAtMostOnce
<1> QED
  BY <1>3, <1>4 DEF IInv

LEMMA ReadForTransitionStep ==
  ASSUME IInv, NEW a \in Admins, NEW p \in Playtests, ReadForTransition(a, p) PROVE IInv'
<1> DEFINE x == [pc |-> "cas", row |-> [id |-> p, status |-> playtest[p].status]]
<1>1. /\ TypeOK /\ OneAuthor /\ AuditedAtMostOnce /\ admin' = [admin EXCEPT ![a] = x]
      /\ admin[a] = NoAdmin /\ UNCHANGED <<leaseVars, playtest, due, flipped, audit>>
  BY DEF IInv, ReadForTransition
<1>2. playtest[p].status \in {"DRAFT", "OPEN"}
  BY <1>1, TypesApart DEF PlaytestType, Statuses, ReadForTransition
<1>3. x \in AdminType /\ x.pc = "cas" /\ x.row \in Row
  BY <1>2 DEF AdminType, Row
<1> HIDE DEF x
<1>4. admin \in [Admins -> AdminType]
  BY <1>1, TypesApart
<1>5. /\ admin' \in [Admins -> AdminType] /\ admin'[a] = x
      /\ \A b \in Admins \ {a} : admin'[b] = admin[b]
  BY <1>1, <1>3, <1>4
<1>6. TypeOK'
  BY <1>1, <1>5, TypesApart DEF RestTyped, leaseVars
<1> QED
  BY <1>1, <1>3, <1>5, <1>6, AdminMoves

LEMMA AdminAbortsStep ==
  ASSUME IInv, NEW a \in Admins, AdminAborts(a) PROVE IInv'
<1>1. /\ TypeOK /\ admin' = [admin EXCEPT ![a] = NoAdmin]
      /\ UNCHANGED <<leaseVars, playtest, due, flipped, audit>>
  BY DEF IInv, AdminAborts
<1>2. NoAdmin \in AdminType /\ NoAdmin.pc = "idle"
  BY DEF NoAdmin, AdminType
<1>3. admin \in [Admins -> AdminType]
  BY <1>1, TypesApart
<1>4. /\ admin' \in [Admins -> AdminType] /\ admin'[a] = NoAdmin
      /\ \A b \in Admins \ {a} : admin'[b] = admin[b]
  BY <1>1, <1>2, <1>3
<1>5. TypeOK'
  BY <1>1, <1>4, TypesApart DEF RestTyped, leaseVars
<1>6. admin'[a].pc # "audit" /\ (admin'[a].pc = "idle" \/ admin'[a].row \in Row)
  BY <1>2, <1>4
<1>7. UNCHANGED <<leaseVars, playtest, flipped, audit>>
  BY <1>1
<1>8. \A b \in Admins \ {a} : admin'[b] = admin[b]
  BY <1>4
<1> QED
  BY <1>5, <1>6, <1>7, <1>8, AdminMoves

LEMMA AdminTransitionStep ==
  ASSUME IInv, NEW a \in Admins, AdminTransition(a) PROVE IInv'
<1>0. PICK row \in Row : row = admin[a].row
  BY DEF IInv, OneAuthor, AdminTransition
<1> DEFINE x == [admin[a] EXCEPT !.pc = "audit"]
<1>1. /\ TypeOK /\ OneAuthor /\ admin[a].pc = "cas" /\ Matches(row) /\ SetStatus(row)
      /\ admin' = [admin EXCEPT ![a] = x]
      /\ UNCHANGED <<lease, loop, due, flipped, audit>>
  BY <1>0 DEF IInv, AdminTransition, leaseVars
<1>2. admin \in [Admins -> AdminType] /\ admin[a] \in AdminType
  BY <1>1, TypesApart
<1>3. x \in AdminType /\ x.pc = "audit" /\ x.row = row
  BY <1>0, <1>2 DEF AdminType
<1> HIDE DEF x
<1>4. /\ admin' \in [Admins -> AdminType] /\ admin'[a] = x
      /\ \A b \in Admins \ {a} : admin'[b] = admin[b]
  BY <1>1, <1>2, <1>3
<1>5. /\ playtest' \in [Playtests -> PlaytestType] /\ Unaudited(row)' /\ ~Unaudited(row)
      /\ \A q \in Row : Unaudited(q) => Unaudited(q)'
      /\ AuditedAtMostOnce'
  BY <1>1, StatusSet
<1>6. TypeOK'
  BY <1>1, <1>4, <1>5, TypesApart DEF RestTyped
<1>7. OneAuthor'
  <2>1. \A q \in Replicas : IF loop[q].pc = "audit" THEN Unaudited(flipped[q])'
                            ELSE flipped[q] = NoRow
    BY <1>1, <1>5 DEF OneAuthor, Unaudited
  <2>2. \A b \in Admins : /\ admin'[b].pc = "idle" \/ admin'[b].row \in Row
                          /\ admin'[b].pc = "audit" => Unaudited(admin[b].row)'
    <3> SUFFICES ASSUME NEW b \in Admins
                 PROVE  /\ admin'[b].pc = "idle" \/ admin'[b].row \in Row
                        /\ admin'[b].pc = "audit" => Unaudited(admin[b].row)'
      OBVIOUS
    <3>1. CASE b = a
      BY <1>3, <1>4, <1>5, <3>1 DEF Unaudited, Transitioned
    <3>2. CASE b # a
      <4>1. admin'[b] = admin[b]
        BY <1>4, <3>2
      <4> QED
        BY <1>1, <1>5, <4>1 DEF OneAuthor, Unaudited, Transitioned
    <3> QED
      BY <3>1, <3>2
  <2>3. \A b \in Admins : admin[b].pc = "audit" => admin[b].row # row
    BY <1>1, <1>5 DEF OneAuthor
  <2>4. \A b, c \in Admins : admin'[b].pc = "audit" /\ admin'[c].pc = "audit"
                             /\ admin'[b].row = admin'[c].row => b = c
    BY <1>1, <1>3, <1>4, <2>3 DEF OneAuthor
  <2>5. \A q \in Replicas : flipped[q] # row
    BY <1>1, <1>5, RowFacts DEF OneAuthor
  <2>6. \A b \in Admins, q \in Replicas : admin'[b].pc = "audit" => flipped[q] # admin'[b].row
    BY <1>1, <1>3, <1>4, <2>5 DEF OneAuthor
  <2> QED
    BY <1>1, <2>1, <2>2, <2>4, <2>6 DEF OneAuthor
<1> QED
  BY <1>5, <1>6, <1>7 DEF IInv

LEMMA AdminAuditStep ==
  ASSUME IInv, NEW a \in Admins, AdminAudit(a) PROVE IInv'
<1> DEFINE row == admin[a].row
<1>1. /\ TypeOK /\ OneAuthor /\ AuditedAtMostOnce
      /\ admin[a].pc = "audit" /\ AppendTransition(row)
      /\ admin' = [admin EXCEPT ![a] = NoAdmin]
      /\ UNCHANGED <<lease, loop, playtest, due, flipped>>
  BY DEF IInv, AdminAudit, leaseVars
<1>2. row \in Row /\ Unaudited(row)
  BY <1>1 DEF OneAuthor, Unaudited
<1>3. NoAdmin \in AdminType /\ NoAdmin.pc = "idle" /\ admin \in [Admins -> AdminType]
  BY <1>1, TypesApart DEF NoAdmin, AdminType
<1>4. /\ admin' \in [Admins -> AdminType] /\ admin'[a].pc = "idle"
      /\ \A b \in Admins \ {a} : admin'[b] = admin[b]
  BY <1>1, <1>3
<1>5. /\ audit' \in [Playtests -> [{"DRAFT", "OPEN"} -> Nat]]
      /\ \A q \in Row \ {row} : audit'[q.id][q.status] = audit[q.id][q.status]
      /\ AuditedAtMostOnce'
  BY <1>1, <1>2, AppendStep
<1>6. TypeOK'
  BY <1>1, <1>4, <1>5, TypesApart DEF RestTyped
<1>7. \A q \in Row \ {row} : Unaudited(q) => Unaudited(q)'
  BY <1>1, <1>5 DEF Unaudited, Transitioned
<1>8. OneAuthor'
  <2>1. \A q \in Replicas : flipped[q] # row
    BY <1>1 DEF OneAuthor
  <2>2. \A q \in Replicas : IF loop[q].pc = "audit" THEN Unaudited(flipped[q])'
                            ELSE flipped[q] = NoRow
    <3>1. \A q \in Replicas : loop[q].pc = "audit" => flipped[q] \in Row \ {row}
      BY <1>1, <2>1 DEF OneAuthor, Unaudited
    <3> QED
      BY <1>1, <1>7, <3>1 DEF OneAuthor, Unaudited
  <2>3. \A b \in Admins : admin'[b].pc = "audit" => b # a
    BY <1>4
  <2>4. \A b \in Admins \ {a} : admin[b].pc = "audit" => admin[b].row \in Row \ {row}
    BY <1>1 DEF OneAuthor, Unaudited
  <2>5. \A b \in Admins : /\ admin'[b].pc = "idle" \/ admin'[b].row \in Row
                          /\ admin'[b].pc = "audit" => Unaudited(admin[b].row)'
    <3> SUFFICES ASSUME NEW b \in Admins
                 PROVE  /\ admin'[b].pc = "idle" \/ admin'[b].row \in Row
                        /\ admin'[b].pc = "audit" => Unaudited(admin[b].row)'
      OBVIOUS
    <3>1. CASE b = a
      BY <1>4, <3>1
    <3>2. CASE b # a
      <4>1. admin'[b] = admin[b]
        BY <1>4, <3>2
      <4>2. admin[b].pc = "audit" => Unaudited(admin[b].row)'
        BY <1>1, <1>5, <2>4, <3>2, <4>1 DEF OneAuthor, Unaudited, Transitioned
      <4> QED
        BY <1>1, <4>1, <4>2 DEF OneAuthor
    <3> QED
      BY <3>1, <3>2
  <2>6. \A b, c \in Admins : admin'[b].pc = "audit" /\ admin'[c].pc = "audit"
                             /\ admin'[b].row = admin'[c].row => b = c
    BY <1>1, <1>4, <2>3 DEF OneAuthor
  <2>7. \A b \in Admins, q \in Replicas : admin'[b].pc = "audit" => flipped[q] # admin'[b].row
    BY <1>1, <1>4, <2>3 DEF OneAuthor
  <2> QED
    BY <1>1, <2>2, <2>5, <2>6, <2>7 DEF OneAuthor
<1> QED
  BY <1>5, <1>6, <1>8 DEF IInv

LEMMA EditWindowStep ==
  ASSUME IInv, NEW p \in Playtests, NEW s \in Times, NEW e \in Times, EditWindow(p, s, e)
  PROVE  IInv'
<1> DEFINE y == [playtest[p] EXCEPT !.starts = s]
           x == [y EXCEPT !.ends = e]
<1>1. /\ TypeOK /\ playtest' = [playtest EXCEPT ![p] = x]
      /\ UNCHANGED <<lease, loop, due, flipped, admin, audit>>
      /\ playtest \in [Playtests -> PlaytestType] /\ playtest[p] \in PlaytestType
  BY TypesApart DEF IInv, EditWindow, leaseVars
<1>2. y \in PlaytestType /\ y.status = playtest[p].status
  BY <1>1 DEF PlaytestType
<1> HIDE DEF y
<1>3. x \in PlaytestType /\ x.status = playtest[p].status
  BY <1>2 DEF PlaytestType
<1> HIDE DEF x
<1>4. /\ playtest' \in [Playtests -> PlaytestType]
      /\ \A q \in Playtests : playtest'[q].status = playtest[q].status
  BY <1>1, <1>3
<1>5. TypeOK'
  BY <1>1, <1>4, TypesApart DEF RestTyped
<1> QED
  BY <1>1, <1>4, <1>5, AuthorsKeep

LEMMA SoftDeleteStep ==
  ASSUME IInv, NEW p \in Playtests, SoftDelete(p) PROVE IInv'
<1> DEFINE x == [playtest[p] EXCEPT !.deleted = TRUE]
<1>1. /\ TypeOK /\ playtest' = [playtest EXCEPT ![p] = x]
      /\ UNCHANGED <<lease, loop, due, flipped, admin, audit>>
      /\ playtest \in [Playtests -> PlaytestType] /\ playtest[p] \in PlaytestType
  BY TypesApart DEF IInv, SoftDelete, leaseVars
<1>2. x \in PlaytestType /\ x.status = playtest[p].status
  BY <1>1 DEF PlaytestType
<1> HIDE DEF x
<1>3. /\ playtest' \in [Playtests -> PlaytestType]
      /\ \A q \in Playtests : playtest'[q].status = playtest[q].status
  BY <1>1, <1>2
<1>4. TypeOK'
  BY <1>1, <1>3, TypesApart DEF RestTyped
<1> QED
  BY <1>1, <1>3, <1>4, AuthorsKeep

-----------------------------------------------------------------------------
(* Time.                                                                   *)

LEMMA TickStep ==
  ASSUME IInv, Tick PROVE IInv'
<1>1. /\ TypeOK /\ Elapse /\ UNCHANGED <<due, flipped, admin, audit>>
      /\ playtest' = [p \in Playtests |->
            [playtest[p] EXCEPT !.starts = Sooner(@), !.ends = Sooner(@)]]
      /\ playtest \in [Playtests -> PlaytestType] /\ loop \in [Replicas -> LoopType]
  BY TypesApart DEF IInv, Tick
<1>2. lease' \in [holder : Replicas \cup {None}, left : 0..LeaseTTL]
  <2>1. lease \in [holder : Replicas \cup {None}, left : 0..LeaseTTL]
    BY <1>1, TypesApart DEF RestTyped
  <2>2. lease.left > 0 => lease.left - 1 \in 0..LeaseTTL
    BY <2>1, LeaseTimes
  <2> DEFINE t == lease.left - 1
  <2>3. lease' = IF lease.left > 0 THEN [lease EXCEPT !.left = t] ELSE lease
    BY <1>1 DEF Elapse
  <2> HIDE DEF t
  <2>4. t \in 0..LeaseTTL =>
          [lease EXCEPT !.left = t] \in [holder : Replicas \cup {None}, left : 0..LeaseTTL]
    BY <2>1
  <2> QED
    BY <2>1, <2>2, <2>3, <2>4 DEF t
<1>3. \A r \in Replicas : loop'[r] \in LoopType /\ loop'[r].pc = loop[r].pc
  <2> SUFFICES ASSUME NEW r \in Replicas PROVE loop'[r] \in LoopType /\ loop'[r].pc = loop[r].pc
    OBVIOUS
  <2>1. loop[r] \in LoopType
    BY <1>1
  <2> DEFINE t == IF loop[r].since = None \/ loop[r].since = LongEnough
                  THEN loop[r].since ELSE loop[r].since + 1
             y == [loop[r] EXCEPT !.fire = TRUE]
             x == [y EXCEPT !.since = t]
  <2>2. t \in 0..LongEnough \cup {None}
    BY <2>1, LeaseTimes DEF LoopType, LongEnough
  <2>3. loop'[r] = IF loop[r].pc = "off" THEN loop[r] ELSE x
    BY <1>1 DEF Elapse
  <2> HIDE DEF t
  <2>4. y \in LoopType /\ y.pc = loop[r].pc
    BY <2>1 DEF LoopType
  <2> HIDE DEF y
  <2>5. x \in LoopType /\ x.pc = loop[r].pc
    BY <2>2, <2>4 DEF LoopType
  <2> HIDE DEF x
  <2> QED
    BY <2>1, <2>3, <2>5
<1>4. loop' \in [Replicas -> LoopType]
  BY <1>1, <1>3 DEF Elapse
<1>5. \A p \in Playtests : playtest'[p] \in PlaytestType
                           /\ playtest'[p].status = playtest[p].status
  <2> SUFFICES ASSUME NEW p \in Playtests
               PROVE  playtest'[p] \in PlaytestType /\ playtest'[p].status = playtest[p].status
    OBVIOUS
  <2> DEFINE y == [playtest[p] EXCEPT !.starts = Sooner(playtest[p].starts)]
             x == [y EXCEPT !.ends = Sooner(playtest[p].ends)]
  <2>1. playtest[p] \in PlaytestType /\ playtest'[p] = x
    BY <1>1
  <2>2. \A t \in Times : Sooner(t) \in Times
    BY HorizonIsNat DEF Times, Sooner
  <2>3. Sooner(playtest[p].starts) \in Times /\ Sooner(playtest[p].ends) \in Times
    BY <2>1, <2>2 DEF PlaytestType
  <2>4. y \in PlaytestType /\ y.status = playtest[p].status
    BY <2>1, <2>3 DEF PlaytestType
  <2> HIDE DEF y
  <2>5. x \in PlaytestType /\ x.status = playtest[p].status
    BY <2>3, <2>4 DEF PlaytestType
  <2> HIDE DEF x
  <2> QED
    BY <2>1, <2>5
<1>6. playtest' \in [Playtests -> PlaytestType]
  BY <1>1, <1>5
<1>7. TypeOK'
  BY <1>1, <1>2, <1>4, <1>6, TypesApart DEF RestTyped
<1> QED
  BY <1>1, <1>3, <1>5, <1>7, AuthorsKeep

-----------------------------------------------------------------------------
(* The theorems.                                                           *)

LEMMA NextIInv == IInv /\ [Next]_vars => IInv'
<1> SUFFICES ASSUME IInv, [Next]_vars PROVE IInv'
  OBVIOUS
<1>1. CASE \E r \in Replicas : LoopStep(r) /\ UNCHANGED rows
  BY <1>1, LoopStepStep
<1>2. CASE \E r \in Replicas : Sweep(r)
  BY <1>2, ListDueStep, SweepEndsStep, AuditFlipStep, AdvanceStep, SkipRowStep DEF Sweep
<1>3. CASE \E r \in Replicas : Die(r)
  BY <1>3, DieStep
<1>4. CASE Admin
  BY <1>4, ReadForTransitionStep, AdminTransitionStep, AdminAuditStep, AdminAbortsStep,
     SoftDeleteStep, EditWindowStep DEF Admin
<1>5. CASE Tick
  BY <1>5, TickStep
<1>6. CASE UNCHANGED vars
  <2>1. UNCHANGED <<lease, loop, playtest, due, flipped, admin, audit>>
    BY <1>6 DEF vars, leaseVars, rows
  <2>2. TypeOK'
    BY <2>1, TypesApart DEF IInv, RestTyped
  <2> QED
    BY <2>1, <2>2, AuthorsKeep
<1> QED
  BY <1>1, <1>2, <1>3, <1>4, <1>5, <1>6 DEF Next

\* The invariant holds in every state the program reaches.
THEOREM SpecIInv == Spec => []IInv
  BY InitIInv, NextIInv, PTL DEF Spec

\* Every variable keeps its type: a sweep's list holds only rows in DRAFT or OPEN, no
\* lease outlives its TTL.
THEOREM TypeCorrect == Spec => []TypeOK
<1>1. IInv => TypeOK
  BY DEF IInv
<1> QED
  BY <1>1, SpecIInv, PTL

\* However many replicas believe they lead, and admins race them, a transition of a
\* playtest has at most one audit row, never before the transition.
THEOREM AuditedOnce == Spec => []AuditedAtMostOnce
<1>1. IInv => AuditedAtMostOnce
  BY DEF IInv
<1> QED
  BY <1>1, SpecIInv, PTL

-----------------------------------------------------------------------------
(* The lease.                                                              *)

\* A step of a loop touches no other loop, begins a sweep only with a fresh lease, and
\* takes the lease only from nobody, from itself, or when it has expired.
LEMMA LoopStepLease ==
  ASSUME TypeOK, NEW r \in Replicas, LoopStep(r)
  PROVE  /\ \A q \in Replicas \ {r} : loop'[q] = loop[q]
         /\ Sweeping(r)' => /\ loop'[r].since = 0
                            /\ lease'.holder = r /\ lease'.left = LeaseTTL
         /\ \/ lease' = lease
            \/ lease.left = 0
            \/ lease.holder = r
<1>1. /\ loop \in [Replicas -> LoopType] /\ loop[r] \in LoopType
      /\ lease \in [holder : Replicas \cup {None}, left : 0..LeaseTTL]
  BY TypesApart DEF RestTyped
<1>2. \A q \in Replicas \ {r} : loop'[q] = loop[q]
  BY <1>1, LoopStepMoves DEF LoopMoves
<1>3. CASE Refreshed(r)
  <2>1. lease' = [lease EXCEPT !.left = LeaseTTL] /\ lease.holder = r
    BY <1>3 DEF Refreshed, Holds
  <2>2. lease'.holder = r /\ lease'.left = LeaseTTL
    BY <1>1, <2>1
  <2>3. Sweeping(r)' => loop'[r].since = 0
    <3>1. CASE SweepDue(r)
      <4> DEFINE y == [loop[r] EXCEPT !.pc = "sweep"]
                 x == [y EXCEPT !.since = 0]
      <4>1. loop' = [loop EXCEPT ![r] = x]
        BY <1>1, <1>3, <3>1 DEF Refreshed
      <4>2. y \in LoopType
        BY <1>1 DEF LoopType
      <4> HIDE DEF y
      <4>3. x.since = 0
        BY <4>2 DEF LoopType
      <4> HIDE DEF x
      <4> QED
        BY <1>1, <4>1, <4>3
    <3>2. CASE ~SweepDue(r)
      <4> DEFINE x == [loop[r] EXCEPT !.pc = "idle"]
      <4>1. loop' = [loop EXCEPT ![r] = x] /\ x.pc = "idle"
        BY <1>1, <1>3, <3>2 DEF Refreshed, LoopType
      <4> HIDE DEF x
      <4> QED
        BY <1>1, <4>1 DEF Sweeping
    <3> QED
      BY <3>1, <3>2
  <2> QED
    BY <1>2, <2>1, <2>2, <2>3
<1>4. CASE ~Refreshed(r)
  <2>1. ~Sweeping(r)'
    BY <1>1, <1>4 DEF LoopStep, Boot, Wake, Acquired, NotAcquired, NotRefreshed, Sweeping, LoopType
  <2>2. lease' = lease \/ Acquirable(r) \/ Holds(r)
    BY <1>4 DEF LoopStep, Boot, Wake, Acquired, NotAcquired, NotRefreshed
  <2> QED
    BY <1>2, <2>1, <2>2 DEF Acquirable, Holds
<1> QED
  BY <1>3, <1>4

LEMMA LoopStepCovered ==
  ASSUME TypeOK, SweepIsCovered, NEW r \in Replicas, LoopStep(r) PROVE SweepIsCovered'
<1> SUFFICES ASSUME NEW q \in Replicas, Sweeping(q)'
             PROVE  /\ loop'[q].since # None
                    /\ \/ loop'[q].since >= LeaseTTL
                       \/ lease'.holder = q /\ lease'.left + loop'[q].since = LeaseTTL
  BY DEF SweepIsCovered
<1>1. CASE q = r
  BY <1>1, LoopStepLease, LeaseTimes, NoneIsNoReplica
<1>2. CASE q # r
  <2>1. loop'[q] = loop[q] /\ (lease' = lease \/ lease.left = 0 \/ lease.holder = r)
    BY <1>2, LoopStepLease
  <2>2. /\ loop[q].since # None /\ loop[q].since \in 0..LongEnough \cup {None}
        /\ \/ loop[q].since >= LeaseTTL
           \/ lease.holder = q /\ lease.left + loop[q].since = LeaseTTL
    BY <2>1, TypesApart DEF SweepIsCovered, Sweeping, LoopType
  <2> QED
    BY <1>2, <2>1, <2>2, LeaseTimes DEF LongEnough
<1> QED
  BY <1>1, <1>2

LEMMA DieCovered ==
  ASSUME TypeOK, SweepIsCovered, NEW r \in Replicas, Die(r) PROVE SweepIsCovered'
<1>1. /\ loop \in [Replicas -> LoopType] /\ loop' = [loop EXCEPT ![r] = Off]
      /\ lease' = lease \/ lease.holder = r
  BY TypesApart DEF Die, Stop
<1>2. ~Sweeping(r)' /\ \A q \in Replicas \ {r} : loop'[q] = loop[q]
  BY <1>1 DEF Sweeping, Off
<1>3. \A q \in Replicas \ {r} : Sweeping(q)' => Sweeping(q)
  BY <1>2 DEF Sweeping
<1> QED
  BY <1>1, <1>2, <1>3 DEF SweepIsCovered

\* While a lease lasts it loses what the sweep under it gains.
LEMMA ElapseCovered ==
  ASSUME TypeOK, SweepIsCovered, Elapse PROVE SweepIsCovered'
<1> SUFFICES ASSUME NEW r \in Replicas, Sweeping(r)'
             PROVE  /\ loop'[r].since # None
                    /\ \/ loop'[r].since >= LeaseTTL
                       \/ lease'.holder = r /\ lease'.left + loop'[r].since = LeaseTTL
  BY DEF SweepIsCovered
<1>1. /\ loop[r] \in LoopType
      /\ lease \in [holder : Replicas \cup {None}, left : 0..LeaseTTL]
  BY TypesApart DEF RestTyped
<1> DEFINE t == IF loop[r].since = None \/ loop[r].since = LongEnough
                THEN loop[r].since ELSE loop[r].since + 1
           y == [loop[r] EXCEPT !.fire = TRUE]
           x == [y EXCEPT !.since = t]
<1>2. loop'[r] = IF loop[r].pc = "off" THEN loop[r] ELSE x
  BY DEF Elapse
<1>3. y \in LoopType /\ y.pc = loop[r].pc
  BY <1>1 DEF LoopType
<1>4. x.pc = loop[r].pc /\ x.since = t
  <2> HIDE DEF y, t
  <2> QED
    BY <1>3 DEF LoopType
<1> HIDE DEF x
<1>5. Sweeping(r) /\ loop'[r].since = t
  BY <1>2, <1>4 DEF Sweeping
<1>6. /\ loop[r].since \in 0..LongEnough
      /\ \/ loop[r].since >= LeaseTTL
         \/ lease.holder = r /\ lease.left + loop[r].since = LeaseTTL
  BY <1>1, <1>5 DEF SweepIsCovered, LoopType
<1>7. t \in Nat /\ t # None
  BY <1>6, LeaseTimes, NoneIsNoReplica DEF LongEnough
<1>8. CASE loop[r].since >= LeaseTTL
  <2>1. t >= LeaseTTL
    BY <1>6, <1>8, LeaseTimes DEF LongEnough
  <2> QED
    BY <1>5, <1>7, <2>1
<1>9. CASE ~(loop[r].since >= LeaseTTL)
  <2>1. /\ loop[r].since < LeaseTTL /\ loop[r].since # LongEnough /\ loop[r].since # None
        /\ lease.holder = r /\ lease.left > 0 /\ lease.left + loop[r].since = LeaseTTL
    BY <1>1, <1>6, <1>9, LeaseTimes, NoneIsNoReplica DEF LongEnough
  <2> DEFINE l == lease.left - 1
  <2>2. lease' = [lease EXCEPT !.left = l]
    BY <2>1 DEF Elapse
  <2>3. l + t = LeaseTTL
    BY <1>1, <1>6, <2>1, LeaseTimes
  <2> HIDE DEF l
  <2>4. lease'.holder = r /\ lease'.left = l
    BY <1>1, <2>1, <2>2
  <2> HIDE DEF t
  <2> QED
    BY <1>5, <1>7, <2>3, <2>4
<1> QED
  BY <1>8, <1>9

LEMMA SweepCovered ==
  ASSUME TypeOK, SweepIsCovered, NEW r \in Replicas, Sweep(r) PROVE SweepIsCovered'
<1>1. /\ loop \in [Replicas -> LoopType] /\ lease' = lease /\ Sweeping(r)
      /\ loop' = loop \/ \E p : Goto(r, p)
  BY TypesApart
     DEF Sweep, ListDue, ListFails, AuditFlip, SweepDone, Advance, SkipRow, Sweeping, leaseVars
<1>2. CASE loop' = loop
  BY <1>1, <1>2 DEF SweepIsCovered, Sweeping
<1>3. ASSUME NEW p, Goto(r, p) PROVE SweepIsCovered'
  <2> DEFINE x == [loop[r] EXCEPT !.pc = p]
  <2>1. loop' = [loop EXCEPT ![r] = x] /\ x.since = loop[r].since
    BY <1>1, <1>3 DEF Goto, LoopType
  <2> HIDE DEF x
  <2>2. \A q \in Replicas : /\ loop'[q].since = loop[q].since
                            /\ Sweeping(q)' => Sweeping(q)
    BY <1>1, <2>1 DEF Sweeping
  <2> QED
    BY <1>1, <2>2 DEF SweepIsCovered
<1> QED
  BY <1>1, <1>2, <1>3

LEMMA NextCovered == TypeOK /\ SweepIsCovered /\ [Next]_vars => SweepIsCovered'
<1> SUFFICES ASSUME TypeOK, SweepIsCovered, [Next]_vars PROVE SweepIsCovered'
  OBVIOUS
<1>1. CASE UNCHANGED leaseVars
  BY <1>1 DEF leaseVars, SweepIsCovered, Sweeping
<1>2. CASE Admin
  BY <1>1, <1>2
     DEF Admin, ReadForTransition, AdminTransition, AdminAudit, AdminAborts, SoftDelete, EditWindow
<1> QED
  BY <1>1, <1>2, LoopStepCovered, SweepCovered, DieCovered, ElapseCovered
     DEF Next, Tick, vars

\* For as long as a lease lasts from the start of a sweep, the row names its replica: the
\* lease is refreshed before the sweep and nobody can take it before it expires.
THEOREM CoveredSweep == Spec => []SweepIsCovered
<1>1. Init => SweepIsCovered
  BY DEF Init, LeaseInit, Off, SweepIsCovered, Sweeping
<1> QED
  BY <1>1, NextCovered, TypeCorrect, PTL DEF Spec

\* The lease elects: of two replicas that sweep at once, one has done so for as long as
\* a lease lasts, for any TTL, sweep interval and number of replicas.
THEOREM OneSweepAtATime == Spec => []SweepsOverlapOnlyLate
<1>1. SweepIsCovered => SweepsOverlapOnlyLate
  BY DEF SweepIsCovered, SweepsOverlapOnlyLate
<1> QED
  BY <1>1, CoveredSweep, PTL

-----------------------------------------------------------------------------
(* The refinement of PlaytestLifecycle.                                    *)

Same == \A p \in Playtests : /\ playtest'[p].status = playtest[p].status
                            /\ playtest'[p].deleted = playtest[p].deleted

LEMMA SameStutters == Same /\ audit' = audit => UNCHANGED Lifecycle!lifecycleVars
  BY DEF Same, Lifecycle!lifecycleVars

\* The compare-and-set of a status is a move: the row it was read with still matches.
LEMMA SetIsMove ==
  ASSUME IInv, NEW row \in Row, Matches(row), SetStatus(row), UNCHANGED audit
  PROVE  Lifecycle!LifecycleNext
<1>1. /\ playtest \in [Playtests -> PlaytestType] /\ playtest[row.id] \in PlaytestType
      /\ row.id \in Playtests /\ row.status \in {"DRAFT", "OPEN"}
      /\ playtest[row.id].status = row.status /\ ~playtest[row.id].deleted
  BY TypesApart, RowFacts DEF IInv, Matches
<1> DEFINE x == [playtest[row.id] EXCEPT !.status = NextStatus(row.status)]
<1>2. /\ x.status = NextStatus(row.status) /\ x.deleted = playtest[row.id].deleted
      /\ playtest' = [playtest EXCEPT ![row.id] = x]
  BY <1>1 DEF PlaytestType, SetStatus
<1> HIDE DEF x
<1>3. NextStatus(row.status) = Lifecycle!After(row.status)
  BY <1>1 DEF NextStatus, Lifecycle!After
<1>4. \A p \in Playtests : /\ playtest'[p].deleted = playtest[p].deleted
                          /\ playtest'[p].status = IF p = row.id THEN Lifecycle!After(row.status)
                                                   ELSE playtest[p].status
  BY <1>1, <1>2, <1>3
<1>5. Lifecycle!Move(row.id)
  BY <1>1, <1>4 DEF Lifecycle!Move
<1> QED
  BY <1>1, <1>5 DEF Lifecycle!LifecycleNext

\* An audit row that its author owes is a log entry that is not there yet.
LEMMA AppendIsLog ==
  ASSUME IInv, NEW row \in Row, Unaudited(row), AppendTransition(row), UNCHANGED playtest
  PROVE  Lifecycle!LifecycleNext
<1>1. /\ audit \in [Playtests -> [{"DRAFT", "OPEN"} -> Nat]]
      /\ row.id \in Playtests /\ row.status \in {"DRAFT", "OPEN"}
      /\ audit[row.id][row.status] = 0
      /\ playtest[row.id].status \in {NextStatus(row.status), "CLOSED"}
  BY TypesApart, RowFacts DEF IInv, RestTyped, Unaudited, Transitioned
<1>2. NextStatus(row.status) = Lifecycle!After(row.status)
  BY <1>1 DEF NextStatus, Lifecycle!After
<1>3. audit' = [audit EXCEPT ![row.id][row.status] = 1]
  BY <1>1 DEF AppendTransition
<1>4. Lifecycle!Log(row.id, row.status)
  BY <1>1, <1>2, <1>3 DEF Lifecycle!Log
<1> QED
  BY <1>1, <1>4 DEF Lifecycle!LifecycleNext

LEMMA DeleteIsDelete ==
  ASSUME IInv, NEW p \in Playtests, SoftDelete(p) PROVE Lifecycle!LifecycleNext
<1> DEFINE x == [playtest[p] EXCEPT !.deleted = TRUE]
<1>1. /\ playtest' = [playtest EXCEPT ![p] = x] /\ ~playtest[p].deleted /\ audit' = audit
      /\ playtest \in [Playtests -> PlaytestType] /\ playtest[p] \in PlaytestType
  BY TypesApart DEF IInv, SoftDelete
<1>2. x.deleted = TRUE /\ x.status = playtest[p].status
  BY <1>1 DEF PlaytestType
<1> HIDE DEF x
<1>3. \A q \in Playtests : /\ playtest'[q].status = playtest[q].status
                          /\ playtest'[q].deleted = IF q = p THEN TRUE ELSE playtest[q].deleted
  BY <1>1, <1>2
<1>4. Lifecycle!Delete(p)
  BY <1>1, <1>3 DEF Lifecycle!Delete
<1> QED
  BY <1>4 DEF Lifecycle!LifecycleNext

\* Editing the window and the passing of time leave status and deletion alone.
LEMMA WindowIsInvisible ==
  ASSUME IInv, Tick \/ \E p \in Playtests, s, e \in Times : EditWindow(p, s, e) PROVE Same
<1>1. playtest \in [Playtests -> PlaytestType]
  BY TypesApart DEF IInv
<1>2. CASE Tick
  <2>1. \A p \in Playtests : playtest'[p] = [playtest[p] EXCEPT !.starts = Sooner(@),
                                                               !.ends = Sooner(@)]
    BY <1>2 DEF Tick
  <2>2. ASSUME NEW p \in Playtests
        PROVE  playtest'[p].status = playtest[p].status /\ playtest'[p].deleted = playtest[p].deleted
    <3>1. playtest[p] \in PlaytestType
      BY <1>1
    <3> DEFINE s == Sooner(playtest[p].starts)
               e == Sooner(playtest[p].ends)
    <3>2. playtest'[p] = [playtest[p] EXCEPT !.starts = s, !.ends = e]
      BY <2>1
    <3> HIDE DEF s, e
    <3> QED
      BY <3>1, <3>2 DEF PlaytestType
  <2> QED
    BY <2>2 DEF Same
<1>3. ASSUME NEW p \in Playtests, NEW s \in Times, NEW e \in Times, EditWindow(p, s, e)
      PROVE  Same
  <2> DEFINE y == [playtest[p] EXCEPT !.starts = s]
             x == [y EXCEPT !.ends = e]
  <2>1. playtest' = [playtest EXCEPT ![p] = x]
    BY <1>1, <1>3 DEF EditWindow
  <2>2. x.status = playtest[p].status /\ x.deleted = playtest[p].deleted
    BY <1>1 DEF PlaytestType
  <2> HIDE DEF x
  <2> QED
    BY <1>1, <2>1, <2>2 DEF Same
<1> QED
  BY <1>2, <1>3

LEMMA NextImplements == IInv /\ [Next]_vars => [Lifecycle!LifecycleNext]_(Lifecycle!lifecycleVars)
<1> SUFFICES ASSUME IInv, [Next]_vars
             PROVE  [Lifecycle!LifecycleNext]_(Lifecycle!lifecycleVars)
  OBVIOUS
<1>1. CASE Same /\ audit' = audit
  BY <1>1, SameStutters
<1>2. CASE playtest' = playtest /\ audit' = audit
  BY <1>1, <1>2 DEF Same
<1>3. CASE \E r \in Replicas : Sweep(r)
  <2>1. PICK r \in Replicas : Sweep(r)
    BY <1>3
  <2>2. CASE AuditFlip(r)
    <3>1. flipped[r] \in Row /\ Unaudited(flipped[r])
      BY <2>2 DEF AuditFlip, IInv, OneAuthor, Unaudited
    <3> QED
      BY <1>2, <2>2, <3>1, AppendIsLog DEF AuditFlip
  <2>3. CASE \E row \in Row : Advance(r, row) \/ SkipRow(r, row)
    BY <1>2, <2>3, SetIsMove DEF Advance, SkipRow
  <2> QED
    BY <1>2, <2>1, <2>2, <2>3 DEF Sweep, ListDue, ListFails, SweepDone, rows
<1>4. CASE Admin
  <2>1. CASE \E a \in Admins : AdminTransition(a)
    BY <2>1, SetIsMove DEF AdminTransition, IInv, OneAuthor
  <2>2. CASE \E a \in Admins : AdminAudit(a)
    BY <2>2, AppendIsLog DEF AdminAudit, IInv, OneAuthor, Unaudited
  <2>3. CASE \E p \in Playtests, s, e \in Times : EditWindow(p, s, e)
    BY <1>1, <2>3, WindowIsInvisible DEF EditWindow
  <2> QED
    BY <1>2, <1>4, <2>1, <2>2, <2>3, DeleteIsDelete DEF Admin, ReadForTransition, AdminAborts
<1>5. CASE Tick
  BY <1>1, <1>5, WindowIsInvisible DEF Tick
<1> QED
  BY <1>2, <1>3, <1>4, <1>5 DEF Next, Die, rows, vars

\* Sweeps of replicas that all believe they lead and transitions of admins together move
\* the status of a playtest forward only, not after its deletion, and log each move once.
THEOREM Refinement == Spec => ImplementsLifecycle
<1>1. Init => Lifecycle!LifecycleInit
  BY DEF Init, Lifecycle!LifecycleInit
<1> QED
  BY <1>1, NextImplements, SpecIInv, PTL DEF Spec, ImplementsLifecycle, Lifecycle!LifecycleSpec
=============================================================================
