---------------------------- MODULE SurveyProofs ----------------------------
(***************************************************************************)
(* Theorems about Survey for every number of players, requests, NDA texts, *)
(* loads and bounds.                                                       *)
(***************************************************************************)
EXTENDS Survey, SequenceTheorems, TLAPS

-----------------------------------------------------------------------------
(* The inductive invariant: what each program counter knows.               *)

AcceptPcs == {"accept_read", "accept", "accept_stamp", "accept_audit"}
StoredPcs == {"accept_stamp", "accept_audit"}
BootPcs == {"idle", "boot", "list", "sweep", "stamp"}

WasTold(u, v) == \E i \in 1..Len(told[u]) : told[u][i] = v

\* What process p knows when its request is r.
RequestOK(p, r) ==
  /\ p = Boot => r.pc \in BootPcs
  /\ p # Boot => r.pc # "boot"
  /\ r.pc = "update" => r.form \in Forms
  /\ r.pc \in AcceptPcs => r.user \in Users /\ r.nda \in Texts
  /\ r.pc \in StoredPcs => r.nda \in accepted[r.user]
  /\ r.pc = "accept_audit" => r.first
  /\ r.pc \in {"submit_read", "submit", "stamp"} => r.user \in Users
  /\ r.pc = "submit" => /\ applicant[r.user].approved
                        /\ r.nda # None => r.nda \in accepted[r.user]
  /\ r.pc = "stamp" => WasTold(r.user, r.ver)

RequestsOK == \A p \in Procs : RequestOK(p, rpc[p])

\* A stamp is the hash of a text the player has accepted.
StampsAreAccepted ==
  \A u \in Users : applicant[u].nda # None => applicant[u].nda \in accepted[u]

\* A request that was first to store an acceptance has the audit row to itself.
WillAudit(r) == r.pc \in StoredPcs /\ r.first
AuditIsOwed ==
  \A p \in Procs : WillAudit(rpc[p]) =>
    /\ accepts[rpc[p].user][rpc[p].nda] = 0
    /\ \A q \in Procs \ {p} : WillAudit(rpc[q]) =>
         rpc[q].user # rpc[p].user \/ rpc[q].nda # rpc[p].nda

\* One request at most came out of InsertFirst with a survey to publish.
Publishes(r) == r.pc \in {"point_created", "audit", "list", "sweep", "stamp"}
OnePublisher ==
  /\ \A g, h \in Handlers : Publishes(rpc[g]) /\ Publishes(rpc[h]) => g = h
  /\ \A h \in Handlers : Publishes(rpc[h]) => latest > 0

\* The DMs a player has got and those still coming, against what one publication and the
\* restarts so far allow.
Tells(r, u) ==
  \/ r.pc \in {"point_created", "audit", "list", "boot"}
  \/ r.pc \in {"sweep", "stamp"} /\ u \in r.todo
HandlerTells(u) == \E h \in Handlers : Tells(rpc[h], u)
One(b) == IF b THEN 1 ELSE 0
WithinBudget ==
  \A u \in Users : Len(told[u]) + One(Tells(rpc[Boot], u)) + One(HandlerTells(u))
                     <= count.boots + One(latest > 0)

IInv ==
  /\ TypeOK
  /\ RequestsOK
  /\ StampsAreAccepted
  /\ AuditIsOwed
  /\ FirstAcceptAuditedOnce
  /\ ResponsesAreCovered
  /\ StampedWasTold
  /\ OnePublisher
  /\ WithinBudget

-----------------------------------------------------------------------------
(* Initial states.                                                         *)

LEMMA IdleOK == Idle \in Requests /\ \A p : RequestOK(p, Idle)
  BY DEF Idle, Requests, Pcs, MaybeText, RequestOK, BootPcs, AcceptPcs, StoredPcs

LEMMA InitIInv == Init => IInv
<1> SUFFICES ASSUME Init PROVE IInv
  OBVIOUS
<1>1. PICK f \in Forms, v \in 0..1 :
        /\ playtest = [survey |-> v, nda |-> f.nda, required |-> f.required, life |-> "OPEN"]
        /\ latest = v
  BY DEF Init
<1>2. f.nda \in MaybeText /\ f.required \in BOOLEAN /\ (f.required => f.nda # None)
  BY FormsPassValidateNDA DEF MaybeText
<1>3. \A p \in Procs : rpc[p] = Idle
  BY DEF Init
<1>4. TypeOK
  <2>1. /\ playtest \in [survey : 0..latest, nda : MaybeText, required : BOOLEAN,
                         life : {"OPEN", "CLOSED", "deleted"}]
        /\ playtest.required => playtest.nda # None
        /\ latest \in Nat
    BY <1>1, <1>2
  <2>2. rpc \in [Procs -> Requests] /\ \A p \in Procs : rpc[p].ver <= latest
    BY <1>1, <1>3, IdleOK DEF Init, Idle
  <2>3. /\ told \in [Users -> Seq(Nat)]
        /\ count \in [load : Loads, surveys : Nat, edits : Nat, boots : Nat]
    BY DEF Init
  <2>4. /\ applicant \in [Users -> [approved : BOOLEAN, nda : MaybeText, lastDm : Nat]]
        /\ accepted \in [Users -> SUBSET Texts]
        /\ response \in [Users -> [ver : Nat, nda : MaybeText] \cup {None}]
        /\ accepts \in [Users -> [Texts -> Nat]]
    BY DEF Init, MaybeText
  <2> QED
    BY <2>1, <2>2, <2>3, <2>4 DEF TypeOK
<1>5. RequestsOK
  BY <1>3, IdleOK DEF RequestsOK
<1>6. StampsAreAccepted /\ FirstAcceptAuditedOnce /\ ResponsesAreCovered /\ StampedWasTold
  BY DEF Init, StampsAreAccepted, FirstAcceptAuditedOnce, ResponsesAreCovered, StampedWasTold
<1>7. AuditIsOwed /\ OnePublisher
  BY <1>3 DEF AuditIsOwed, WillAudit, StoredPcs, OnePublisher, Publishes, Idle, Procs
<1>8. WithinBudget
  <2>1. \A u \in Users : ~Tells(rpc[Boot], u) /\ ~HandlerTells(u)
    BY <1>3 DEF Tells, HandlerTells, Idle, Procs
  <2>2. \A u \in Users : Len(told[u]) = 0
    BY DEF Init
  <2>3. count.boots = 0
    BY DEF Init
  <2> QED
    <3> SUFFICES ASSUME NEW u \in Users
                 PROVE  Len(told[u]) + One(Tells(rpc[Boot], u)) + One(HandlerTells(u))
                          <= count.boots + One(latest > 0)
      BY DEF WithinBudget
    <3>1. One(Tells(rpc[Boot], u)) = 0 /\ One(HandlerTells(u)) = 0
      BY <2>1 DEF One
    <3>2. One(latest > 0) \in Nat
      BY DEF One
    <3> QED
      BY <2>2, <2>3, <3>1, <3>2
<1> QED
  BY <1>4, <1>5, <1>6, <1>7, <1>8 DEF IInv

-----------------------------------------------------------------------------
(* What the other requests know survives a step of one of them.            *)

LEMMA RequestsStep ==
  ASSUME IInv, NEW p \in Procs, NEW r \in Requests,
         rpc' = [rpc EXCEPT ![p] = r],
         RequestOK(p, r)', r.ver <= latest',
         latest' \in Nat, latest <= latest',
         \A u \in Users : /\ accepted[u] \subseteq accepted'[u]
                          /\ applicant[u].approved => applicant'[u].approved
                          /\ \A v \in Nat : WasTold(u, v) => WasTold(u, v)'
  PROVE  /\ rpc' \in [Procs -> Requests]
         /\ \A q \in Procs : rpc'[q].ver <= latest'
         /\ RequestsOK'
<1>1. rpc \in [Procs -> Requests] /\ latest \in Nat /\ \A q \in Procs : rpc[q].ver <= latest
  BY DEF IInv, TypeOK
<1>2. rpc' \in [Procs -> Requests] /\ rpc'[p] = r /\ \A q \in Procs \ {p} : rpc'[q] = rpc[q]
  BY <1>1
<1>3. \A q \in Procs : rpc[q].ver \in Nat /\ rpc'[q].ver \in Nat
  BY <1>1, <1>2 DEF Requests
<1>4. \A q \in Procs : rpc'[q].ver <= latest'
  BY <1>1, <1>2, <1>3
<1>5. ASSUME NEW q \in Procs \ {p} PROVE RequestOK(q, rpc[q])'
  <2>1. RequestOK(q, rpc[q])
    BY DEF IInv, RequestsOK
  <2> QED
    BY <1>2, <1>3, <2>1 DEF RequestOK, AcceptPcs, StoredPcs
<1>6. RequestsOK'
  BY <1>2, <1>5 DEF RequestsOK
<1> QED
  BY <1>2, <1>4, <1>6

\* Nobody comes to owe an audit row who did not before, so none is owed twice.
LEMMA AuditStep ==
  ASSUME IInv, NEW p \in Procs, NEW r \in Requests,
         rpc' = [rpc EXCEPT ![p] = r],
         WillAudit(r) => WillAudit(rpc[p]) /\ r.user = rpc[p].user /\ r.nda = rpc[p].nda,
         UNCHANGED accepts
  PROVE  AuditIsOwed'
<1>1. rpc'[p] = r /\ \A q \in Procs \ {p} : rpc'[q] = rpc[q]
  BY DEF IInv, TypeOK
<1>2. AuditIsOwed
  BY DEF IInv
<1> QED
  BY <1>1, <1>2 DEF AuditIsOwed, WillAudit

\* Nobody takes up the publication of a survey, so no player is told more often.
LEMMA BudgetStep ==
  ASSUME IInv, NEW p \in Procs, NEW r \in Requests,
         rpc' = [rpc EXCEPT ![p] = r],
         Publishes(r) => Publishes(rpc[p]) \/ p = Boot,
         \A u \in Users : Tells(r, u) => Tells(rpc[p], u),
         latest' \in Nat, latest <= latest',
         UNCHANGED told, count'.boots = count.boots
  PROVE  OnePublisher' /\ WithinBudget'
<1>1. rpc'[p] = r /\ \A q \in Procs \ {p} : rpc'[q] = rpc[q]
  BY DEF IInv, TypeOK
<1>2. latest \in Nat /\ count.boots \in Nat /\ \A u \in Users : Len(told[u]) \in Nat
  BY DEF IInv, TypeOK
<1>3. OnePublisher'
  BY <1>1, <1>2, BootIsNoHandler DEF IInv, OnePublisher, Procs
<1>4. ASSUME NEW u \in Users
      PROVE  /\ Tells(rpc[Boot], u)' => Tells(rpc[Boot], u)
             /\ HandlerTells(u)' => HandlerTells(u)
  BY <1>1 DEF HandlerTells, Procs, Tells
<1>5. WithinBudget'
  <2> SUFFICES ASSUME NEW u \in Users
               PROVE  Len(told[u]) + One(Tells(rpc[Boot], u)') + One(HandlerTells(u)')
                        <= count.boots + One(latest' > 0)
    BY DEF WithinBudget, One
  <2>1. Len(told[u]) + One(Tells(rpc[Boot], u)) + One(HandlerTells(u))
          <= count.boots + One(latest > 0)
    BY DEF IInv, WithinBudget
  <2>2. One(Tells(rpc[Boot], u)') <= One(Tells(rpc[Boot], u))
    BY <1>4 DEF One
  <2>3. One(HandlerTells(u)') <= One(HandlerTells(u))
    BY <1>4 DEF One
  <2>4. One(latest > 0) <= One(latest' > 0)
    BY <1>2 DEF One
  <2>5. /\ One(Tells(rpc[Boot], u)') \in Nat /\ One(Tells(rpc[Boot], u)) \in Nat
        /\ One(HandlerTells(u)') \in Nat /\ One(HandlerTells(u)) \in Nat
        /\ One(latest > 0) \in Nat /\ One(latest' > 0) \in Nat
    BY DEF One
  <2> QED
    BY <1>2, <2>1, <2>2, <2>3, <2>4, <2>5
<1> QED
  BY <1>3, <1>5

-----------------------------------------------------------------------------
(* Steps that change one request and nothing it has to agree with.         *)

LEMMA QuietStep ==
  ASSUME IInv, NEW p \in Procs, NEW r \in Requests,
         rpc' = [rpc EXCEPT ![p] = r],
         RequestOK(p, r), r.ver <= latest,
         WillAudit(r) => WillAudit(rpc[p]) /\ r.user = rpc[p].user /\ r.nda = rpc[p].nda,
         Publishes(r) => Publishes(rpc[p]) \/ p = Boot,
         \A u \in Users : Tells(r, u) => Tells(rpc[p], u),
         UNCHANGED <<tables, told>>,
         count' \in [load : Loads, surveys : Nat, edits : Nat, boots : Nat],
         count'.boots = count.boots
  PROVE  IInv'
<1>1. latest' \in Nat /\ latest <= latest'
  BY DEF IInv, TypeOK, tables
<1>2. RequestOK(p, r)'
  BY DEF RequestOK, WasTold, tables
<1>3. /\ rpc' \in [Procs -> Requests]
      /\ \A q \in Procs : rpc'[q].ver <= latest'
      /\ RequestsOK'
  BY <1>1, <1>2, RequestsStep DEF tables, WasTold
<1>4. TypeOK'
  BY <1>3 DEF IInv, TypeOK, tables
<1>5. AuditIsOwed'
  BY AuditStep DEF tables
<1>6. OnePublisher' /\ WithinBudget'
  BY <1>1, BudgetStep
<1>7. /\ StampsAreAccepted' /\ FirstAcceptAuditedOnce'
      /\ ResponsesAreCovered' /\ StampedWasTold'
  BY DEF IInv, StampsAreAccepted, FirstAcceptAuditedOnce, ResponsesAreCovered,
         StampedWasTold, tables
<1> QED
  BY <1>3, <1>4, <1>5, <1>6, <1>7 DEF IInv

LEMMA ReturnStep ==
  ASSUME IInv, NEW p \in Procs, Return(p), UNCHANGED <<tables, told, count>>
  PROVE  IInv'
<1>1. Idle.pc = "idle" /\ Idle.ver = 0
  BY DEF Idle
<1>2. ~WillAudit(Idle) /\ ~Publishes(Idle) /\ \A u \in Users : ~Tells(Idle, u)
  BY <1>1 DEF WillAudit, StoredPcs, Publishes, Tells
<1>3. Idle.ver <= latest
  BY <1>1 DEF IInv, TypeOK
<1>4. count' \in [load : Loads, surveys : Nat, edits : Nat, boots : Nat] /\ count' = count
  BY DEF IInv, TypeOK
<1>5. rpc' = [rpc EXCEPT ![p] = Idle] /\ UNCHANGED <<tables, told>>
  BY DEF Return
<1> QED
  BY <1>2, <1>3, <1>4, <1>5, IdleOK, QuietStep

\* A request that was not under way reads the playtest row.
LEMMA BeginStep ==
  ASSUME IInv, NEW h \in Handlers, NEW r \in Requests, Begin(h, r),
         RequestOK(h, r), r.ver <= latest,
         r.pc \in {"create", "edit", "update", "accept_read", "submit_read"},
         count' \in [load : Loads, surveys : Nat, edits : Nat, boots : Nat],
         count'.boots = count.boots
  PROVE  IInv'
<1>1. CASE Live
  <2>1. rpc' = [rpc EXCEPT ![h] = r] /\ UNCHANGED <<tables, told>> /\ h \in Procs
    BY <1>1 DEF Begin, Procs
  <2>2. ~WillAudit(r) /\ ~Publishes(r) /\ \A u \in Users : ~Tells(r, u)
    BY DEF WillAudit, StoredPcs, Publishes, Tells
  <2> QED
    BY <2>1, <2>2, QuietStep
<1>2. CASE ~Live
  <2>1. rpc' = [rpc EXCEPT ![h] = rpc[h]] /\ rpc[h] \in Requests
    BY <1>2 DEF Begin, IInv, TypeOK, Procs
  <2>2. RequestOK(h, rpc[h]) /\ rpc[h].ver <= latest
    BY DEF IInv, TypeOK, RequestsOK, Procs
  <2> QED
    BY <2>1, <2>2, QuietStep DEF Begin, Procs
<1> QED
  BY <1>1, <1>2

LEMMA CountType ==
  ASSUME IInv
  PROVE  /\ count \in [load : Loads, surveys : Nat, edits : Nat, boots : Nat]
         /\ \A h \in Handlers : h # Boot /\ h \in Procs
  BY BootIsNoHandler DEF IInv, TypeOK, Procs

LEMMA CreateSurveyStep ==
  ASSUME IInv, NEW h \in Handlers, CreateSurvey(h) PROVE IInv'
<1> DEFINE r == [Idle EXCEPT !.pc = "create"]
<1>1. r \in Requests
  BY IdleOK DEF Requests, Pcs, MaybeText
<1>2. r.pc = "create" /\ r.ver = 0
  BY DEF Idle
<1>3. RequestOK(h, r) /\ r.ver <= latest
  BY <1>2, CountType DEF RequestOK, AcceptPcs, StoredPcs, IInv, TypeOK
<1> QED
  BY <1>1, <1>2, <1>3, CountType, BeginStep DEF CreateSurvey

LEMMA EditSurveyStep ==
  ASSUME IInv, NEW h \in Handlers, EditSurvey(h) PROVE IInv'
<1> DEFINE r == [Idle EXCEPT !.pc = "edit"]
<1>1. r \in Requests
  BY IdleOK DEF Requests, Pcs, MaybeText
<1>2. r.pc = "edit" /\ r.ver = 0
  BY DEF Idle
<1>3. RequestOK(h, r) /\ r.ver <= latest
  BY <1>2, CountType DEF RequestOK, AcceptPcs, StoredPcs, IInv, TypeOK
<1>5. Begin(h, r)
  BY DEF EditSurvey
<1>6. /\ count' \in [load : Loads, surveys : Nat, edits : Nat, boots : Nat]
      /\ count'.boots = count.boots
  BY CountType DEF EditSurvey
<1> HIDE DEF r
<1> QED
  BY <1>1, <1>2, <1>3, <1>5, <1>6, BeginStep

LEMMA EditPlaytestStep ==
  ASSUME IInv, NEW h \in Handlers, NEW f \in Forms, EditPlaytest(h, f) PROVE IInv'
<1> DEFINE r == [Idle EXCEPT !.pc = "update", !.form = f, !.ver = playtest.survey]
<1>1. playtest.survey \in Nat /\ playtest.survey <= latest
  BY DEF IInv, TypeOK
<1>2. r \in Requests
  BY <1>1, IdleOK DEF Requests, Pcs, MaybeText
<1>3. r.pc = "update" /\ r.ver = playtest.survey /\ r.form = f
  BY DEF Idle
<1>4. RequestOK(h, r) /\ r.ver <= latest
  BY <1>1, <1>3, CountType DEF RequestOK, AcceptPcs, StoredPcs, IInv, TypeOK
<1>5. Begin(h, r)
  BY DEF EditPlaytest
<1>6. /\ count' \in [load : Loads, surveys : Nat, edits : Nat, boots : Nat]
      /\ count'.boots = count.boots
  BY CountType DEF EditPlaytest
<1> HIDE DEF r
<1> QED
  BY <1>2, <1>3, <1>4, <1>5, <1>6, BeginStep

LEMMA AcceptNDAStep ==
  ASSUME IInv, NEW h \in Handlers, NEW u \in Users, AcceptNDA(h, u) PROVE IInv'
<1> DEFINE r == [Idle EXCEPT !.pc = "accept_read", !.user = u, !.nda = playtest.nda,
                             !.closed = playtest.life = "CLOSED"]
<1>1. playtest.nda \in Texts
  BY DEF IInv, TypeOK, MaybeText, AcceptNDA
<1>2. r \in Requests
  BY <1>1, IdleOK DEF Requests, Pcs, MaybeText
<1>3. r.pc = "accept_read" /\ r.ver = 0 /\ r.user = u /\ r.nda = playtest.nda
  BY DEF Idle
<1>4. RequestOK(h, r) /\ r.ver <= latest
  BY <1>1, <1>3, CountType DEF RequestOK, AcceptPcs, StoredPcs, IInv, TypeOK
<1>5. Begin(h, r) /\ count' = count
  BY DEF AcceptNDA
<1>6. count' \in [load : Loads, surveys : Nat, edits : Nat, boots : Nat]
  BY <1>5, CountType
<1> HIDE DEF r
<1> QED
  BY <1>2, <1>3, <1>4, <1>5, <1>6, BeginStep

LEMMA SubmitSurveyResponseStep ==
  ASSUME IInv, NEW h \in Handlers, NEW u \in Users, SubmitSurveyResponse(h, u) PROVE IInv'
<1> DEFINE r == [Idle EXCEPT !.pc = "submit_read", !.user = u,
                             !.nda = IF playtest.required THEN playtest.nda ELSE None]
<1>1. (IF playtest.required THEN playtest.nda ELSE None) \in MaybeText
  BY DEF IInv, TypeOK, MaybeText
<1>2. r \in Requests
  BY <1>1, IdleOK DEF Requests, Pcs, MaybeText
<1>3. r.pc = "submit_read" /\ r.ver = 0 /\ r.user = u
  BY DEF Idle
<1>4. RequestOK(h, r) /\ r.ver <= latest
  BY <1>1, <1>3, CountType DEF RequestOK, AcceptPcs, StoredPcs, IInv, TypeOK
<1>5. Begin(h, r) /\ count' = count
  BY DEF SubmitSurveyResponse
<1>6. count' \in [load : Loads, surveys : Nat, edits : Nat, boots : Nat]
  BY <1>5, CountType
<1> HIDE DEF r
<1> QED
  BY <1>2, <1>3, <1>4, <1>5, <1>6, BeginStep
-----------------------------------------------------------------------------
(* The statements that write no table.                                     *)

\* What holds of a request that is not told here: its type, and what it knows.
LEMMA RequestType ==
  ASSUME IInv, NEW p \in Procs
  PROVE  /\ rpc[p] \in Requests
         /\ RequestOK(p, rpc[p]) /\ rpc[p].ver <= latest /\ latest \in Nat
         /\ count \in [load : Loads, surveys : Nat, edits : Nat, boots : Nat]
  BY DEF IInv, TypeOK, RequestsOK

LEMMA AuditCreateStep ==
  ASSUME IInv, NEW p \in Procs, AuditCreate(p) PROVE IInv'
<1> DEFINE r == [rpc[p] EXCEPT !.pc = "list"]
<1>1. rpc' = [rpc EXCEPT ![p] = r] /\ r \in Requests
  BY RequestType DEF AuditCreate, Goto, Requests, Pcs
<1>2. RequestOK(p, r) /\ r.ver <= latest
  BY RequestType DEF Requests, RequestOK, BootPcs, AcceptPcs, StoredPcs, AuditCreate, At
<1>3. ~WillAudit(r) /\ Publishes(rpc[p]) /\ \A u \in Users : Tells(rpc[p], u)
  BY RequestType DEF Requests, WillAudit, StoredPcs, Publishes, Tells, AuditCreate, At
<1> HIDE DEF r
<1> QED
  BY <1>1, <1>2, <1>3, RequestType, QuietStep DEF AuditCreate

LEMMA ListRecipientsStep ==
  ASSUME IInv, NEW p \in Procs, ListRecipients(p) PROVE IInv'
<1> DEFINE S == {u \in Users : NeedsSurveyDM(u, rpc[p].ver)}
           r == [rpc[p] EXCEPT !.pc = "sweep", !.todo = S]
<1>1. rpc' = [rpc EXCEPT ![p] = r] /\ r \in Requests
  BY RequestType DEF ListRecipients, Requests, Pcs
<1>2. RequestOK(p, r) /\ r.ver <= latest
  BY RequestType DEF Requests, RequestOK, BootPcs, AcceptPcs, StoredPcs, ListRecipients, At
<1>3. ~WillAudit(r) /\ Publishes(rpc[p]) /\ \A u \in Users : Tells(rpc[p], u)
  BY RequestType DEF Requests, WillAudit, StoredPcs, Publishes, Tells, ListRecipients, At
<1> HIDE DEF r
<1> QED
  BY <1>1, <1>2, <1>3, RequestType, QuietStep DEF ListRecipients

LEMMA EnqueueOverflowsStep ==
  ASSUME IInv, NEW p \in Procs, NEW u \in Users, EnqueueOverflows(p, u) PROVE IInv'
<1> DEFINE r == [rpc[p] EXCEPT !.todo = @ \ {u}]
<1>1. rpc' = [rpc EXCEPT ![p] = r] /\ r \in Requests
  BY RequestType DEF EnqueueOverflows, Requests
<1>2. RequestOK(p, r) /\ r.ver <= latest
  BY RequestType DEF Requests, RequestOK, BootPcs, AcceptPcs, StoredPcs, EnqueueOverflows, At
<1>3. ~WillAudit(r) /\ Publishes(rpc[p]) /\ \A w \in Users : Tells(r, w) => Tells(rpc[p], w)
  BY RequestType DEF Requests, WillAudit, StoredPcs, Publishes, Tells, EnqueueOverflows, At
<1> HIDE DEF r
<1> QED
  BY <1>1, <1>2, <1>3, RequestType, QuietStep DEF EnqueueOverflows

LEMMA MarkFailsStep ==
  ASSUME IInv, NEW p \in Procs, MarkFails(p) PROVE IInv'
<1> DEFINE r == [rpc[p] EXCEPT !.pc = "sweep"]
<1>1. rpc' = [rpc EXCEPT ![p] = r] /\ r \in Requests
  BY RequestType DEF MarkFails, Goto, Requests, Pcs
<1>2. RequestOK(p, r) /\ r.ver <= latest
  BY RequestType DEF Requests, RequestOK, BootPcs, AcceptPcs, StoredPcs, MarkFails, At
<1>3. ~WillAudit(r) /\ Publishes(rpc[p]) /\ \A w \in Users : Tells(r, w) => Tells(rpc[p], w)
  BY RequestType DEF Requests, WillAudit, StoredPcs, Publishes, Tells, MarkFails, At
<1> HIDE DEF r
<1> QED
  BY <1>1, <1>2, <1>3, RequestType, QuietStep DEF MarkFails

LEMMA BootSweepStep ==
  ASSUME IInv, BootSweep PROVE IInv'
<1> DEFINE r == [rpc[Boot] EXCEPT !.pc = "list", !.ver = playtest.survey]
<1>0. Boot \in Procs
  BY DEF Procs
<1>1. CASE Live /\ playtest.survey # 0
  <2>1. playtest.survey \in Nat /\ playtest.survey <= latest
    BY DEF IInv, TypeOK
  <2>2. rpc' = [rpc EXCEPT ![Boot] = r] /\ r \in Requests
    BY <1>0, <1>1, <2>1, RequestType DEF BootSweep, Requests, Pcs
  <2>3. RequestOK(Boot, r) /\ r.ver <= latest
    BY <1>0, <2>1, RequestType DEF Requests, RequestOK, BootPcs, AcceptPcs, StoredPcs
  <2>4. ~WillAudit(r) /\ \A u \in Users : Tells(rpc[Boot], u)
    BY <1>0, RequestType DEF Requests, WillAudit, StoredPcs, Tells, BootSweep, At
  <2> HIDE DEF r
  <2> QED
    BY <1>0, <2>2, <2>3, <2>4, RequestType, QuietStep DEF BootSweep
<1>2. CASE ~(Live /\ playtest.survey # 0)
  BY <1>0, <1>2, ReturnStep DEF BootSweep
<1> QED
  BY <1>1, <1>2

LEMMA LookupApplicantStep ==
  ASSUME IInv, NEW p \in Procs, LookupApplicant(p) PROVE IInv'
<1> DEFINE a == applicant[rpc[p].user]
           r == [rpc[p] EXCEPT !.pc = "accept", !.own = a.nda]
<1>1. CASE rpc[p].closed /\ ~a.approved
  BY <1>1, ReturnStep DEF LookupApplicant
<1>2. CASE ~(rpc[p].closed /\ ~a.approved)
  <2>1. rpc[p].user \in Users /\ rpc[p].nda \in Texts /\ p # Boot
    BY RequestType DEF RequestOK, AcceptPcs, BootPcs, LookupApplicant, At
  <2>2. a.nda \in MaybeText
    BY <2>1 DEF IInv, TypeOK
  <2>3. rpc' = [rpc EXCEPT ![p] = r]
    BY <1>2 DEF LookupApplicant
  <2>4. r \in Requests
    BY <2>2, RequestType DEF Requests, Pcs
  <2>5. r.pc = "accept" /\ r.user = rpc[p].user /\ r.nda = rpc[p].nda /\ r.ver = rpc[p].ver
    BY RequestType DEF Requests
  <2>6. RequestOK(p, r) /\ r.ver <= latest
    BY <2>1, <2>5, RequestType DEF RequestOK, AcceptPcs, StoredPcs
  <2>7. ~WillAudit(r) /\ ~Publishes(r) /\ \A u \in Users : ~Tells(r, u)
    BY <2>5 DEF WillAudit, StoredPcs, Publishes, Tells
  <2> HIDE DEF r
  <2> QED
    BY <2>3, <2>4, <2>6, <2>7, RequestType, QuietStep DEF LookupApplicant
<1> QED
  BY <1>1, <1>2

LEMMA CheckSubmitStep ==
  ASSUME IInv, NEW p \in Procs, NEW v \in 1..latest, CheckSubmit(p, v) PROVE IInv'
<1> DEFINE r == [rpc[p] EXCEPT !.pc = "submit", !.ver = v]
<1>1. CASE ~MaySubmit(applicant[rpc[p].user], rpc[p].nda)
  BY <1>1, ReturnStep DEF CheckSubmit
<1>2. CASE MaySubmit(applicant[rpc[p].user], rpc[p].nda)
  <2>1. rpc[p].user \in Users /\ p # Boot
    BY RequestType DEF RequestOK, BootPcs, CheckSubmit, At
  <2>2. applicant[rpc[p].user].approved
    BY <1>2 DEF MaySubmit
  <2>3. rpc[p].nda # None => rpc[p].nda \in accepted[rpc[p].user]
    BY <1>2, <2>1 DEF MaySubmit, IInv, StampsAreAccepted
  <2>4. rpc' = [rpc EXCEPT ![p] = r]
    BY <1>2 DEF CheckSubmit
  <2>0. v \in Nat /\ v <= latest
    BY RequestType
  <2>5. r \in Requests /\ v <= latest
    BY <2>0, RequestType DEF Requests, Pcs
  <2>6. r.pc = "submit" /\ r.user = rpc[p].user /\ r.nda = rpc[p].nda /\ r.ver = v
    BY RequestType DEF Requests
  <2>7. RequestOK(p, r) /\ r.ver <= latest
    BY <2>1, <2>2, <2>3, <2>5, <2>6 DEF RequestOK, AcceptPcs, StoredPcs
  <2>8. ~WillAudit(r) /\ ~Publishes(r) /\ \A u \in Users : ~Tells(r, u)
    BY <2>6 DEF WillAudit, StoredPcs, Publishes, Tells
  <2> HIDE DEF r
  <2> QED
    BY <2>4, <2>5, <2>7, <2>8, RequestType, QuietStep DEF CheckSubmit
<1> QED
  BY <1>1, <1>2
-----------------------------------------------------------------------------
(* The statements that write a table.                                      *)

LEMMA InsertFirstStep ==
  ASSUME IInv, NEW p \in Procs, InsertFirst(p) PROVE IInv'
<1>0. PICK r \in Requests : r = [rpc[p] EXCEPT !.pc = "point_created", !.ver = 1]
  BY RequestType DEF Requests, Pcs
<1>1. CASE ~NoSurveyYet
  BY <1>1, ReturnStep DEF InsertFirst, tables
<1>2. CASE NoSurveyYet
  <2>1. p # Boot /\ p \in Handlers
    BY RequestType DEF RequestOK, BootPcs, InsertFirst, At, Procs
  <2>2. /\ latest = 0 /\ latest' = 1 /\ rpc' = [rpc EXCEPT ![p] = r]
        /\ UNCHANGED <<playtest, applicant, accepted, response, accepts, told, count>>
    BY <1>0, <1>2 DEF InsertFirst, NoSurveyYet
  <2>4. r.pc = "point_created" /\ r.ver = 1
    BY <1>0, RequestType DEF Requests
  <2>5. RequestOK(p, r)'
    BY <2>1, <2>4 DEF RequestOK, AcceptPcs, StoredPcs
  <2>6. rpc'[p] = r /\ \A q \in Procs \ {p} : rpc'[q] = rpc[q]
    BY <2>2 DEF IInv, TypeOK
  <2>. /\ latest' \in Nat /\ latest <= latest' /\ r.ver <= latest'
       /\ \A u \in Users, v \in Nat : WasTold(u, v) => WasTold(u, v)'
    BY <2>2, <2>4 DEF WasTold
  <2>7. /\ rpc' \in [Procs -> Requests]
        /\ \A q \in Procs : rpc'[q].ver <= latest'
        /\ RequestsOK'
    BY <2>2, <2>5, RequestsStep
  <2>8. TypeOK'
    BY <2>2, <2>7 DEF IInv, TypeOK
  <2>9. AuditIsOwed'
    BY <2>2, <2>4, AuditStep DEF WillAudit, StoredPcs
  <2>10. ResponsesAreCovered'
    <3>1. \A u \in Users : response[u] # None => response[u].ver \in Nat
      BY NoneIsNoText DEF IInv, TypeOK
    <3> QED
      BY <2>2, <3>1 DEF IInv, ResponsesAreCovered
  <2>11. StampsAreAccepted' /\ FirstAcceptAuditedOnce' /\ StampedWasTold'
    BY <2>2 DEF IInv, StampsAreAccepted, FirstAcceptAuditedOnce, StampedWasTold
  <2>12. \A h \in Handlers : ~Publishes(rpc[h])
    BY <2>2 DEF IInv, OnePublisher
  <2>13. OnePublisher'
    BY <2>2, <2>6, <2>12 DEF OnePublisher, Procs
  <2>14. WithinBudget'
    <3> SUFFICES ASSUME NEW u \in Users
                 PROVE  Len(told[u]) + One(Tells(rpc[Boot], u)') + One(HandlerTells(u)')
                          <= count.boots + One(latest' > 0)
      BY <2>2 DEF WithinBudget, One
    <3>1. Len(told[u]) + One(Tells(rpc[Boot], u)) + One(HandlerTells(u))
            <= count.boots + One(latest > 0)
      BY DEF IInv, WithinBudget
    <3>2. One(latest > 0) = 0 /\ One(latest' > 0) = 1
      BY <2>2 DEF One
    <3>3. ~HandlerTells(u)
      BY <2>12, BootIsNoHandler
         DEF HandlerTells, Tells, Publishes, IInv, RequestsOK, RequestOK, Procs
    <3>4. One(HandlerTells(u)) = 0 /\ One(HandlerTells(u)') <= 1
          /\ One(HandlerTells(u)') \in Nat
      BY <3>3 DEF One
    <3>5. Tells(rpc[Boot], u)' <=> Tells(rpc[Boot], u)
      BY <2>1, <2>6 DEF Tells, Procs
    <3>6. One(Tells(rpc[Boot], u)') = One(Tells(rpc[Boot], u))
          /\ One(Tells(rpc[Boot], u)) \in Nat
      BY <3>5 DEF One
    <3>7. Len(told[u]) \in Nat /\ count.boots \in Nat
      BY DEF IInv, TypeOK
    <3> QED
      BY <3>1, <3>2, <3>4, <3>6, <3>7
  <2> QED
    BY <2>7, <2>8, <2>9, <2>10, <2>11, <2>13, <2>14 DEF IInv
<1> QED
  BY <1>1, <1>2

LEMMA EditAsNewVersionStep ==
  ASSUME IInv, NEW p \in Procs, EditAsNewVersion(p) PROVE IInv'
<1>0. PICK r \in Requests : r = [rpc[p] EXCEPT !.pc = "point_edited", !.ver = latest + 1]
  <2>1. latest + 1 \in Nat
    BY RequestType
  <2> QED
    BY <2>1, RequestType DEF Requests, Pcs
<1>1. p # Boot
  BY RequestType DEF RequestOK, BootPcs, EditAsNewVersion, At
<1>2. /\ latest' = latest + 1 /\ rpc' = [rpc EXCEPT ![p] = r]
      /\ UNCHANGED <<playtest, applicant, accepted, response, accepts, told, count>>
  BY <1>0 DEF EditAsNewVersion
<1>4. r.pc = "point_edited" /\ r.ver = latest'
  BY <1>0, <1>2, RequestType DEF Requests
<1>5. RequestOK(p, r)'
  BY <1>1, <1>4 DEF RequestOK, AcceptPcs, StoredPcs
<1>6. /\ latest' \in Nat /\ latest <= latest' /\ r.ver <= latest'
      /\ \A u \in Users, v \in Nat : WasTold(u, v) => WasTold(u, v)'
  BY <1>2, <1>4, RequestType DEF WasTold
<1>7. /\ rpc' \in [Procs -> Requests]
      /\ \A q \in Procs : rpc'[q].ver <= latest'
      /\ RequestsOK'
  BY <1>2, <1>5, <1>6, RequestsStep
<1>8. TypeOK'
  <2>1. 0..latest \subseteq 0..latest'
    BY <1>6, RequestType
  <2> QED
    BY <1>2, <1>6, <1>7, <2>1 DEF IInv, TypeOK
<1>9. AuditIsOwed'
  BY <1>2, <1>4, AuditStep DEF WillAudit, StoredPcs
<1>10. OnePublisher' /\ WithinBudget'
  BY <1>2, <1>4, <1>6, BudgetStep DEF Publishes, Tells
<1>11. ResponsesAreCovered'
  <2>1. \A u \in Users : response[u] # None => response[u].ver \in Nat
    BY DEF IInv, TypeOK
  <2> QED
    BY <1>2, <1>6, <2>1, RequestType DEF IInv, ResponsesAreCovered
<1>12. StampsAreAccepted' /\ FirstAcceptAuditedOnce' /\ StampedWasTold'
  BY <1>2 DEF IInv, StampsAreAccepted, FirstAcceptAuditedOnce, StampedWasTold
<1> QED
  BY <1>7, <1>8, <1>9, <1>10, <1>11, <1>12 DEF IInv
\* A statement that publishes nothing and adds no version.
LEMMA StatementStep ==
  ASSUME IInv, NEW p \in Procs, NEW r \in Requests,
         rpc' = [rpc EXCEPT ![p] = r],
         RequestOK(p, r)', r.ver <= latest,
         Publishes(r) => Publishes(rpc[p]),
         \A u \in Users : Tells(r, u) => Tells(rpc[p], u),
         UNCHANGED <<latest, told, count>>,
         \A u \in Users : /\ accepted[u] \subseteq accepted'[u]
                          /\ applicant[u].approved => applicant'[u].approved
  PROVE  /\ rpc' \in [Procs -> Requests]
         /\ \A q \in Procs : rpc'[q].ver <= latest'
         /\ RequestsOK' /\ OnePublisher' /\ WithinBudget'
<1>1. latest' \in Nat /\ latest <= latest' /\ r.ver <= latest'
  BY RequestType
<1>2. \A u \in Users, v \in Nat : WasTold(u, v) => WasTold(u, v)'
  BY DEF WasTold
<1>3. /\ rpc' \in [Procs -> Requests]
      /\ \A q \in Procs : rpc'[q].ver <= latest'
      /\ RequestsOK'
  BY <1>1, <1>2, RequestsStep
<1>4. OnePublisher' /\ WithinBudget'
  BY <1>1, BudgetStep
<1> QED
  BY <1>3, <1>4

LEMMA IdleIsQuiet ==
  /\ Idle \in Requests /\ Idle.ver = 0 /\ ~WillAudit(Idle) /\ ~Publishes(Idle)
  /\ \A u : ~Tells(Idle, u)
<1>1. Idle.pc = "idle" /\ Idle.ver = 0
  BY DEF Idle
<1> QED
  BY <1>1, IdleOK DEF WillAudit, StoredPcs, Publishes, Tells

LEMMA SetSurveyIDStep ==
  ASSUME IInv, NEW p \in Procs, SetSurveyID(p) PROVE IInv'
<1>0. PICK r \in Requests : r = IF Live /\ At(p, "point_created")
                               THEN [rpc[p] EXCEPT !.pc = "audit"] ELSE Idle
  BY RequestType, IdleOK DEF Requests, Pcs
<1>1. /\ rpc' = [rpc EXCEPT ![p] = r]
      /\ playtest' = playtest \/ playtest' = [playtest EXCEPT !.survey = rpc[p].ver]
      /\ UNCHANGED <<latest, applicant, accepted, response, accepts, told, count>>
  BY <1>0 DEF SetSurveyID, Goto, Return, EndEdit
<1>2. p # Boot
  BY RequestType DEF RequestOK, BootPcs, SetSurveyID
<1>3. \/ r = Idle
      \/ r.pc = "audit" /\ r.ver = rpc[p].ver /\ rpc[p].pc = "point_created"
  BY <1>0, RequestType DEF Requests, At
<1>4. RequestOK(p, r)'
  BY <1>2, <1>3 DEF RequestOK, AcceptPcs, StoredPcs, Idle
<1>5. /\ ~WillAudit(r) /\ r.ver <= latest
      /\ Publishes(r) => Publishes(rpc[p])
      /\ \A u \in Users : Tells(r, u) => Tells(rpc[p], u)
  BY <1>3, RequestType, IdleIsQuiet DEF WillAudit, StoredPcs, Publishes, Tells, Requests
<1>6. /\ rpc' \in [Procs -> Requests]
      /\ \A q \in Procs : rpc'[q].ver <= latest'
      /\ RequestsOK' /\ OnePublisher' /\ WithinBudget'
  BY <1>1, <1>4, <1>5, StatementStep
<1>7. TypeOK'
  <2>1. rpc[p].ver \in 0..latest
    BY RequestType DEF Requests
  <2>2. /\ playtest' \in [survey : 0..latest', nda : MaybeText, required : BOOLEAN,
                            life : {"OPEN", "CLOSED", "deleted"}]
        /\ playtest'.required => playtest'.nda # None
    BY <1>1, <2>1 DEF IInv, TypeOK
  <2> QED
    BY <1>1, <1>6, <2>2 DEF IInv, TypeOK
<1>8. AuditIsOwed'
  BY <1>1, <1>5, AuditStep
<1>9. /\ StampsAreAccepted' /\ FirstAcceptAuditedOnce'
      /\ ResponsesAreCovered' /\ StampedWasTold'
  BY <1>1 DEF IInv, StampsAreAccepted, FirstAcceptAuditedOnce, ResponsesAreCovered,
              StampedWasTold
<1> QED
  BY <1>6, <1>7, <1>8, <1>9 DEF IInv

LEMMA UpdateStep ==
  ASSUME IInv, NEW p \in Procs, Update(p) PROVE IInv'
<1>1. /\ rpc' = [rpc EXCEPT ![p] = Idle]
      /\ \/ playtest' = playtest
         \/ playtest' = [playtest EXCEPT !.survey = rpc[p].ver,
                                         !.required = rpc[p].form.required,
                                         !.nda = rpc[p].form.nda]
      /\ UNCHANGED <<latest, applicant, accepted, response, accepts, told, count>>
  BY DEF Update, Return
<1>2. rpc[p].form \in Forms
  BY RequestType DEF RequestOK, Update, At
<1>3. RequestOK(p, Idle)'
  BY DEF Idle, RequestOK, BootPcs, AcceptPcs, StoredPcs
<1>4. Idle.ver <= latest
  BY IdleIsQuiet, RequestType
<1>5. /\ rpc' \in [Procs -> Requests]
      /\ \A q \in Procs : rpc'[q].ver <= latest'
      /\ RequestsOK' /\ OnePublisher' /\ WithinBudget'
  BY <1>1, <1>3, <1>4, IdleIsQuiet, StatementStep
<1>6. TypeOK'
  <2>1. rpc[p].ver \in 0..latest
    BY RequestType DEF Requests
  <2>2. /\ rpc[p].form.required \in BOOLEAN /\ rpc[p].form.nda \in MaybeText
        /\ rpc[p].form.required => rpc[p].form.nda # None
    BY <1>2, FormsPassValidateNDA DEF MaybeText
  <2>3. /\ playtest' \in [survey : 0..latest', nda : MaybeText, required : BOOLEAN,
                            life : {"OPEN", "CLOSED", "deleted"}]
        /\ playtest'.required => playtest'.nda # None
    BY <1>1, <2>1, <2>2 DEF IInv, TypeOK
  <2> QED
    BY <1>1, <1>5, <2>3 DEF IInv, TypeOK
<1>7. AuditIsOwed'
  BY <1>1, IdleIsQuiet, AuditStep
<1>8. /\ StampsAreAccepted' /\ FirstAcceptAuditedOnce'
      /\ ResponsesAreCovered' /\ StampedWasTold'
  BY <1>1 DEF IInv, StampsAreAccepted, FirstAcceptAuditedOnce, ResponsesAreCovered,
              StampedWasTold
<1> QED
  BY <1>5, <1>6, <1>7, <1>8 DEF IInv

LEMMA SubmitOnceStep ==
  ASSUME IInv, NEW p \in Procs, SubmitOnce(p) PROVE IInv'
<1> DEFINE new == [ver |-> rpc[p].ver, nda |-> rpc[p].nda]
<1>1. /\ rpc' = [rpc EXCEPT ![p] = Idle]
      /\ response' = response \/ response' = [response EXCEPT ![rpc[p].user] = new]
      /\ UNCHANGED <<playtest, latest, applicant, accepted, accepts, told, count>>
  BY DEF SubmitOnce, Return
<1>2. /\ rpc[p].user \in Users /\ applicant[rpc[p].user].approved
      /\ rpc[p].nda # None => rpc[p].nda \in accepted[rpc[p].user]
      /\ new.ver \in Nat /\ new.ver <= latest /\ new.nda = rpc[p].nda
      /\ new \in [ver : Nat, nda : MaybeText]
  BY RequestType DEF RequestOK, SubmitOnce, At, Requests
<1>3. RequestOK(p, Idle)'
  BY DEF Idle, RequestOK, BootPcs, AcceptPcs, StoredPcs
<1>4. Idle.ver <= latest
  BY IdleIsQuiet, RequestType
<1>5. /\ rpc' \in [Procs -> Requests]
      /\ \A q \in Procs : rpc'[q].ver <= latest'
      /\ RequestsOK' /\ OnePublisher' /\ WithinBudget'
  BY <1>1, <1>3, <1>4, IdleIsQuiet, StatementStep
<1> HIDE DEF new
<1>6. TypeOK'
  <2>1. response' \in [Users -> [ver : Nat, nda : MaybeText] \cup {None}]
    BY <1>1, <1>2 DEF IInv, TypeOK
  <2> QED
    BY <1>1, <1>5, <2>1 DEF IInv, TypeOK
<1>7. AuditIsOwed'
  BY <1>1, IdleIsQuiet, AuditStep
<1>8. ResponsesAreCovered'
  BY <1>1, <1>2 DEF IInv, TypeOK, ResponsesAreCovered
<1>9. StampsAreAccepted' /\ FirstAcceptAuditedOnce' /\ StampedWasTold'
  BY <1>1 DEF IInv, StampsAreAccepted, FirstAcceptAuditedOnce, StampedWasTold
<1> QED
  BY <1>5, <1>6, <1>7, <1>8, <1>9 DEF IInv

LEMMA MarkSurveyDMSentStep ==
  ASSUME IInv, NEW p \in Procs, MarkSurveyDMSent(p) PROVE IInv'
<1>0. PICK r \in Requests : r = [rpc[p] EXCEPT !.pc = "sweep"]
  BY RequestType DEF Requests, Pcs
<1>1. /\ rpc' = [rpc EXCEPT ![p] = r]
      /\ applicant' = [applicant EXCEPT ![rpc[p].user].lastDm = rpc[p].ver]
      /\ UNCHANGED <<playtest, latest, accepted, response, accepts, told, count>>
  BY <1>0 DEF MarkSurveyDMSent, Goto
<1>2. rpc[p].user \in Users /\ rpc[p].ver \in Nat /\ WasTold(rpc[p].user, rpc[p].ver)
  BY RequestType DEF RequestOK, MarkSurveyDMSent, At, Requests
<1>3. r.pc = "sweep" /\ r.ver = rpc[p].ver /\ r.todo = rpc[p].todo
  BY <1>0, RequestType DEF Requests
<1>4. RequestOK(p, r)'
  BY <1>3, RequestType
     DEF RequestOK, BootPcs, AcceptPcs, StoredPcs, MarkSurveyDMSent, At
<1>5. /\ ~WillAudit(r) /\ r.ver <= latest /\ Publishes(rpc[p])
      /\ \A u \in Users : Tells(r, u) => Tells(rpc[p], u)
  BY <1>3, RequestType
     DEF WillAudit, StoredPcs, Publishes, Tells, Requests, MarkSurveyDMSent, At
<1>6. \A u \in Users : /\ applicant'[u].approved = applicant[u].approved
                       /\ applicant'[u].nda = applicant[u].nda
                       /\ \/ applicant'[u].lastDm = applicant[u].lastDm
                          \/ u = rpc[p].user /\ applicant'[u].lastDm = rpc[p].ver
  BY <1>1, <1>2 DEF IInv, TypeOK
<1>7. /\ rpc' \in [Procs -> Requests]
      /\ \A q \in Procs : rpc'[q].ver <= latest'
      /\ RequestsOK' /\ OnePublisher' /\ WithinBudget'
  <2>1. \A u \in Users : /\ accepted[u] \subseteq accepted'[u]
                         /\ applicant[u].approved => applicant'[u].approved
    BY <1>1, <1>6
  <2>2. UNCHANGED <<latest, told, count>>
    BY <1>1
  <2> QED
    BY <1>1, <1>4, <1>5, <2>1, <2>2, StatementStep
<1>8. TypeOK'
  <2>1. applicant' \in [Users -> [approved : BOOLEAN, nda : MaybeText, lastDm : Nat]]
    BY <1>1, <1>2 DEF IInv, TypeOK
  <2> QED
    BY <1>1, <1>7, <2>1 DEF IInv, TypeOK
<1>9. AuditIsOwed'
  BY <1>1, <1>5, AuditStep
<1>10. StampedWasTold'
  BY <1>1, <1>2, <1>6 DEF IInv, StampedWasTold, WasTold
<1>11. StampsAreAccepted' /\ FirstAcceptAuditedOnce' /\ ResponsesAreCovered'
  BY <1>1, <1>6 DEF IInv, StampsAreAccepted, FirstAcceptAuditedOnce, ResponsesAreCovered
<1> QED
  BY <1>7, <1>8, <1>9, <1>10, <1>11 DEF IInv
LEMMA AcceptIdempotentStep ==
  ASSUME IInv, NEW p \in Procs, AcceptIdempotent(p) PROVE IInv'
<1>0. PICK u, t : u = rpc[p].user /\ t = rpc[p].nda
  OBVIOUS
<1>1. PICK r \in Requests : r = [rpc[p] EXCEPT !.pc = "accept_stamp", !.first = ~IsReplay(u, t)]
  BY RequestType DEF Requests, Pcs, IsReplay
<1>2. /\ accepted' = [accepted EXCEPT ![u] = @ \cup {t}]
      /\ rpc' = [rpc EXCEPT ![p] = r]
      /\ UNCHANGED <<playtest, latest, applicant, response, accepts, told, count>>
  BY <1>0, <1>1 DEF AcceptIdempotent
<1>3. u \in Users /\ t \in Texts /\ p # Boot
  BY <1>0, RequestType DEF RequestOK, AcceptPcs, BootPcs, AcceptIdempotent, At
<1>4. /\ r.pc = "accept_stamp" /\ r.user = u /\ r.nda = t /\ r.ver = rpc[p].ver
      /\ r.first <=> t \notin accepted[u]
  BY <1>0, <1>1, RequestType DEF Requests, IsReplay
<1>5. /\ accepted' \in [Users -> SUBSET Texts] /\ t \in accepted'[u]
      /\ \A w \in Users : accepted[w] \subseteq accepted'[w]
  BY <1>2, <1>3 DEF IInv, TypeOK
<1>6. RequestOK(p, r)'
  BY <1>3, <1>4, <1>5 DEF RequestOK, AcceptPcs, StoredPcs
<1>7. r.ver <= latest /\ ~Publishes(r) /\ \A w \in Users : ~Tells(r, w)
  BY <1>4, RequestType DEF Publishes, Tells
<1>8. /\ rpc' \in [Procs -> Requests]
      /\ \A q \in Procs : rpc'[q].ver <= latest'
      /\ RequestsOK' /\ OnePublisher' /\ WithinBudget'
  <2>1. \A w \in Users : /\ accepted[w] \subseteq accepted'[w]
                         /\ applicant[w].approved => applicant'[w].approved
    BY <1>2, <1>5
  <2>2. UNCHANGED <<latest, told, count>>
    BY <1>2
  <2> QED
    BY <1>2, <1>6, <1>7, <2>1, <2>2, StatementStep
<1>9. TypeOK'
  BY <1>2, <1>5, <1>8 DEF IInv, TypeOK
<1>10. AuditIsOwed'
  <2>1. rpc'[p] = r /\ \A q \in Procs \ {p} : rpc'[q] = rpc[q]
    BY <1>2 DEF IInv, TypeOK
  <2>2. AuditIsOwed /\ FirstAcceptAuditedOnce /\ accepts \in [Users -> [Texts -> Nat]]
    BY DEF IInv, TypeOK
  <2>3. r.first => accepts[u][t] = 0
    BY <1>3, <1>4, <2>2 DEF FirstAcceptAuditedOnce
  <2>4. \A q \in Procs : WillAudit(rpc[q]) => rpc[q].nda \in accepted[rpc[q].user]
    BY RequestType DEF RequestOK, WillAudit
  <2>5. ASSUME NEW q \in Procs \ {p}, WillAudit(rpc[q]), r.first
        PROVE  rpc[q].user # u \/ rpc[q].nda # t
    BY <1>4, <2>4, <2>5
  <2> QED
    BY <1>2, <1>4, <2>1, <2>2, <2>3, <2>5 DEF AuditIsOwed, WillAudit
<1>11. FirstAcceptAuditedOnce' /\ StampsAreAccepted' /\ ResponsesAreCovered'
  BY <1>2, <1>5 DEF IInv, FirstAcceptAuditedOnce, StampsAreAccepted, ResponsesAreCovered
<1>12. StampedWasTold'
  BY <1>2 DEF IInv, StampedWasTold
<1> QED
  BY <1>8, <1>9, <1>10, <1>11, <1>12 DEF IInv

LEMMA SetNDAVersionHashStep ==
  ASSUME IInv, NEW p \in Procs, SetNDAVersionHash(p) PROVE IInv'
<1>0. PICK u, t : u = rpc[p].user /\ t = rpc[p].nda
  OBVIOUS
<1>1. PICK r \in Requests :
        r = IF rpc[p].first THEN [rpc[p] EXCEPT !.pc = "accept_audit"] ELSE Idle
  BY RequestType, IdleOK DEF Requests, Pcs
<1>2. /\ rpc' = [rpc EXCEPT ![p] = r]
      /\ applicant' = applicant \/ applicant' = [applicant EXCEPT ![u].nda = t]
      /\ UNCHANGED <<playtest, latest, accepted, response, accepts, told, count>>
  BY <1>0, <1>1 DEF SetNDAVersionHash, Goto, Return
<1>3. u \in Users /\ t \in Texts /\ t \in accepted[u] /\ p # Boot /\ rpc[p].pc = "accept_stamp"
  BY <1>0, RequestType DEF RequestOK, AcceptPcs, StoredPcs, BootPcs, SetNDAVersionHash, At
<1>4. \/ r = Idle
      \/ /\ r.pc = "accept_audit" /\ r.user = u /\ r.nda = t /\ r.ver = rpc[p].ver
         /\ r.first /\ rpc[p].first
  BY <1>0, <1>1, RequestType DEF Requests
<1>5. RequestOK(p, r)'
  BY <1>2, <1>3, <1>4 DEF RequestOK, AcceptPcs, StoredPcs, Idle
<1>6. /\ r.ver <= latest /\ ~Publishes(r) /\ \A w \in Users : ~Tells(r, w)
      /\ WillAudit(r) => WillAudit(rpc[p]) /\ r.user = rpc[p].user /\ r.nda = rpc[p].nda
  BY <1>0, <1>3, <1>4, IdleIsQuiet, RequestType DEF Publishes, Tells, WillAudit, StoredPcs
<1>7. \A w \in Users : /\ applicant'[w].approved = applicant[w].approved
                       /\ applicant'[w].lastDm = applicant[w].lastDm
                       /\ \/ applicant'[w].nda = applicant[w].nda
                          \/ w = u /\ applicant'[w].nda = t
  BY <1>2, <1>3 DEF IInv, TypeOK
<1>8. /\ rpc' \in [Procs -> Requests]
      /\ \A q \in Procs : rpc'[q].ver <= latest'
      /\ RequestsOK' /\ OnePublisher' /\ WithinBudget'
  <2>1. \A w \in Users : /\ accepted[w] \subseteq accepted'[w]
                         /\ applicant[w].approved => applicant'[w].approved
    BY <1>2, <1>7
  <2>2. UNCHANGED <<latest, told, count>>
    BY <1>2
  <2> QED
    BY <1>2, <1>5, <1>6, <2>1, <2>2, StatementStep
<1>9. TypeOK'
  <2>1. applicant' \in [Users -> [approved : BOOLEAN, nda : MaybeText, lastDm : Nat]]
    <3>1. t \in MaybeText
      BY <1>3 DEF MaybeText
    <3>2. applicant \in [Users -> [approved : BOOLEAN, nda : MaybeText, lastDm : Nat]]
      BY DEF IInv, TypeOK
    <3>3. applicant[u] \in [approved : BOOLEAN, nda : MaybeText, lastDm : Nat]
      BY <1>3, <3>2
    <3>4. [applicant[u] EXCEPT !.nda = t] \in [approved : BOOLEAN, nda : MaybeText, lastDm : Nat]
      BY <3>1, <3>3
    <3> QED
      BY <1>2, <1>3, <3>2, <3>4
  <2> QED
    BY <1>2, <1>8, <2>1 DEF IInv, TypeOK
<1>10. AuditIsOwed'
  BY <1>2, <1>6, AuditStep
<1>11. StampsAreAccepted' /\ FirstAcceptAuditedOnce' /\ ResponsesAreCovered' /\ StampedWasTold'
  BY <1>2, <1>3, <1>7
     DEF IInv, StampsAreAccepted, FirstAcceptAuditedOnce, ResponsesAreCovered, StampedWasTold
<1> QED
  BY <1>8, <1>9, <1>10, <1>11 DEF IInv

LEMMA AuditAcceptStep ==
  ASSUME IInv, NEW p \in Procs, AuditAccept(p) PROVE IInv'
<1>0. PICK u, t : u = rpc[p].user /\ t = rpc[p].nda
  OBVIOUS
<1>1. /\ accepts' = [accepts EXCEPT ![u][t] = @ + 1]
      /\ rpc' = [rpc EXCEPT ![p] = Idle]
      /\ UNCHANGED <<playtest, latest, applicant, accepted, response, told, count>>
  BY <1>0 DEF AuditAccept, Return
<1>2. u \in Users /\ t \in Texts /\ t \in accepted[u] /\ WillAudit(rpc[p])
  BY <1>0, RequestType DEF RequestOK, AcceptPcs, StoredPcs, WillAudit, AuditAccept, At
<1>3. /\ accepts[u][t] = 0
      /\ \A q \in Procs \ {p} : WillAudit(rpc[q]) => rpc[q].user # u \/ rpc[q].nda # t
  BY <1>0, <1>2 DEF IInv, AuditIsOwed
<1>4. accepts \in [Users -> [Texts -> Nat]]
  BY DEF IInv, TypeOK
<1>5. /\ accepts' \in [Users -> [Texts -> Nat]]
      /\ accepts'[u][t] = 1
      /\ \A w \in Users, s \in Texts : w # u \/ s # t => accepts'[w][s] = accepts[w][s]
  BY <1>1, <1>2, <1>3, <1>4
<1>6. RequestOK(p, Idle)'
  BY DEF Idle, RequestOK, BootPcs, AcceptPcs, StoredPcs
<1>7. Idle.ver <= latest
  BY IdleIsQuiet, RequestType
<1>8. /\ rpc' \in [Procs -> Requests]
      /\ \A q \in Procs : rpc'[q].ver <= latest'
      /\ RequestsOK' /\ OnePublisher' /\ WithinBudget'
  BY <1>1, <1>6, <1>7, IdleIsQuiet, StatementStep
<1>9. TypeOK'
  BY <1>1, <1>5, <1>8 DEF IInv, TypeOK
<1>10. AuditIsOwed'
  <2>1. rpc'[p] = Idle /\ \A q \in Procs \ {p} : rpc'[q] = rpc[q]
    BY <1>1 DEF IInv, TypeOK
  <2>2. \A q \in Procs : WillAudit(rpc[q]) => rpc[q].user \in Users /\ rpc[q].nda \in Texts
    BY RequestType DEF RequestOK, WillAudit, StoredPcs, AcceptPcs
  <2>3. AuditIsOwed
    BY DEF IInv
  <2>4. ASSUME NEW q \in Procs, WillAudit(rpc'[q])
        PROVE  /\ q # p /\ WillAudit(rpc[q])
               /\ accepts'[rpc[q].user][rpc[q].nda] = 0
    <3>1. q # p /\ WillAudit(rpc[q])
      BY <2>1, <2>4, IdleIsQuiet
    <3>2. accepts[rpc[q].user][rpc[q].nda] = 0
      BY <2>3, <3>1 DEF AuditIsOwed
    <3> QED
      BY <1>3, <1>5, <2>2, <3>1, <3>2
  <2> QED
    BY <2>1, <2>3, <2>4 DEF AuditIsOwed, WillAudit
<1>11. FirstAcceptAuditedOnce'
  BY <1>1, <1>2, <1>5 DEF IInv, FirstAcceptAuditedOnce
<1>12. StampsAreAccepted' /\ ResponsesAreCovered' /\ StampedWasTold'
  BY <1>1 DEF IInv, StampsAreAccepted, ResponsesAreCovered, StampedWasTold
<1> QED
  BY <1>8, <1>9, <1>10, <1>11, <1>12 DEF IInv
-----------------------------------------------------------------------------
(* The DM itself: one more told, one fewer to come.                        *)

LEMMA EnqueueSurveyDMStep ==
  ASSUME IInv, NEW p \in Procs, NEW u \in Users, EnqueueSurveyDM(p, u) PROVE IInv'
<1>0. PICK r \in Requests :
        r = [rpc[p] EXCEPT !.pc = "stamp", !.user = u, !.todo = @ \ {u}]
  BY RequestType DEF Requests, Pcs
<1>1. /\ told' = [told EXCEPT ![u] = Append(@, rpc[p].ver)]
      /\ rpc' = [rpc EXCEPT ![p] = r]
      /\ UNCHANGED <<playtest, latest, applicant, accepted, response, accepts, count>>
  BY <1>0 DEF EnqueueSurveyDM, tables
<1>2. rpc[p].ver \in Nat /\ rpc[p].pc = "sweep" /\ u \in rpc[p].todo
  BY RequestType DEF Requests, EnqueueSurveyDM, At
<1>3. r.pc = "stamp" /\ r.user = u /\ r.ver = rpc[p].ver /\ r.todo = rpc[p].todo \ {u}
  BY <1>0, RequestType DEF Requests
<1>4. rpc'[p] = r /\ \A q \in Procs \ {p} : rpc'[q] = rpc[q]
  BY <1>1 DEF IInv, TypeOK
<1>5. /\ told' \in [Users -> Seq(Nat)]
      /\ Len(told'[u]) = Len(told[u]) + 1
      /\ told'[u][Len(told[u]) + 1] = rpc[p].ver
      /\ \A i \in 1..Len(told[u]) : told'[u][i] = told[u][i]
      /\ \A w \in Users \ {u} : told'[w] = told[w]
  <2>1. told \in [Users -> Seq(Nat)] /\ told[u] \in Seq(Nat)
    BY DEF IInv, TypeOK
  <2>2. told'[u] = Append(told[u], rpc[p].ver)
    BY <1>1, <2>1
  <2>3. /\ Append(told[u], rpc[p].ver) \in Seq(Nat)
        /\ Len(Append(told[u], rpc[p].ver)) = Len(told[u]) + 1
        /\ \A i \in 1..Len(told[u]) : Append(told[u], rpc[p].ver)[i] = told[u][i]
        /\ Append(told[u], rpc[p].ver)[Len(told[u]) + 1] = rpc[p].ver
    BY <1>2, <2>1, AppendProperties
  <2> QED
    BY <1>1, <2>1, <2>2, <2>3
<1>6. Len(told[u]) \in Nat
  BY DEF IInv, TypeOK
<1>7. \A w \in Users, v \in Nat : WasTold(w, v) => WasTold(w, v)'
  BY <1>5, <1>6 DEF WasTold
<1>8. RequestOK(p, r)'
  <2>1. \E i \in 1..Len(told'[u]) : told'[u][i] = rpc[p].ver
    <3>1. Len(told[u]) + 1 \in 1..Len(told'[u])
      BY <1>5, <1>6
    <3> QED
      BY <1>5, <3>1
  <2> QED
    BY <1>2, <1>3, <2>1, RequestType
       DEF RequestOK, WasTold, BootPcs, AcceptPcs, StoredPcs
<1>9. /\ rpc' \in [Procs -> Requests]
       /\ \A q \in Procs : rpc'[q].ver <= latest'
       /\ RequestsOK'
  <2>1. latest' \in Nat /\ latest <= latest' /\ r.ver <= latest'
    BY <1>1, <1>3, RequestType
  <2>2. \A w \in Users : /\ accepted[w] \subseteq accepted'[w]
                         /\ applicant[w].approved => applicant'[w].approved
    BY <1>1
  <2> QED
    BY <1>1, <1>7, <1>8, <2>1, <2>2, RequestsStep
<1>10. TypeOK'
  BY <1>1, <1>5, <1>9 DEF IInv, TypeOK
<1>11. AuditIsOwed'
  BY <1>1, <1>3, AuditStep DEF WillAudit, StoredPcs
<1>12. StampedWasTold'
  <2>1. \A w \in Users : applicant[w].lastDm \in Nat
    BY DEF IInv, TypeOK
  <2> QED
    BY <1>1, <1>7, <2>1 DEF IInv, StampedWasTold, WasTold
<1>13. StampsAreAccepted' /\ FirstAcceptAuditedOnce' /\ ResponsesAreCovered'
  BY <1>1 DEF IInv, StampsAreAccepted, FirstAcceptAuditedOnce, ResponsesAreCovered
<1>14. Publishes(rpc[p]) /\ Publishes(r)
  BY <1>2, <1>3 DEF Publishes
<1>15. OnePublisher'
  BY <1>1, <1>4, <1>14 DEF IInv, OnePublisher, Procs
<1>16. WithinBudget'
  <2> SUFFICES ASSUME NEW w \in Users
               PROVE  Len(told'[w]) + One(Tells(rpc[Boot], w)') + One(HandlerTells(w)')
                        <= count.boots + One(latest > 0)
    BY <1>1 DEF WithinBudget, One
  <2>1. Len(told[w]) + One(Tells(rpc[Boot], w)) + One(HandlerTells(w))
          <= count.boots + One(latest > 0)
    BY DEF IInv, WithinBudget
  <2>2. /\ One(Tells(rpc[Boot], w)') \in Nat /\ One(Tells(rpc[Boot], w)) \in Nat
        /\ One(HandlerTells(w)') \in Nat /\ One(HandlerTells(w)) \in Nat
        /\ One(latest > 0) \in Nat /\ Len(told[w]) \in Nat /\ count.boots \in Nat
    BY DEF One, IInv, TypeOK
  <2>3. Tells(r, w) <=> Tells(rpc[p], w) /\ w # u
    BY <1>2, <1>3 DEF Tells
  <2>4. CASE w # u
    <3>1. /\ Tells(rpc[Boot], w)' <=> Tells(rpc[Boot], w)
          /\ HandlerTells(w)' <=> HandlerTells(w)
      BY <1>4, <2>3, <2>4 DEF HandlerTells, Procs, Tells
    <3>2. /\ One(Tells(rpc[Boot], w)') = One(Tells(rpc[Boot], w))
          /\ One(HandlerTells(w)') = One(HandlerTells(w))
      BY <3>1 DEF One
    <3> QED
      BY <1>5, <2>1, <2>2, <2>4, <3>2
  <2>5. CASE w = u /\ p = Boot
    <3>1. /\ ~Tells(rpc[Boot], w)' /\ Tells(rpc[Boot], w)
          /\ HandlerTells(w)' <=> HandlerTells(w)
      BY <1>2, <1>4, <2>3, <2>5, BootIsNoHandler DEF HandlerTells, Procs, Tells
    <3>2. /\ One(Tells(rpc[Boot], w)') = 0 /\ One(Tells(rpc[Boot], w)) = 1
          /\ One(HandlerTells(w)') = One(HandlerTells(w))
      BY <3>1 DEF One
    <3> QED
      BY <1>5, <2>1, <2>2, <2>5, <3>2
  <2>6. CASE w = u /\ p \in Handlers
    <3>1. \A h \in Handlers \ {p} : ~Publishes(rpc[h]) /\ rpc[h].pc # "boot"
      BY <1>14, <2>6, RequestType, BootIsNoHandler DEF IInv, OnePublisher, RequestOK, Procs
    <3>2. /\ ~HandlerTells(w)' /\ HandlerTells(w)
          /\ Tells(rpc[Boot], w)' <=> Tells(rpc[Boot], w)
      BY <1>2, <1>4, <2>3, <2>6, <3>1, BootIsNoHandler
         DEF HandlerTells, Procs, Tells, Publishes
    <3>3. /\ One(HandlerTells(w)') = 0 /\ One(HandlerTells(w)) = 1
          /\ One(Tells(rpc[Boot], w)') = One(Tells(rpc[Boot], w))
      BY <3>2 DEF One
    <3> QED
      BY <1>5, <2>1, <2>2, <2>6, <3>3
  <2> QED
    BY <2>4, <2>5, <2>6 DEF Procs
<1> QED
  BY <1>9, <1>10, <1>11, <1>12, <1>13, <1>15, <1>16 DEF IInv
-----------------------------------------------------------------------------
(* The rest of the system.                                                 *)

LEMMA ApproveStep ==
  ASSUME IInv, NEW u \in Users, Approve(u) PROVE IInv'
<1>1. /\ applicant' = [applicant EXCEPT ![u].approved = TRUE]
      /\ UNCHANGED <<playtest, latest, accepted, response, accepts, told, rpc, count>>
  BY DEF Approve
<1>2. \A w \in Users : /\ applicant[w].approved => applicant'[w].approved
                       /\ applicant'[w].lastDm = applicant[w].lastDm
                       /\ applicant'[w].nda = applicant[w].nda
  BY <1>1 DEF IInv, TypeOK
<1>3. TypeOK'
  <2>1. applicant' \in [Users -> [approved : BOOLEAN, nda : MaybeText, lastDm : Nat]]
    BY <1>1 DEF IInv, TypeOK
  <2> QED
    BY <1>1, <2>1 DEF IInv, TypeOK
<1>4. RequestsOK'
  <2> SUFFICES ASSUME NEW q \in Procs PROVE RequestOK(q, rpc[q])'
    BY DEF RequestsOK
  <2> QED
    BY <1>1, <1>2, RequestType DEF RequestOK, WasTold, AcceptPcs, StoredPcs
<1>5. AuditIsOwed' /\ OnePublisher' /\ WithinBudget'
  BY <1>1 DEF IInv, AuditIsOwed, WillAudit, OnePublisher, Publishes,
              WithinBudget, HandlerTells, Tells, One
<1>6. StampsAreAccepted' /\ FirstAcceptAuditedOnce' /\ ResponsesAreCovered' /\ StampedWasTold'
  BY <1>1, <1>2
     DEF IInv, StampsAreAccepted, FirstAcceptAuditedOnce, ResponsesAreCovered, StampedWasTold
<1> QED
  BY <1>3, <1>4, <1>5, <1>6 DEF IInv

\* Only the lifecycle of the playtest changes.
LEMMA LifeStep ==
  ASSUME IInv, NEW l \in {"CLOSED", "deleted"},
         playtest' = [playtest EXCEPT !.life = l],
         UNCHANGED <<latest, applicant, accepted, response, accepts, told, rpc, count>>
  PROVE  IInv'
<1>1. TypeOK'
  <2>1. /\ playtest' \in [survey : 0..latest', nda : MaybeText, required : BOOLEAN,
                            life : {"OPEN", "CLOSED", "deleted"}]
        /\ playtest'.required => playtest'.nda # None
    BY DEF IInv, TypeOK
  <2> QED
    BY <2>1 DEF IInv, TypeOK
<1>2. RequestsOK'
  BY DEF IInv, RequestsOK, RequestOK, WasTold
<1>3. AuditIsOwed' /\ OnePublisher' /\ WithinBudget'
  BY DEF IInv, AuditIsOwed, WillAudit, OnePublisher, Publishes,
         WithinBudget, HandlerTells, Tells, One
<1>4. StampsAreAccepted' /\ FirstAcceptAuditedOnce' /\ ResponsesAreCovered' /\ StampedWasTold'
  BY DEF IInv, StampsAreAccepted, FirstAcceptAuditedOnce, ResponsesAreCovered, StampedWasTold
<1> QED
  BY <1>1, <1>2, <1>3, <1>4 DEF IInv

\* The dead requests owe nothing any more; Boot may tell every player once more.
LEMMA RestartStep ==
  ASSUME IInv, Restart PROVE IInv'
<1>1. /\ rpc' = [p \in Procs |-> IF p = Boot THEN [Idle EXCEPT !.pc = "boot"] ELSE Idle]
      /\ count' = [count EXCEPT !.boots = @ + 1]
      /\ UNCHANGED <<playtest, latest, applicant, accepted, response, accepts, told>>
  BY DEF Restart, tables
<1>2. PICK b \in Requests : b = [Idle EXCEPT !.pc = "boot"]
  BY IdleOK DEF Requests, Pcs
<1>3. b.pc = "boot" /\ b.ver = 0
  BY <1>2 DEF Idle
<1>4. \A p \in Procs : rpc'[p] = IF p = Boot THEN b ELSE Idle
  BY <1>1, <1>2
<1>5. /\ count' \in [load : Loads, surveys : Nat, edits : Nat, boots : Nat]
      /\ count'.boots = count.boots + 1 /\ count.boots \in Nat
  <2>1. /\ count \in [load : Loads, surveys : Nat, edits : Nat, boots : Nat]
        /\ count.boots + 1 \in Nat
    BY DEF IInv, TypeOK
  <2> QED
    BY <1>1, <2>1
<1>6. TypeOK'
  <2>1. rpc' \in [Procs -> Requests] /\ \A p \in Procs : rpc'[p].ver <= latest'
    BY <1>1, <1>2, <1>3, <1>4, IdleIsQuiet DEF IInv, TypeOK
  <2> QED
    BY <1>1, <1>5, <2>1 DEF IInv, TypeOK
<1>7. RequestsOK'
  <2> SUFFICES ASSUME NEW p \in Procs PROVE RequestOK(p, rpc[p])'
    BY DEF RequestsOK
  <2>1. Idle.pc = "idle"
    BY DEF Idle
  <2> QED
    BY <1>3, <1>4, <2>1 DEF RequestOK, BootPcs, AcceptPcs, StoredPcs
<1>8. AuditIsOwed'
  BY <1>3, <1>4, IdleIsQuiet DEF AuditIsOwed, WillAudit, StoredPcs
<1>9. \A h \in Handlers : ~Publishes(rpc'[h]) /\ \A u \in Users : ~Tells(rpc'[h], u)
  BY <1>4, IdleIsQuiet, BootIsNoHandler DEF Procs
<1>10. OnePublisher'
  BY <1>9 DEF OnePublisher, Publishes
<1>11. WithinBudget'
  <2> SUFFICES ASSUME NEW u \in Users
               PROVE  Len(told[u]) + One(Tells(rpc[Boot], u)') + One(HandlerTells(u)')
                        <= count'.boots + One(latest > 0)
    BY <1>1 DEF WithinBudget, One
  <2>1. Len(told[u]) + One(Tells(rpc[Boot], u)) + One(HandlerTells(u))
          <= count.boots + One(latest > 0)
    BY DEF IInv, WithinBudget
  <2>2. ~HandlerTells(u)'
    BY <1>9 DEF HandlerTells, Tells
  <2>3. /\ One(HandlerTells(u)') = 0 /\ One(Tells(rpc[Boot], u)') <= 1
        /\ One(Tells(rpc[Boot], u)') \in Nat
        /\ One(Tells(rpc[Boot], u)) \in Nat /\ One(HandlerTells(u)) \in Nat
        /\ One(latest > 0) \in Nat /\ Len(told[u]) \in Nat
    BY <2>2 DEF One, IInv, TypeOK
  <2>4. Len(told[u]) <= count.boots + One(latest > 0)
    BY <1>5, <2>1, <2>3
  <2> QED
    BY <1>5, <2>3, <2>4
<1>12. StampsAreAccepted' /\ FirstAcceptAuditedOnce' /\ ResponsesAreCovered' /\ StampedWasTold'
  BY <1>1 DEF IInv, StampsAreAccepted, FirstAcceptAuditedOnce, ResponsesAreCovered,
              StampedWasTold
<1> QED
  BY <1>6, <1>7, <1>8, <1>10, <1>11, <1>12 DEF IInv

LEMMA StutterStep ==
  ASSUME IInv, UNCHANGED vars PROVE IInv'
<1>1. UNCHANGED <<playtest, latest, applicant, accepted, response, accepts, told, rpc, count>>
  BY DEF vars, tables
<1>2. TypeOK'
  BY <1>1 DEF IInv, TypeOK
<1>3. RequestsOK'
  BY <1>1 DEF IInv, RequestsOK, RequestOK, WasTold
<1>4. AuditIsOwed' /\ OnePublisher' /\ WithinBudget'
  BY <1>1 DEF IInv, AuditIsOwed, WillAudit, OnePublisher, Publishes,
              WithinBudget, HandlerTells, Tells, One
<1>5. StampsAreAccepted' /\ FirstAcceptAuditedOnce' /\ ResponsesAreCovered' /\ StampedWasTold'
  BY <1>1 DEF IInv, StampsAreAccepted, FirstAcceptAuditedOnce, ResponsesAreCovered,
              StampedWasTold
<1> QED
  BY <1>2, <1>3, <1>4, <1>5 DEF IInv

LEMMA NextIInv == IInv /\ [Next]_vars => IInv'
<1> SUFFICES ASSUME IInv, [Next]_vars PROVE IInv'
  OBVIOUS
<1>1. CASE UNCHANGED vars
  BY <1>1, StutterStep
<1>2. ASSUME NEW p \in Procs, Statement(p) PROVE IInv'
  <2>1. ASSUME SweepDone(p) PROVE IInv'
    BY <2>1, ReturnStep DEF SweepDone
  <2>2. ASSUME p = Boot /\ BootSweep PROVE IInv'
    BY <2>2, BootSweepStep
  <2> QED
    BY <1>2, <2>1, <2>2, InsertFirstStep, EditAsNewVersionStep, SetSurveyIDStep,
       AuditCreateStep, ListRecipientsStep, MarkSurveyDMSentStep, MarkFailsStep,
       EnqueueSurveyDMStep, EnqueueOverflowsStep, UpdateStep, LookupApplicantStep,
       AcceptIdempotentStep, SetNDAVersionHashStep, AuditAcceptStep, SubmitOnceStep,
       CheckSubmitStep
    DEF Statement
<1>3. ASSUME NEW p \in Procs, RequestFails(p) PROVE IInv'
  BY <1>3, ReturnStep DEF RequestFails
<1>4. ASSUME ClosePlaytest \/ SoftDelete PROVE IInv'
  BY <1>4, LifeStep DEF ClosePlaytest, SoftDelete
<1> QED
  BY <1>1, <1>2, <1>3, <1>4, CreateSurveyStep, EditSurveyStep, EditPlaytestStep,
     AcceptNDAStep, SubmitSurveyResponseStep, ApproveStep, RestartStep
  DEF Next

THEOREM Inductive == Spec => []IInv
<1>1. Init => IInv
  BY InitIInv
<1>2. IInv /\ [Next]_vars => IInv'
  BY NextIInv
<1> QED
  BY <1>1, <1>2, PTL DEF Spec

-----------------------------------------------------------------------------
(* The theorems.                                                           *)

\* Every variable has its type; the survey pointer names a version that exists and an NDA
\* that is required has a text, although EditPlaytest writes back a row it read before.
THEOREM TypeCorrect == Spec => []TypeOK
<1>1. IInv => TypeOK
  BY DEF IInv
<1> QED
  BY <1>1, Inductive, PTL

\* No interleaving of NDA edits, acceptances and submits stores an answer of a player who
\* is not approved, or whose submit was gated on a text they have not accepted.
THEOREM CoveredResponses == Spec => []ResponsesAreCovered
<1>1. IInv => ResponsesAreCovered
  BY DEF IInv
<1> QED
  BY <1>1, Inductive, PTL

\* The RETURNING of the idempotent insert makes one request owe the audit row.
THEOREM FirstAcceptOnce == Spec => []FirstAcceptAuditedOnce
<1>1. IInv => FirstAcceptAuditedOnce
  BY DEF IInv
<1> QED
  BY <1>1, Inductive, PTL

\* The survey DM is stamped after it is in the queue, never instead.
THEOREM StampFollowsDM == Spec => []StampedWasTold
<1>1. IInv => StampedWasTold
  BY DEF IInv
<1> QED
  BY <1>1, Inductive, PTL

\* One create publishes, each boot repeats it once: no other way to a second DM.
THEOREM PublishedOnce == Spec => []PublishedOncePerBoot
<1>1. IInv => PublishedOncePerBoot
  <2> SUFFICES ASSUME IInv, NEW u \in Users PROVE Len(told[u]) <= 1 + count.boots
    BY DEF PublishedOncePerBoot
  <2>1. Len(told[u]) + One(Tells(rpc[Boot], u)) + One(HandlerTells(u))
          <= count.boots + One(latest > 0)
    BY DEF IInv, WithinBudget
  <2>2. /\ One(Tells(rpc[Boot], u)) \in Nat /\ One(HandlerTells(u)) \in Nat
        /\ One(latest > 0) \in Nat /\ One(latest > 0) <= 1
        /\ Len(told[u]) \in Nat /\ count.boots \in Nat
    BY DEF One, IInv, TypeOK
  <2> QED
    BY <2>1, <2>2
<1> QED
  BY <1>1, Inductive, PTL

\* Whoever was second to submit has lost: a stored answer never changes.
THEOREM FinalResponses == Spec => ResponsesAreFinal
<1>1. Next => UNCHANGED response \/ \E p \in Procs : SubmitOnce(p)
  BY DEF Next, Statement, tables, Begin, Return, Goto,
         InsertFirst, EditAsNewVersion, SetSurveyID, AuditCreate, ListRecipients,
         MarkSurveyDMSent, MarkFails, SweepDone, EnqueueSurveyDM, EnqueueOverflows, Update,
         LookupApplicant, AcceptIdempotent, SetNDAVersionHash, AuditAccept, CheckSubmit,
         BootSweep, RequestFails, CreateSurvey, EditSurvey, EditPlaytest, AcceptNDA,
         SubmitSurveyResponse, Approve, Restart, ClosePlaytest, SoftDelete
<1>2. IInv /\ [Next]_vars =>
        [\A u \in Users : response[u] # None => response'[u] = response[u]]_vars
  <2> SUFFICES ASSUME IInv, Next
               PROVE  \A u \in Users : response[u] # None => response'[u] = response[u]
    OBVIOUS
  <2>1. CASE UNCHANGED response
    BY <2>1
  <2>2. CASE \E p \in Procs : SubmitOnce(p)
    BY <2>2 DEF SubmitOnce, CanInsert, IInv, TypeOK
  <2> QED
    BY <1>1, <2>1, <2>2
<1> QED
  BY <1>2, Inductive, PTL DEF Spec, ResponsesAreFinal
=============================================================================
