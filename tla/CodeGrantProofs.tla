--------------------------- MODULE CodeGrantProofs ---------------------------
(***************************************************************************)
(* Theorems about CodeGrant for every number of players, codes, concurrent *)
(* requests and limits.                                                    *)
(***************************************************************************)
EXTENDS CodeGrant, FiniteSetTheorems, TLAPS

-----------------------------------------------------------------------------
(* The inductive invariant: what each program counter knows.               *)

\* What the fields of a request are at each point of its handler.
RequestOK(r) ==
  /\ r.pc = "idle" => r = Idle
  /\ r.pc # "idle" => r.user \in Users /\ r.op \in Ops
  /\ r.pc \in {"insert", "lock"} => r.op = "signup"
  /\ r.pc = "resolve" => r.op = "approve" /\ ~Pooled
  /\ r.pc \in {"reserve", "finalize"} => r.op \in {"signup", "approve"} /\ Pooled
  /\ r.pc = "enqueue" => r.op \in {"signup", "approve"}
  /\ r.codeW = IF r.pc = "finalize" THEN "RESERVED"
               ELSE IF r.pc \in {"cas", "commit"} /\ Pooled /\ r.op # "reject"
                    THEN "GRANTED" ELSE "none"
  /\ IF r.codeW = "none" THEN r.pick = None ELSE r.pick \in Codes
  /\ r.appW = IF r.pc # "commit" THEN "none"
              ELSE IF r.op = "reject" THEN "REJECTED" ELSE "APPROVED"

RequestsOK == \A h \in Handlers : RequestOK(rpc[h])

\* A code row a transaction has written is UNUSED to everybody else, and is its own.
CodeLocksHold ==
  \A h \in Handlers : rpc[h].codeW # "none" =>
    /\ code[rpc[h].pick].state = "UNUSED"
    /\ \A g \in Handlers \ {h} : rpc[g].codeW # "none" => rpc[g].pick # rpc[h].pick

\* An applicant row a transaction has written is PENDING to everybody else, and its own.
ApplicantLocksHold ==
  \A h \in Handlers : rpc[h].appW # "none" =>
    /\ applicant[rpc[h].user].status = "PENDING"
    /\ \A g \in Handlers \ {h} : rpc[g].appW # "none" => rpc[g].user # rpc[h].user

\* auto_approved is set by an approval only.
AutoIsApproved == \A u \in Users : applicant[u].auto => applicant[u].status = "APPROVED"

\* pg_advisory_xact_lock admits one auto-approve transaction at a time.
AutoTxAlone == \A g, h \in Handlers : InAutoTx(g) /\ InAutoTx(h) => g = h

IInv ==
  /\ TypeOK
  /\ RequestsOK
  /\ CodeLocksHold
  /\ ApplicantLocksHold
  /\ AutoIsApproved
  /\ AutoTxAlone
  /\ ReservationNeverCommitted
  /\ FenceNeverMisses
  /\ GrantsMatch
  /\ CountStaysUnderCap

-----------------------------------------------------------------------------
(* Initial states.                                                         *)

LEMMA NoneIsFresh == None \notin Users /\ None \notin Codes /\ None \notin Limits
  BY NoneIsNothing

LEMMA InitIInv == Init => IInv
<1> SUFFICES ASSUME Init PROVE IInv
  OBVIOUS
<1>1. TypeOK
  BY DEF Init, TypeOK, Requests, Idle, InAutoTx, Statuses, Pcs, Ops
<1>2. RequestsOK
  BY DEF Init, RequestsOK, RequestOK, Idle
<1>3. CodeLocksHold /\ ApplicantLocksHold
  BY DEF Init, CodeLocksHold, ApplicantLocksHold, Idle
<1>4. AutoIsApproved /\ AutoTxAlone /\ CountStaysUnderCap
  BY DEF Init, AutoIsApproved, AutoTxAlone, CountStaysUnderCap, InAutoTx, Idle
<1>5. ReservationNeverCommitted /\ FenceNeverMisses
  BY DEF Init, ReservationNeverCommitted, FenceNeverMisses
<1>6. GrantsMatch
  BY NoneIsFresh DEF Init, GrantsMatch
<1> QED
  BY <1>1, <1>2, <1>3, <1>4, <1>5, <1>6 DEF IInv

-----------------------------------------------------------------------------
(* Steps that change one request and nothing it has to agree with.         *)

\* The request may drop its writes and its advisory lock, but takes none.
LEMMA QuietStep ==
  ASSUME IInv, NEW h \in Handlers, NEW r \in Requests,
         rpc' = [rpc EXCEPT ![h] = r],
         RequestOK(r),
         r.codeW # "none" => rpc[h].codeW # "none" /\ r.pick = rpc[h].pick,
         r.appW # "none" => rpc[h].appW # "none" /\ r.user = rpc[h].user,
         r.op = "signup" /\ r.pc \in {"reserve", "finalize", "cas", "commit"}
           => InAutoTx(h) /\ r.cap = rpc[h].cap,
         r.pc = "lock" => r.cap \in Limits,
         UNCHANGED <<playtest, applicant, code, orphaned>>,
         audit' \in [Users -> [AuditActions -> Nat]],
         welcomed' \in [Users -> Nat]
  PROVE  IInv'
<1> USE DEF IInv
<1>1. /\ \A g \in Handlers \ {h} : rpc'[g] = rpc[g]
      /\ rpc'[h] = r
      /\ rpc' \in [Handlers -> Requests]
  BY DEF TypeOK
<1>2. \A g \in Handlers : InAutoTx(g)' => InAutoTx(g) /\ rpc'[g].cap = rpc[g].cap
  BY <1>1 DEF InAutoTx
<1>3. TypeOK'
  <2>1. \A g \in Handlers : rpc'[g].pc = "lock" \/ InAutoTx(g)' => rpc'[g].cap \in Limits
    BY <1>1, <1>2 DEF TypeOK
  <2> QED
    BY <1>1, <2>1 DEF TypeOK
<1>4. RequestsOK'
  BY <1>1 DEF RequestsOK, RequestOK
<1>5. CodeLocksHold'
  BY <1>1 DEF CodeLocksHold
<1>6. ApplicantLocksHold'
  BY <1>1 DEF ApplicantLocksHold
<1>7. AutoTxAlone'
  BY <1>2 DEF AutoTxAlone
<1>8. CountStaysUnderCap'
  BY <1>2 DEF CountStaysUnderCap, AutoApproved
<1>9. AutoIsApproved' /\ ReservationNeverCommitted' /\ FenceNeverMisses' /\ GrantsMatch'
  BY DEF AutoIsApproved, ReservationNeverCommitted, FenceNeverMisses, GrantsMatch
<1> QED
  BY <1>3, <1>4, <1>5, <1>6, <1>7, <1>8, <1>9

LEMMA ReturnStep ==
  ASSUME IInv, NEW h \in Handlers, Return(h),
         UNCHANGED <<playtest, applicant, code, orphaned>>,
         audit' \in [Users -> [AuditActions -> Nat]],
         welcomed' \in [Users -> Nat]
  PROVE  IInv'
<1>1. Idle \in Requests /\ RequestOK(Idle)
  BY DEF Requests, Pcs, Idle, RequestOK
<1> QED
  BY <1>1, QuietStep DEF Return, Idle

LEMMA SignupReadStep ==
  ASSUME IInv, NEW h \in Handlers, NEW u \in Users, SignupRead(h, u) PROVE IInv'
<1> DEFINE r == [Idle EXCEPT !.pc = "insert", !.op = "signup", !.user = u,
                             !.cap = playtest.cap]
<1>1. r \in Requests /\ RequestOK(r)
  BY DEF IInv, TypeOK, Requests, RequestOK, Pcs, Ops, Idle
<1>2. rpc' = [rpc EXCEPT ![h] = r]
  BY DEF SignupRead
<1> QED
  BY <1>1, <1>2, QuietStep DEF SignupRead, IInv, TypeOK, Idle

LEMMA StartStep ==
  ASSUME IInv, NEW h \in Handlers, NEW u \in Users, NEW op \in {"approve", "reject"},
         Start(h, op, u),
         UNCHANGED <<playtest, applicant, code, audit, orphaned, welcomed>>
  PROVE  IInv'
<1> DEFINE r == [Idle EXCEPT !.op = op, !.user = u,
                             !.pc = IF op = "reject" THEN "cas"
                                    ELSE IF Pooled THEN "reserve" ELSE "resolve"]
<1>1. r \in Requests /\ RequestOK(r)
  BY PooledIsBool DEF IInv, TypeOK, Requests, RequestOK, Pcs, Ops, Idle
<1>2. rpc' = [rpc EXCEPT ![h] = r]
  BY DEF Start
<1> QED
  BY <1>1, <1>2, QuietStep DEF IInv, TypeOK, Idle

\* The request moves on to p and keeps everything else.
LEMMA GotoStep ==
  ASSUME IInv, NEW h \in Handlers, NEW p \in Pcs, Goto(h, p),
         RequestOK([rpc[h] EXCEPT !.pc = p]),
         InAutoTx(h) \/ p \notin {"lock", "reserve", "finalize", "cas", "commit"}
           \/ rpc[h].op # "signup",
         p # "lock",
         UNCHANGED <<playtest, applicant, code, orphaned>>,
         audit' \in [Users -> [AuditActions -> Nat]],
         welcomed' \in [Users -> Nat]
  PROVE  IInv'
<1> DEFINE r == [rpc[h] EXCEPT !.pc = p]
<1>a. rpc[h] \in Requests
  BY DEF IInv, TypeOK
<1>1. r \in Requests /\ rpc' = [rpc EXCEPT ![h] = r]
  BY <1>a DEF Requests, Goto
<1>2. /\ r.codeW = rpc[h].codeW /\ r.pick = rpc[h].pick /\ r.appW = rpc[h].appW
      /\ r.user = rpc[h].user /\ r.op = rpc[h].op /\ r.cap = rpc[h].cap /\ r.pc = p
  BY <1>a DEF Requests
<1>3. RequestOK(r)
  OBVIOUS
<1> HIDE DEF r
<1>4. r.op = "signup" /\ r.pc \in {"reserve", "finalize", "cas", "commit"} => InAutoTx(h)
  BY <1>2
<1>5. (r.codeW # "none" => rpc[h].codeW # "none") /\ (r.appW # "none" => rpc[h].appW # "none")
  BY <1>2
<1> QED
  BY <1>1, <1>2, <1>3, <1>4, <1>5, QuietStep

LEMMA ResolveURLStep == ASSUME IInv, NEW h \in Handlers, ResolveURL(h) PROVE IInv'
<1>1. CASE Return(h)
  BY <1>1, ReturnStep DEF ResolveURL, IInv, TypeOK
<1>2. CASE Goto(h, "cas")
  <2>1. RequestOK([rpc[h] EXCEPT !.pc = "cas"]) /\ rpc[h].op = "approve"
    BY DEF ResolveURL, IInv, TypeOK, Requests, RequestsOK, RequestOK, Ops
  <2> QED
    BY <1>2, <2>1, GotoStep DEF ResolveURL, IInv, TypeOK, Pcs
<1> QED
  BY <1>1, <1>2 DEF ResolveURL

LEMMA FencedFinalizeStep == ASSUME IInv, NEW h \in Handlers, FencedFinalize(h) PROVE IInv'
<1> DEFINE r == [rpc[h] EXCEPT !.pc = "cas", !.codeW = "GRANTED"]
<1>1. OwnReservation(h) /\ rpc' = [rpc EXCEPT ![h] = r] /\ orphaned' = orphaned
  BY DEF FencedFinalize, OwnReservation, IInv, TypeOK, RequestsOK, RequestOK, Requests
<1>a. rpc[h] \in Requests
  BY DEF IInv, TypeOK
<1>2. r \in Requests /\ RequestOK(r)
  <2>1. r \in Requests
    BY <1>a DEF Requests, Pcs
  <2>2. r.pc = "cas" /\ r.codeW = "GRANTED" /\ r.appW = rpc[h].appW /\ r.op = rpc[h].op
        /\ r.pick = rpc[h].pick /\ r.user = rpc[h].user
    BY <1>a DEF Requests
  <2> HIDE DEF r
  <2> QED
    BY <2>1, <2>2 DEF FencedFinalize, IInv, RequestsOK, RequestOK
<1>3. /\ r.pick = rpc[h].pick /\ r.appW = "none" /\ rpc[h].codeW # "none"
      /\ r.op = rpc[h].op /\ r.cap = rpc[h].cap /\ r.pc = "cas"
      /\ r.op = "signup" => InAutoTx(h)
  BY <1>a DEF FencedFinalize, IInv, RequestsOK, RequestOK, Requests, InAutoTx
<1> HIDE DEF r
<1> QED
  BY <1>1, <1>2, <1>3, QuietStep DEF FencedFinalize, IInv, TypeOK

LEMMA AfterCommitStep ==
  ASSUME IInv, NEW h \in Handlers,
         AppendAudit(h) \/ AuditFails(h) \/ EnqueueWelcome(h) \/ WelcomeSkipped(h)
  PROVE  IInv'
<1>1. /\ UNCHANGED <<playtest, applicant, code, orphaned>>
      /\ rpc[h].user \in Users /\ rpc[h].op \in Ops
      /\ Return(h) \/ (rpc[h].pc = "audit" /\ rpc[h].op # "reject" /\ Goto(h, "enqueue"))
  <2>1. rpc[h].pc \in {"audit", "enqueue"} /\ UNCHANGED <<playtest, applicant, code, orphaned>>
    BY DEF AppendAudit, AuditFails, EnqueueWelcome, WelcomeSkipped
  <2>2. rpc[h].user \in Users /\ rpc[h].op \in Ops
    BY <2>1 DEF IInv, RequestsOK, RequestOK
  <2>3. Return(h) \/ (rpc[h].pc = "audit" /\ rpc[h].op # "reject" /\ Goto(h, "enqueue"))
    BY DEF AppendAudit, AuditFails, AfterAuditFailure, EnqueueWelcome, WelcomeSkipped
  <2> QED
    BY <2>1, <2>2, <2>3
<1>2. audit' \in [Users -> [AuditActions -> Nat]] /\ welcomed' \in [Users -> Nat]
  <2>1. ActionOf(rpc[h].op) \in AuditActions
    BY <1>1 DEF ActionOf, AuditActions, Ops
  <2>2. AppendAudit(h) => audit' \in [Users -> [AuditActions -> Nat]]
    BY <1>1, <2>1 DEF AppendAudit, IInv, TypeOK
  <2> QED
    BY <1>1, <2>2 DEF AppendAudit, AuditFails, EnqueueWelcome, WelcomeSkipped, IInv, TypeOK
<1>3. CASE Return(h)
  BY <1>1, <1>2, <1>3, ReturnStep
<1>4. CASE rpc[h].pc = "audit" /\ rpc[h].op # "reject" /\ Goto(h, "enqueue")
  <2>1. RequestOK([rpc[h] EXCEPT !.pc = "enqueue"])
    BY <1>1, <1>4 DEF IInv, TypeOK, Requests, RequestsOK, RequestOK, Ops
  <2> QED
    BY <1>1, <1>2, <1>4, <2>1, GotoStep DEF Pcs
<1> QED
  BY <1>1, <1>3, <1>4

-----------------------------------------------------------------------------
(* Steps that take a lock or write a table.                                *)

LEMMA CountIsNat == ASSUME TypeOK PROVE Cardinality(AutoApproved) \in Nat
<1>1. IsFiniteSet(AutoApproved)
  BY UsersAreFinite, FS_Subset DEF AutoApproved
<1> QED
  BY <1>1, FS_CardinalityType

LEMMA InsertWinsStep == ASSUME IInv, NEW h \in Handlers, InsertWins(h) PROVE IInv'
<1> DEFINE u == rpc[h].user
           q == IF AfterInsert(h) = "lock" THEN [rpc[h] EXCEPT !.pc = "lock"] ELSE Idle
<1>1. u \in Users /\ rpc[h].op = "signup" /\ applicant[u].status = "NONE"
      /\ rpc[h].codeW = "none" /\ rpc[h].appW = "none"
  BY DEF InsertWins, IInv, RequestsOK, RequestOK
<1>2. rpc' = [rpc EXCEPT ![h] = q]
  BY DEF InsertWins, Goto, Return
<1>3. q \in Requests /\ RequestOK(q) /\ q.codeW = "none" /\ q.appW = "none"
      /\ q.pc \in {"lock", "idle"} /\ (q.pc = "lock" => q.cap \in Limits)
  BY <1>1 DEF InsertWins, AfterInsert, IInv, TypeOK, RequestsOK, RequestOK, Requests, Pcs, Idle
<1> HIDE DEF q
<1>4. /\ \A g \in Handlers \ {h} : rpc'[g] = rpc[g]
      /\ rpc'[h] = q
      /\ rpc' \in [Handlers -> Requests]
  BY <1>2, <1>3 DEF IInv, TypeOK
<1>5. /\ \A v \in Users \ {u} : applicant'[v] = applicant[v]
      /\ applicant'[u].status = "PENDING"
      /\ applicant'[u].code = applicant[u].code
      /\ applicant'[u].auto = applicant[u].auto
      /\ applicant' \in [Users -> [status : Statuses, code : Codes \cup {None},
                                   auto : BOOLEAN]]
  <2>1. applicant' = [applicant EXCEPT ![u] = [applicant[u] EXCEPT !.status = "PENDING"]]
    BY DEF InsertWins
  <2>2. applicant[u] \in [status : Statuses, code : Codes \cup {None}, auto : BOOLEAN]
    BY <1>1 DEF IInv, TypeOK
  <2>3. [applicant[u] EXCEPT !.status = "PENDING"]
           \in [status : Statuses, code : Codes \cup {None}, auto : BOOLEAN]
    BY <2>2 DEF Statuses
  <2> QED
    BY <1>1, <2>1, <2>2, <2>3 DEF IInv, TypeOK
<1>6. \A g \in Handlers : InAutoTx(g)' => g # h /\ InAutoTx(g) /\ rpc'[g] = rpc[g]
  BY <1>3, <1>4 DEF InAutoTx
<1>7. UNCHANGED <<playtest, code, audit, orphaned, welcomed>>
  BY DEF InsertWins
<1>8. TypeOK'
  BY <1>3, <1>4, <1>5, <1>6, <1>7 DEF IInv, TypeOK
<1>9. RequestsOK'
  BY <1>3, <1>4 DEF IInv, RequestsOK, RequestOK
<1>10. CodeLocksHold' /\ ApplicantLocksHold'
  BY <1>1, <1>3, <1>4, <1>5, <1>7 DEF IInv, CodeLocksHold, ApplicantLocksHold, RequestsOK, RequestOK
<1>11. AutoIsApproved' /\ AutoTxAlone'
  BY <1>1, <1>5, <1>6 DEF IInv, AutoIsApproved, AutoTxAlone
<1>12. ReservationNeverCommitted' /\ FenceNeverMisses'
  BY <1>7 DEF IInv, ReservationNeverCommitted, FenceNeverMisses
<1>13. GrantsMatch'
  BY <1>1, <1>5, <1>7 DEF IInv, GrantsMatch
<1>14. CountStaysUnderCap'
  <2>1. AutoApproved' = AutoApproved
    BY <1>5 DEF AutoApproved
  <2> QED
    BY <1>6, <2>1 DEF IInv, CountStaysUnderCap
<1> QED
  BY <1>8, <1>9, <1>10, <1>11, <1>12, <1>13, <1>14 DEF IInv

LEMMA LockAndCountStep == ASSUME IInv, NEW h \in Handlers, LockAndCount(h) PROVE IInv'
<1>1. CASE Return(h)
  BY <1>1, ReturnStep DEF LockAndCount, IInv, TypeOK
<1>2. CASE ~Return(h)
  <2> DEFINE p == IF Pooled THEN "reserve" ELSE "cas"
             r == [rpc[h] EXCEPT !.pc = p]
  <2>1. /\ rpc[h].pc = "lock" /\ rpc[h].op = "signup" /\ rpc[h].user \in Users
        /\ rpc[h].codeW = "none" /\ rpc[h].appW = "none" /\ rpc[h].pick = None
        /\ rpc[h].cap \in Limits
    BY DEF LockAndCount, IInv, TypeOK, RequestsOK, RequestOK
  <2>2. /\ \A g \in Handlers \ {h} : ~InAutoTx(g)
        /\ Cardinality(AutoApproved) < rpc[h].cap
    <3>1. Cardinality(AutoApproved) \in Nat /\ rpc[h].cap \in Nat
      BY <2>1, CountIsNat, LimitsAreNat DEF IInv
    <3> QED
      BY <1>2, <3>1 DEF LockAndCount, AdvisoryFree
  <2>3. rpc' = [rpc EXCEPT ![h] = r]
    BY <1>2 DEF LockAndCount, Goto
  <2>4. rpc[h] \in Requests /\ p \in Pcs
    BY DEF IInv, TypeOK, Pcs
  <2>5. /\ r \in Requests /\ r.pc = p /\ r.op = "signup" /\ r.user \in Users
        /\ r.codeW = "none" /\ r.appW = "none" /\ r.pick = None /\ r.cap = rpc[h].cap
    BY <2>1, <2>4 DEF Requests
  <2> HIDE DEF r
  <2>6. /\ \A g \in Handlers \ {h} : rpc'[g] = rpc[g]
        /\ rpc'[h] = r
        /\ rpc' \in [Handlers -> Requests]
    BY <2>3, <2>5 DEF IInv, TypeOK
  <2>7. UNCHANGED <<playtest, applicant, code, audit, orphaned, welcomed>>
    BY DEF LockAndCount
  <2>8. \A g \in Handlers : InAutoTx(g)' => g = h
    BY <2>2, <2>6 DEF InAutoTx
  <2>9. TypeOK'
    BY <2>1, <2>5, <2>6, <2>7, <2>8 DEF IInv, TypeOK
  <2>10. RequestsOK'
    <3>1. RequestOK(r)
      BY <2>5, PooledIsBool DEF RequestOK, Ops
    <3> QED
      BY <2>6, <3>1 DEF IInv, RequestsOK, RequestOK
  <2>11. CodeLocksHold' /\ ApplicantLocksHold'
    BY <2>5, <2>6, <2>7 DEF IInv, CodeLocksHold, ApplicantLocksHold
  <2>12. AutoTxAlone'
    BY <2>8 DEF AutoTxAlone
  <2>13. CountStaysUnderCap'
    BY <2>2, <2>5, <2>6, <2>7, <2>8 DEF CountStaysUnderCap, AutoApproved
  <2>14. AutoIsApproved' /\ ReservationNeverCommitted' /\ FenceNeverMisses' /\ GrantsMatch'
    BY <2>7 DEF IInv, AutoIsApproved, ReservationNeverCommitted, FenceNeverMisses, GrantsMatch
  <2> QED
    BY <2>9, <2>10, <2>11, <2>12, <2>13, <2>14 DEF IInv
<1> QED
  BY <1>1, <1>2

LEMMA ReserveStep == ASSUME IInv, NEW h \in Handlers, Reserve(h) PROVE IInv'
<1>1. PICK c \in Codes : Reservable(c) /\ ReserveInTx(h, c)
  BY DEF Reserve
<1> DEFINE r == [rpc[h] EXCEPT !.pc = "finalize", !.pick = c, !.codeW = "RESERVED"]
<1>2. /\ rpc[h].pc = "reserve" /\ rpc[h].op \in {"signup", "approve"}
      /\ rpc[h].user \in Users /\ rpc[h].appW = "none" /\ Pooled
  BY DEF Reserve, IInv, RequestsOK, RequestOK
<1>3. rpc' = [rpc EXCEPT ![h] = r]
  BY <1>1 DEF ReserveInTx
<1>4. rpc[h] \in Requests
  BY DEF IInv, TypeOK
<1>5. /\ r \in Requests /\ r.pc = "finalize" /\ r.op = rpc[h].op
      /\ r.user = rpc[h].user /\ r.codeW = "RESERVED" /\ r.appW = "none"
      /\ r.pick = c /\ r.cap = rpc[h].cap
  BY <1>2, <1>4 DEF Requests, Pcs
<1> HIDE DEF r
<1>6. /\ \A g \in Handlers \ {h} : rpc'[g] = rpc[g]
      /\ rpc'[h] = r
      /\ rpc' \in [Handlers -> Requests]
  BY <1>3, <1>5 DEF IInv, TypeOK
<1>7. UNCHANGED <<playtest, applicant, code, audit, orphaned, welcomed>>
  BY <1>1 DEF Reserve, ReserveInTx
<1>8. \A g \in Handlers : InAutoTx(g)' => InAutoTx(g) /\ rpc'[g].cap = rpc[g].cap
  BY <1>2, <1>5, <1>6 DEF InAutoTx
<1>9. TypeOK'
  <2>1. \A g \in Handlers : rpc'[g].pc = "lock" \/ InAutoTx(g)' => rpc'[g].cap \in Limits
    BY <1>5, <1>6, <1>8 DEF IInv, TypeOK
  <2> QED
    BY <1>6, <1>7, <2>1 DEF IInv, TypeOK
<1>10. RequestsOK'
  <2>1. RequestOK(r)
    BY <1>2, <1>5 DEF RequestOK, Ops
  <2> QED
    BY <1>6, <2>1 DEF IInv, RequestsOK, RequestOK
<1>11. CodeLocksHold'
  <2>1. code[c].state = "UNUSED" /\ \A g \in Handlers : rpc[g].codeW # "none" => rpc[g].pick # c
    BY <1>1 DEF Reservable, CodeLocked
  <2> QED
    BY <1>5, <1>6, <1>7, <2>1 DEF IInv, CodeLocksHold
<1>12. ApplicantLocksHold'
  BY <1>5, <1>6, <1>7 DEF IInv, ApplicantLocksHold
<1>13. AutoTxAlone' /\ CountStaysUnderCap'
  BY <1>7, <1>8 DEF IInv, AutoTxAlone, CountStaysUnderCap, AutoApproved
<1>14. AutoIsApproved' /\ ReservationNeverCommitted' /\ FenceNeverMisses' /\ GrantsMatch'
  BY <1>7 DEF IInv, AutoIsApproved, ReservationNeverCommitted, FenceNeverMisses, GrantsMatch
<1> QED
  BY <1>9, <1>10, <1>11, <1>12, <1>13, <1>14 DEF IInv

LEMMA StatusCASStep == ASSUME IInv, NEW h \in Handlers, StatusCAS(h) PROVE IInv'
<1>1. CASE Return(h)
  BY <1>1, ReturnStep DEF StatusCAS, IInv, TypeOK
<1>2. CASE ~Return(h)
  <2> DEFINE w == IF rpc[h].op = "reject" THEN "REJECTED" ELSE "APPROVED"
             r == [rpc[h] EXCEPT !.pc = "commit", !.appW = w]
  <2>1. /\ rpc[h].pc = "cas" /\ rpc[h].op \in Ops /\ rpc[h].user \in Users
        /\ rpc[h].appW = "none" /\ StillPending(rpc[h].user)
        /\ ~ApplicantLocked(rpc[h].user)
    BY <1>2 DEF StatusCAS, AfterMismatch, IInv, RequestsOK, RequestOK
  <2>2. rpc' = [rpc EXCEPT ![h] = r]
    BY <1>2, <2>1 DEF StatusCAS, AfterMismatch
  <2>3. rpc[h] \in Requests
    BY DEF IInv, TypeOK
  <2>4. /\ r \in Requests /\ r.pc = "commit" /\ r.op = rpc[h].op
        /\ r.user = rpc[h].user /\ r.codeW = rpc[h].codeW /\ r.appW = w
        /\ r.pick = rpc[h].pick /\ r.cap = rpc[h].cap
    BY <2>3 DEF Requests, Pcs
  <2> HIDE DEF r
  <2>5. /\ \A g \in Handlers \ {h} : rpc'[g] = rpc[g]
        /\ rpc'[h] = r
        /\ rpc' \in [Handlers -> Requests]
    BY <2>2, <2>4 DEF IInv, TypeOK
  <2>6. UNCHANGED <<playtest, applicant, code, audit, orphaned, welcomed>>
    BY DEF StatusCAS
  <2>7. \A g \in Handlers : InAutoTx(g)' => InAutoTx(g) /\ rpc'[g].cap = rpc[g].cap
    BY <2>1, <2>4, <2>5 DEF InAutoTx
  <2>8. TypeOK'
    <3>1. \A g \in Handlers : rpc'[g].pc = "lock" \/ InAutoTx(g)' => rpc'[g].cap \in Limits
      BY <2>4, <2>5, <2>7 DEF IInv, TypeOK
    <3> QED
      BY <2>5, <2>6, <3>1 DEF IInv, TypeOK
  <2>9. RequestsOK'
    <3>1. RequestOK(r)
      BY <2>1, <2>4 DEF IInv, RequestsOK, RequestOK, Ops
    <3> QED
      BY <2>5, <3>1 DEF IInv, RequestsOK, RequestOK
  <2>10. CodeLocksHold'
    BY <2>4, <2>5, <2>6 DEF IInv, CodeLocksHold
  <2>11. ApplicantLocksHold'
    <3>1. /\ applicant[rpc[h].user].status = "PENDING"
          /\ \A g \in Handlers : rpc[g].appW # "none" => rpc[g].user # rpc[h].user
      BY <2>1 DEF StillPending, ApplicantLocked
    <3> QED
      BY <2>4, <2>5, <2>6, <3>1 DEF IInv, ApplicantLocksHold
  <2>12. AutoTxAlone' /\ CountStaysUnderCap'
    BY <2>6, <2>7 DEF IInv, AutoTxAlone, CountStaysUnderCap, AutoApproved
  <2>13. AutoIsApproved' /\ ReservationNeverCommitted' /\ FenceNeverMisses' /\ GrantsMatch'
    BY <2>6 DEF IInv, AutoIsApproved, ReservationNeverCommitted, FenceNeverMisses, GrantsMatch
  <2> QED
    BY <2>8, <2>9, <2>10, <2>11, <2>12, <2>13 DEF IInv
<1> QED
  BY <1>1, <1>2

\* What a transaction that reaches its commit is about to publish.
LEMMA CommitFacts ==
  ASSUME IInv, NEW h \in Handlers, Commit(h)
  PROVE  LET r == rpc[h] IN
         /\ r.user \in Users /\ r.op \in Ops
         /\ applicant[r.user].status = "PENDING"
         /\ applicant[r.user].code = None /\ ~applicant[r.user].auto
         /\ r.appW = IF r.op = "reject" THEN "REJECTED" ELSE "APPROVED"
         /\ r.codeW = IF Pooled /\ r.op # "reject" THEN "GRANTED" ELSE "none"
         /\ IF r.codeW = "none" THEN r.pick = None
            ELSE r.pick \in Codes /\ code[r.pick].state = "UNUSED"
<1>1. /\ rpc[h].pc = "commit" /\ rpc[h].user \in Users /\ rpc[h].op \in Ops
      /\ rpc[h].appW = (IF rpc[h].op = "reject" THEN "REJECTED" ELSE "APPROVED")
      /\ rpc[h].codeW = (IF Pooled /\ rpc[h].op # "reject" THEN "GRANTED" ELSE "none")
      /\ IF rpc[h].codeW = "none" THEN rpc[h].pick = None ELSE rpc[h].pick \in Codes
  BY DEF Commit, IInv, RequestsOK, RequestOK
<1>2. applicant[rpc[h].user].status = "PENDING"
  BY <1>1 DEF IInv, ApplicantLocksHold
<1>3. applicant[rpc[h].user].code = None /\ ~applicant[rpc[h].user].auto
  BY <1>1, <1>2 DEF IInv, TypeOK, GrantsMatch, AutoIsApproved
<1>4. rpc[h].codeW # "none" => code[rpc[h].pick].state = "UNUSED"
  BY DEF IInv, CodeLocksHold
<1> QED
  BY <1>1, <1>2, <1>3, <1>4

LEMMA CommitStep == ASSUME IInv, NEW h \in Handlers, Commit(h) PROVE IInv'
<1> DEFINE u == rpc[h].user
           c == rpc[h].pick
           a == IF rpc[h].appW = "APPROVED"
                THEN [status |-> "APPROVED", code |-> c, auto |-> rpc[h].op = "signup"]
                ELSE [status |-> "REJECTED", code |-> None, auto |-> FALSE]
           r == [Idle EXCEPT !.pc = "audit", !.op = rpc[h].op, !.user = u]
<1>1. /\ u \in Users /\ rpc[h].op \in Ops /\ rpc[h].pc = "commit"
      /\ applicant[u].status = "PENDING" /\ applicant[u].code = None /\ ~applicant[u].auto
      /\ rpc[h].appW = (IF rpc[h].op = "reject" THEN "REJECTED" ELSE "APPROVED")
      /\ rpc[h].codeW = (IF Pooled /\ rpc[h].op # "reject" THEN "GRANTED" ELSE "none")
      /\ IF rpc[h].codeW = "none" THEN c = None
         ELSE c \in Codes /\ code[c].state = "UNUSED"
  BY CommitFacts DEF Commit
<1>2. applicant' = [applicant EXCEPT ![u] = a] /\ rpc' = [rpc EXCEPT ![h] = r]
      /\ UNCHANGED <<playtest, audit, orphaned, welcomed>>
  BY DEF Commit
<1>3. /\ r \in Requests /\ RequestOK(r) /\ r.pc = "audit"
      /\ r.codeW = "none" /\ r.appW = "none"
  BY <1>1 DEF Requests, Pcs, Ops, Idle, RequestOK
<1>4. /\ a \in [status : Statuses, code : Codes \cup {None}, auto : BOOLEAN]
      /\ a.status = rpc[h].appW
      /\ a.code = c
      /\ a.auto <=> rpc[h].op = "signup"
  BY <1>1 DEF Statuses, Ops
<1> HIDE DEF a, r
<1>5. /\ \A g \in Handlers \ {h} : rpc'[g] = rpc[g]
      /\ rpc'[h] = r
      /\ rpc' \in [Handlers -> Requests]
  BY <1>2, <1>3 DEF IInv, TypeOK
<1>6. /\ \A v \in Users \ {u} : applicant'[v] = applicant[v]
      /\ applicant'[u] = a
      /\ applicant' \in [Users -> [status : Statuses, code : Codes \cup {None},
                                   auto : BOOLEAN]]
  BY <1>1, <1>2, <1>4 DEF IInv, TypeOK
<1>7. /\ code' \in [Codes -> [state : {"ABSENT", "UNUSED", "RESERVED", "GRANTED"},
                              by : Users \cup {None}, tx : Handlers \cup {None}]]
      /\ \A d \in Codes : d # c => code'[d] = code[d]
      /\ rpc[h].codeW = "none" => code' = code
      /\ rpc[h].codeW # "none" => code'[c].state = "GRANTED" /\ code'[c].by = u
  <2>1. CASE rpc[h].codeW = "none"
    BY <1>1, <2>1 DEF Commit, IInv, TypeOK
  <2>2. CASE rpc[h].codeW = "GRANTED"
    BY <1>1, <2>2 DEF Commit, IInv, TypeOK
  <2> QED
    BY <1>1, <2>1, <2>2
<1>8. \A g \in Handlers : InAutoTx(g)' => g # h /\ InAutoTx(g) /\ rpc'[g] = rpc[g]
  BY <1>3, <1>5 DEF InAutoTx
<1>9. TypeOK'
  <2>1. \A g \in Handlers : rpc'[g].pc = "lock" \/ InAutoTx(g)' => rpc'[g].cap \in Limits
    BY <1>3, <1>5, <1>8 DEF IInv, TypeOK
  <2> QED
    BY <1>2, <1>5, <1>6, <1>7, <2>1 DEF IInv, TypeOK
<1>10. RequestsOK'
  BY <1>3, <1>5 DEF IInv, RequestsOK, RequestOK
<1>11. CodeLocksHold'
  <2>1. ASSUME NEW g \in Handlers \ {h}, rpc[g].codeW # "none"
        PROVE  code'[rpc[g].pick].state = "UNUSED"
    <3>1. rpc[g].pick # c /\ rpc[g].pick \in Codes /\ code[rpc[g].pick].state = "UNUSED"
      BY <1>1, <2>1, NoneIsFresh DEF IInv, CodeLocksHold, RequestsOK, RequestOK
    <3> QED
      BY <1>7, <3>1
  <2> QED
    BY <1>3, <1>5, <2>1 DEF IInv, CodeLocksHold
<1>12. ApplicantLocksHold'
  <2>1. ASSUME NEW g \in Handlers \ {h}, rpc[g].appW # "none"
        PROVE  applicant'[rpc[g].user].status = "PENDING"
    <3>1. /\ rpc[g].user # u /\ rpc[g].user \in Users
          /\ applicant[rpc[g].user].status = "PENDING"
      BY <1>1, <2>1 DEF IInv, ApplicantLocksHold, RequestsOK, RequestOK, Idle
    <3> QED
      BY <1>6, <3>1
  <2> QED
    BY <1>3, <1>5, <2>1 DEF IInv, ApplicantLocksHold
<1>13. AutoIsApproved'
  BY <1>1, <1>4, <1>6 DEF IInv, AutoIsApproved, Ops
<1>14. AutoTxAlone'
  BY <1>8 DEF IInv, AutoTxAlone
<1>15. ReservationNeverCommitted' /\ FenceNeverMisses'
  BY <1>1, <1>2, <1>7 DEF IInv, ReservationNeverCommitted, FenceNeverMisses
<1>16. GrantsMatch'
  <2>1. ASSUME NEW v \in Users, NEW d \in Codes
        PROVE  applicant'[v].code = d <=> code'[d].state = "GRANTED" /\ code'[d].by = v
    <3>1. CASE v # u /\ d # c
      BY <1>6, <1>7, <3>1 DEF IInv, GrantsMatch
    <3>2. CASE v # u /\ d = c
      BY <1>1, <1>6, <1>7, <3>2, NoneIsFresh DEF IInv, GrantsMatch
    <3>3. CASE v = u /\ d # c
      BY <1>1, <1>4, <1>6, <1>7, <3>3, NoneIsFresh DEF IInv, GrantsMatch
    <3>4. CASE v = u /\ d = c
      BY <1>1, <1>4, <1>6, <1>7, <3>4, NoneIsFresh
    <3> QED
      BY <3>1, <3>2, <3>3, <3>4
  <2>2. \A v \in Users : applicant'[v].code # None => applicant'[v].status = "APPROVED"
    BY <1>1, <1>4, <1>6 DEF IInv, GrantsMatch
  <2>3. Pooled => \A v \in Users : applicant'[v].status = "APPROVED"
                                    => applicant'[v].code # None
    BY <1>1, <1>4, <1>6, NoneIsFresh DEF IInv, GrantsMatch
  <2> QED
    BY <2>1, <2>2, <2>3 DEF GrantsMatch
<1>17. CountStaysUnderCap'
  \* Whoever holds the advisory lock is alone, so nobody else adds to its count.
  <2>1. ASSUME NEW g \in Handlers, InAutoTx(g)' PROVE Cardinality(AutoApproved') < rpc'[g].cap
    <3>1. g # h /\ InAutoTx(g) /\ rpc'[g] = rpc[g]
      BY <1>8, <2>1
    <3>2. rpc[h].op # "signup"
      BY <1>1, <3>1 DEF IInv, AutoTxAlone, InAutoTx
    <3>3. AutoApproved' = AutoApproved
      BY <1>1, <1>4, <1>6, <3>2 DEF AutoApproved
    <3> QED
      BY <3>1, <3>3 DEF IInv, CountStaysUnderCap
  <2> QED
    BY <2>1 DEF CountStaysUnderCap
<1> QED
  BY <1>9, <1>10, <1>11, <1>12, <1>13, <1>14, <1>15, <1>16, <1>17 DEF IInv

LEMMA ReclaimStep == ASSUME IInv, NEW S \in SUBSET Codes, Reclaim(S) PROVE IInv'
<1>1. S = {}
  BY DEF Reclaim, Releasable, IInv, ReservationNeverCommitted
<1>2. UNCHANGED vars
  BY <1>1 DEF Reclaim, vars, IInv, TypeOK
<1> QED
  BY <1>2 DEF vars, IInv, TypeOK, RequestsOK, RequestOK, CodeLocksHold, ApplicantLocksHold,
     AutoIsApproved, AutoTxAlone, InAutoTx, AutoApproved, ReservationNeverCommitted,
     FenceNeverMisses, GrantsMatch, CountStaysUnderCap

LEMMA RestockStep == ASSUME IInv, NEW S \in SUBSET Codes, Restock(S) PROVE IInv'
<1>1. UNCHANGED <<playtest, applicant, rpc, audit, orphaned, welcomed>>
  BY DEF Restock
<1>2. /\ code' \in [Codes -> [state : {"ABSENT", "UNUSED", "RESERVED", "GRANTED"},
                              by : Users \cup {None}, tx : Handlers \cup {None}]]
      /\ \A c \in Codes : \/ code'[c] = code[c]
                          \/ code[c].state = "ABSENT" /\ code'[c].state = "UNUSED"
  BY DEF Restock, IInv, TypeOK
<1>3. TypeOK'
  BY <1>1, <1>2 DEF IInv, TypeOK, InAutoTx
<1>4. RequestsOK' /\ ApplicantLocksHold'
  BY <1>1 DEF IInv, RequestsOK, RequestOK, ApplicantLocksHold
<1>5. CodeLocksHold'
  BY <1>1, <1>2 DEF IInv, CodeLocksHold, RequestsOK, RequestOK
<1>6. AutoIsApproved' /\ AutoTxAlone' /\ CountStaysUnderCap' /\ FenceNeverMisses'
  BY <1>1 DEF IInv, AutoIsApproved, AutoTxAlone, CountStaysUnderCap, AutoApproved, InAutoTx,
              FenceNeverMisses
<1>7. ReservationNeverCommitted' /\ GrantsMatch'
  BY <1>1, <1>2 DEF IInv, ReservationNeverCommitted, GrantsMatch
<1> QED
  BY <1>3, <1>4, <1>5, <1>6, <1>7 DEF IInv

LEMMA PlaytestStep ==
  ASSUME IInv, TransitionStatus \/ SoftDelete \/ \E l \in Limits \cup {None} : EditCap(l)
  PROVE  IInv'
<1>1. UNCHANGED <<applicant, code, rpc, audit, orphaned, welcomed>>
  BY DEF TransitionStatus, SoftDelete, EditCap
<1>2. playtest' \in [status : {"DRAFT", "OPEN", "CLOSED"}, deleted : BOOLEAN,
                     cap : Limits \cup {None}]
  BY DEF TransitionStatus, SoftDelete, EditCap, IInv, TypeOK
<1> QED
  BY <1>1, <1>2 DEF IInv, TypeOK, RequestsOK, RequestOK, CodeLocksHold, ApplicantLocksHold,
     AutoIsApproved, AutoTxAlone, InAutoTx, AutoApproved, ReservationNeverCommitted,
     FenceNeverMisses, GrantsMatch, CountStaysUnderCap

-----------------------------------------------------------------------------
(* The invariant is inductive.                                             *)

LEMMA StatementStep == ASSUME IInv, NEW h \in Handlers, Statement(h) PROVE IInv'
<1>1. CASE InsertWins(h)
  BY <1>1, InsertWinsStep
<1>2. CASE InsertLoses(h)
  BY <1>2, ReturnStep DEF InsertLoses, IInv, TypeOK
<1>3. CASE LockAndCount(h)
  BY <1>3, LockAndCountStep
<1>4. CASE ResolveURL(h)
  BY <1>4, ResolveURLStep
<1>5. CASE Reserve(h)
  BY <1>5, ReserveStep
<1>6. CASE PoolEmpty(h)
  BY <1>6, ReturnStep DEF PoolEmpty, IInv, TypeOK
<1>7. CASE FencedFinalize(h)
  BY <1>7, FencedFinalizeStep
<1>8. CASE StatusCAS(h)
  BY <1>8, StatusCASStep
<1>9. CASE Commit(h)
  BY <1>9, CommitStep
<1>10. CASE AppendAudit(h) \/ AuditFails(h) \/ EnqueueWelcome(h) \/ WelcomeSkipped(h)
  BY <1>10, AfterCommitStep
<1> QED
  BY <1>1, <1>2, <1>3, <1>4, <1>5, <1>6, <1>7, <1>8, <1>9, <1>10 DEF Statement

LEMMA NextIInv == IInv /\ [Next]_vars => IInv'
<1> SUFFICES ASSUME IInv, [Next]_vars PROVE IInv'
  OBVIOUS
<1>1. ASSUME NEW h \in Handlers, NEW u \in Users, SignupRead(h, u) PROVE IInv'
  BY <1>1, SignupReadStep
<1>2. ASSUME NEW h \in Handlers, NEW u \in Users, ReadForApprove(h, u) PROVE IInv'
  BY <1>2, StartStep DEF ReadForApprove
<1>3. ASSUME NEW h \in Handlers, NEW u \in Users, ReadForReject(h, u) PROVE IInv'
  BY <1>3, StartStep DEF ReadForReject
<1>4. ASSUME NEW h \in Handlers, Statement(h) PROVE IInv'
  BY <1>4, StatementStep
<1>5. ASSUME NEW h \in Handlers, Abort(h) PROVE IInv'
  BY <1>5, ReturnStep DEF Abort, IInv, TypeOK
<1>6. CASE Environment
  BY <1>6, ReclaimStep, RestockStep, PlaytestStep DEF Environment
<1>7. CASE UNCHANGED vars
  BY <1>7 DEF vars, IInv, TypeOK, RequestsOK, RequestOK, CodeLocksHold, ApplicantLocksHold,
     AutoIsApproved, AutoTxAlone, InAutoTx, AutoApproved, ReservationNeverCommitted,
     FenceNeverMisses, GrantsMatch, CountStaysUnderCap
<1> QED
  BY <1>1, <1>2, <1>3, <1>4, <1>5, <1>6, <1>7 DEF Next

\* The inductive invariant holds in every reachable state of the handlers of
\* pkg/service/approve.go and applicant.go.
THEOREM Inductive == Spec => []IInv
  BY InitIInv, NextIInv, PTL DEF Spec

-----------------------------------------------------------------------------
(* What follows.                                                           *)

\* Every state of the approve, reject and signup handlers is well typed, and a request
\* that compares a count with auto_approve_limit has a limit to compare with.
THEOREM TypeCorrect == Spec => []TypeOK
<1>1. IInv => TypeOK
  BY DEF IInv
<1> QED
  BY <1>1, Inductive, PTL

\* pkg/repo/code.go Reserve and FencedFinalize run in one transaction, so the reclaim
\* worker and other requests never see a RESERVED row.
THEOREM NoCommittedReservation == Spec => []ReservationNeverCommitted
<1>1. IInv => ReservationNeverCommitted
  BY DEF IInv
<1> QED
  BY <1>1, Inductive, PTL

\* The fenced finalize always finds its own reservation: code.grant_orphaned and the
\* Aborted reply of pkg/service/approve.go are dead code.
THEOREM NoOrphanedGrant == Spec => []FenceNeverMisses
<1>1. IInv => FenceNeverMisses
  BY DEF IInv
<1> QED
  BY <1>1, Inductive, PTL

\* The code and applicant tables agree on who holds what: one owner per granted code,
\* one code per approved applicant of a pool playtest, none stranded.
THEOREM GrantsAgree == Spec => []GrantsMatch
<1>1. IInv => GrantsMatch
  BY DEF IInv
<1> QED
  BY <1>1, Inductive, PTL

\* Racing signups cannot push the count past the limit that one of them read.
THEOREM CapRace == Spec => []CountStaysUnderCap
<1>1. IInv => CountStaysUnderCap
  BY DEF IInv
<1> QED
  BY <1>1, Inductive, PTL

-----------------------------------------------------------------------------
(* Locks.                                                                  *)

\* Only a request that is about to commit holds an applicant row, and it waits for nothing.
LEMMA HoldersCommit ==
  ASSUME IInv, NEW g \in Handlers, rpc[g].appW # "none" PROVE rpc[g].pc = "commit"
  BY DEF IInv, RequestsOK, RequestOK

\* The advisory lock is taken first and the applicant row last, and nobody waits for a code:
\* approvals, auto-approvals and rejections cannot wait for each other in a circle.
THEOREM NoDeadlock == Spec => []NoCircularWait
<1>1. IInv => NoCircularWait
  <2> SUFFICES ASSUME IInv, NEW f \in Handlers, NEW g \in Handlers, NEW h \in Handlers,
                      WaitsFor(f, g), WaitsFor(g, h), NEW k \in Handlers
               PROVE  ~WaitsFor(h, k)
    BY DEF NoCircularWait
  \* f waits for the auto-approval g: whoever holds the row f wants waits for nothing.
  <2>1. InAutoTx(g)
    BY HoldersCommit DEF WaitsFor
  <2>2. rpc[h].pc = "commit"
    BY <2>1, HoldersCommit DEF WaitsFor, InAutoTx
  <2> QED
    BY <2>2 DEF WaitsFor
<1> QED
  BY <1>1, Inductive, PTL

-----------------------------------------------------------------------------
(* Decisions.                                                              *)

\* The only statements that write the applicant table.
LEMMA ApplicantWrites ==
  ASSUME IInv, [Next]_vars
  PROVE  \/ UNCHANGED applicant
         \/ \E h \in Handlers : InsertWins(h) \/ Commit(h)
  BY DEF Next, Statement, Environment, vars, SignupRead, ReadForApprove, ReadForReject,
     InsertLoses, LockAndCount, ResolveURL, Reserve, PoolEmpty, FencedFinalize, StatusCAS,
     AppendAudit, AuditFails, EnqueueWelcome, WelcomeSkipped, Abort, Reclaim, Restock,
     TransitionStatus, SoftDelete, EditCap

\* InsertWins moves its applicant from NONE to PENDING, and nobody else.
LEMMA InsertWinsWrites ==
  ASSUME IInv, NEW h \in Handlers, InsertWins(h)
  PROVE  /\ rpc[h].user \in Users /\ applicant[rpc[h].user].status = "NONE"
         /\ applicant' = [applicant EXCEPT ![rpc[h].user] =
                            [applicant[rpc[h].user] EXCEPT !.status = "PENDING"]]
         /\ applicant'[rpc[h].user].status = "PENDING"
         /\ applicant'[rpc[h].user].auto = applicant[rpc[h].user].auto
<1>1. rpc[h].user \in Users /\ applicant[rpc[h].user].status = "NONE"
  BY DEF InsertWins, IInv, RequestsOK, RequestOK
<1>2. applicant' = [applicant EXCEPT ![rpc[h].user] =
                     [applicant[rpc[h].user] EXCEPT !.status = "PENDING"]]
  BY DEF InsertWins
<1> QED
  BY <1>1, <1>2 DEF IInv, TypeOK

\* An APPROVED or REJECTED applicant keeps its decision, code and attribution: the CAS on
\* status = 'PENDING' of pkg/repo/applicant.go under every interleaving of approve,
\* reject and auto-approve.
THEOREM FinalDecisions == Spec => DecisionsAreFinal
<1>1. ASSUME IInv, [Next]_vars, NEW u \in Users
      PROVE  /\ applicant[u].status \in {"APPROVED", "REJECTED"}
                  => applicant'[u] = applicant[u]
             /\ applicant[u].status = "PENDING" => applicant'[u].status # "NONE"
  <2>1. CASE UNCHANGED applicant
    BY <2>1
  <2>2. ASSUME NEW h \in Handlers, InsertWins(h)
        PROVE  \/ applicant'[u] = applicant[u]
               \/ applicant[u].status = "NONE"
    BY <1>1, <2>2, InsertWinsWrites DEF IInv, TypeOK
  <2>3. ASSUME NEW h \in Handlers, Commit(h)
        PROVE  \/ applicant'[u] = applicant[u]
               \/ applicant[u].status = "PENDING" /\ applicant'[u].status # "NONE"
    BY <1>1, <2>3, CommitFacts DEF Commit, IInv, TypeOK
  <2> QED
    BY <1>1, <2>1, <2>2, <2>3, ApplicantWrites
<1>2. IInv /\ [Next]_vars =>
        [\A u \in Users :
           /\ applicant[u].status \in {"APPROVED", "REJECTED"}
                => applicant'[u] = applicant[u]
           /\ applicant[u].status = "PENDING" => applicant'[u].status # "NONE"]_vars
  BY <1>1
<1> QED
  BY <1>2, Inductive, PTL DEF Spec, DecisionsAreFinal

-----------------------------------------------------------------------------
(* The limit.                                                              *)

LEMMA CapInit == Init => AutoApproveCapHolds
<1> SUFFICES ASSUME Init PROVE AutoApproved = {}
  BY DEF AutoApproveCapHolds
<1> QED
  BY DEF Init, AutoApproved

LEMMA CapStep == IInv /\ AutoApproveCapHolds /\ [Next]_vars => AutoApproveCapHolds'
<1> SUFFICES ASSUME IInv, AutoApproveCapHolds, [Next]_vars PROVE AutoApproveCapHolds'
  OBVIOUS
<1>1. ASSUME AutoApproved' = AutoApproved PROVE AutoApproveCapHolds'
  BY <1>1 DEF AutoApproveCapHolds
<1>2. CASE UNCHANGED applicant
  BY <1>1, <1>2 DEF AutoApproved
<1>3. ASSUME NEW h \in Handlers, InsertWins(h) PROVE AutoApproveCapHolds'
  <2>1. \A u \in Users : applicant'[u].auto = applicant[u].auto
    BY <1>3, InsertWinsWrites DEF IInv, TypeOK
  <2> QED
    BY <1>1, <2>1 DEF AutoApproved
<1>4. ASSUME NEW h \in Handlers, Commit(h) PROVE AutoApproveCapHolds'
  <2> DEFINE u == rpc[h].user
  <2>1. /\ u \in Users /\ ~applicant[u].auto
        /\ \A v \in Users \ {u} : applicant'[v] = applicant[v]
        /\ applicant'[u].auto <=> rpc[h].op = "signup"
    BY <1>4, CommitFacts DEF Commit, IInv, TypeOK, Ops
  <2>2. CASE rpc[h].op # "signup"
    BY <1>1, <2>1, <2>2 DEF AutoApproved
  <2>3. CASE rpc[h].op = "signup"
    <3>1. AutoApproved' = AutoApproved \cup {u}
      BY <2>1, <2>3 DEF AutoApproved
    <3>2. IsFiniteSet(AutoApproved) /\ u \notin AutoApproved
      BY <2>1, UsersAreFinite, FS_Subset DEF AutoApproved
    <3>3. Cardinality(AutoApproved') = Cardinality(AutoApproved) + 1
      BY <3>1, <3>2, FS_AddElement
    <3>4. /\ rpc[h].cap \in Limits /\ rpc[h].cap \in Nat
          /\ Cardinality(AutoApproved) < rpc[h].cap
      BY <1>4, <2>3, LimitsAreNat DEF Commit, InAutoTx, IInv, TypeOK, CountStaysUnderCap
    <3>5. Cardinality(AutoApproved) \in Nat
      BY CountIsNat DEF IInv
    <3> QED
      BY <3>3, <3>4, <3>5 DEF AutoApproveCapHolds
  <2> QED
    BY <2>2, <2>3
<1> QED
  BY <1>2, <1>3, <1>4, ApplicantWrites

\* auto_approve_limit bounds the auto-approvals of any number of racing signups, whatever
\* the edits to it, because the count is taken under the advisory lock.
THEOREM AutoApproveCap == Spec => []AutoApproveCapHolds
  BY CapInit, CapStep, Inductive, PTL DEF Spec

-----------------------------------------------------------------------------
(* The audit log and the approval DM.  Both are written after the commit,  *)
(* by the one request whose compare-and-set decided the applicant.         *)

AfterCommit(h) == rpc[h].pc \in {"audit", "enqueue"}

\* Two requests past their commit have decided two different applicants.
OneDecider ==
  \A g, h \in Handlers :
    AfterCommit(g) /\ AfterCommit(h) /\ rpc[g].user = rpc[h].user => g = h

\* What such a request knows of its applicant, the log and the DMs.
DeciderKnows ==
  \A h \in Handlers : AfterCommit(h) =>
    LET u == rpc[h].user
    IN /\ applicant[u].status = IF rpc[h].op = "reject" THEN "REJECTED" ELSE "APPROVED"
       /\ applicant[u].auto <=> rpc[h].op = "signup"
       /\ welcomed[u] = 0
       /\ rpc[h].pc = "audit" => \A a \in AuditActions : audit[u][a] = 0
       /\ rpc[h].pc = "enqueue" /\ rpc[h].op = "approve"
            => audit[u]["applicant.approve"] = 1

\* Nothing is logged of, or sent to, an applicant nobody has decided.
UndecidedIsSilent ==
  \A u \in Users : applicant[u].status \notin {"APPROVED", "REJECTED"} =>
    (\A a \in AuditActions : audit[u][a] = 0) /\ welcomed[u] = 0

LogInv ==
  /\ OneDecider
  /\ DeciderKnows
  /\ UndecidedIsSilent
  /\ AuditMatchesDecision
  /\ WelcomeFollowsGrant

LEMMA RequestsTyped == ASSUME IInv PROVE rpc \in [Handlers -> Requests]
  BY DEF IInv, TypeOK

LEMMA LogInit == Init => LogInv
<1> SUFFICES ASSUME Init PROVE LogInv
  OBVIOUS
<1>1. \A h \in Handlers : ~AfterCommit(h)
  BY DEF Init, AfterCommit, Idle
<1>2. \A u \in Users : (\A a \in AuditActions : audit[u][a] = 0) /\ welcomed[u] = 0
  BY DEF Init
<1>3. OneDecider /\ DeciderKnows
  BY <1>1 DEF OneDecider, DeciderKnows
<1>4. UndecidedIsSilent /\ AuditMatchesDecision /\ WelcomeFollowsGrant
  BY <1>2 DEF UndecidedIsSilent, AuditMatchesDecision, WelcomeFollowsGrant
<1> QED
  BY <1>3, <1>4 DEF LogInv

\* A step that writes none of the three and brings no request past its commit.
LEMMA LogUntouched ==
  ASSUME LogInv, UNCHANGED <<applicant, audit, welcomed>>,
         \A g \in Handlers : AfterCommit(g)' => AfterCommit(g) /\ rpc'[g] = rpc[g]
  PROVE  LogInv'
<1>1. OneDecider'
  BY DEF LogInv, OneDecider
<1>2. DeciderKnows'
  BY DEF LogInv, DeciderKnows, AfterCommit
<1>3. UndecidedIsSilent' /\ AuditMatchesDecision' /\ WelcomeFollowsGrant'
  BY DEF LogInv, UndecidedIsSilent, AuditMatchesDecision, WelcomeFollowsGrant
<1> QED
  BY <1>1, <1>2, <1>3 DEF LogInv

\* A request that ends, or goes to a point before its commit, leaves the log alone.
LEMMA LogEarlier ==
  ASSUME IInv, LogInv, UNCHANGED <<applicant, audit, welcomed>>, NEW h \in Handlers,
         NEW r, rpc' = [rpc EXCEPT ![h] = r], r.pc \notin {"audit", "enqueue"}
  PROVE  LogInv'
<1>1. \A g \in Handlers : AfterCommit(g)' => AfterCommit(g) /\ rpc'[g] = rpc[g]
  BY DEF AfterCommit, IInv, TypeOK
<1> QED
  BY <1>1, LogUntouched

LEMMA LogReturn ==
  ASSUME IInv, LogInv, UNCHANGED <<applicant, audit, welcomed>>, NEW h \in Handlers,
         Return(h)
  PROVE  LogInv'
  BY LogEarlier DEF Return, Idle

LEMMA LogGoto ==
  ASSUME IInv, LogInv, UNCHANGED <<applicant, audit, welcomed>>, NEW h \in Handlers,
         NEW p, Goto(h, p), p \notin {"audit", "enqueue"}
  PROVE  LogInv'
<1>1. \A g \in Handlers : AfterCommit(g)' => AfterCommit(g) /\ rpc'[g] = rpc[g]
  BY DEF Goto, AfterCommit, IInv, TypeOK
<1> QED
  BY <1>1, LogUntouched

\* The row a signup inserts is new: nothing was logged of its applicant.
LEMMA LogInsert == ASSUME IInv, LogInv, NEW h \in Handlers, InsertWins(h) PROVE LogInv'
<1> DEFINE u == rpc[h].user
<1>1. /\ u \in Users /\ applicant[u].status = "NONE"
      /\ \A v \in Users \ {u} : applicant'[v] = applicant[v]
      /\ applicant'[u].status = "PENDING"
      /\ applicant'[u].auto = applicant[u].auto
  BY InsertWinsWrites DEF IInv, TypeOK
<1>2. UNCHANGED <<audit, welcomed>>
  BY DEF InsertWins
<1>3. \A g \in Handlers : AfterCommit(g)' => AfterCommit(g) /\ rpc'[g] = rpc[g]
  BY RequestsTyped DEF InsertWins, AfterInsert, Goto, Return, Idle, AfterCommit, Requests
<1>4. \A g \in Handlers : AfterCommit(g) => rpc[g].user \in Users /\ rpc[g].user # u
  BY <1>1 DEF LogInv, DeciderKnows, AfterCommit, IInv, RequestsOK, RequestOK
<1>5. OneDecider'
  BY <1>3 DEF LogInv, OneDecider, AfterCommit
<1>6. DeciderKnows'
  BY <1>1, <1>2, <1>3, <1>4 DEF LogInv, DeciderKnows, AfterCommit
<1>7. (\A a \in AuditActions : audit[u][a] = 0) /\ welcomed[u] = 0
  BY <1>1 DEF LogInv, UndecidedIsSilent
<1>8. UndecidedIsSilent'
  BY <1>1, <1>2, <1>7 DEF LogInv, UndecidedIsSilent
<1>9. AuditMatchesDecision' /\ WelcomeFollowsGrant'
  BY <1>1, <1>2, <1>7 DEF LogInv, AuditMatchesDecision, WelcomeFollowsGrant
<1> QED
  BY <1>5, <1>6, <1>8, <1>9 DEF LogInv

\* The commit finds its applicant PENDING, hence undecided and silent.
LEMMA LogCommit == ASSUME IInv, LogInv, NEW h \in Handlers, Commit(h) PROVE LogInv'
<1> DEFINE u == rpc[h].user
<1>1. /\ u \in Users /\ rpc[h].op \in Ops /\ applicant[u].status = "PENDING"
      /\ rpc[h].appW = (IF rpc[h].op = "reject" THEN "REJECTED" ELSE "APPROVED")
  BY CommitFacts
<1>2. /\ \A v \in Users \ {u} : applicant'[v] = applicant[v]
      /\ applicant'[u].status = (IF rpc[h].op = "reject" THEN "REJECTED" ELSE "APPROVED")
      /\ applicant'[u].auto <=> rpc[h].op = "signup"
      /\ UNCHANGED <<audit, welcomed>>
  BY <1>1 DEF Commit, IInv, TypeOK
<1>3. /\ rpc'[h].pc = "audit" /\ rpc'[h].op = rpc[h].op /\ rpc'[h].user = u
      /\ \A g \in Handlers \ {h} : rpc'[g] = rpc[g]
  BY DEF Commit, Idle, IInv, TypeOK
<1>4. \A g \in Handlers : AfterCommit(g) => rpc[g].user \in Users /\ rpc[g].user # u
  BY <1>1 DEF LogInv, DeciderKnows, AfterCommit, IInv, RequestsOK, RequestOK
<1>5. (\A a \in AuditActions : audit[u][a] = 0) /\ welcomed[u] = 0
  BY <1>1 DEF LogInv, UndecidedIsSilent
<1>6. OneDecider'
  BY <1>3, <1>4 DEF LogInv, OneDecider, AfterCommit
<1>7. DeciderKnows'
  <2> SUFFICES ASSUME NEW g \in Handlers, AfterCommit(g)'
               PROVE  LET v == rpc'[g].user
                      IN /\ applicant'[v].status = IF rpc'[g].op = "reject" THEN "REJECTED"
                                                   ELSE "APPROVED"
                         /\ applicant'[v].auto <=> rpc'[g].op = "signup"
                         /\ welcomed'[v] = 0
                         /\ rpc'[g].pc = "audit"
                              => \A a \in AuditActions : audit'[v][a] = 0
                         /\ rpc'[g].pc = "enqueue" /\ rpc'[g].op = "approve"
                              => audit'[v]["applicant.approve"] = 1
    BY DEF DeciderKnows
  <2>1. CASE g = h
    BY <2>1, <1>2, <1>3, <1>5
  <2>2. CASE g # h
    BY <2>2, <1>2, <1>3, <1>4 DEF LogInv, DeciderKnows, AfterCommit
  <2> QED
    BY <2>1, <2>2
<1>8. UndecidedIsSilent'
  BY <1>1, <1>2 DEF LogInv, UndecidedIsSilent
<1>9. AuditMatchesDecision' /\ WelcomeFollowsGrant'
  BY <1>1, <1>2, <1>5 DEF LogInv, AuditMatchesDecision, WelcomeFollowsGrant
<1> QED
  BY <1>6, <1>7, <1>8, <1>9 DEF LogInv

\* The decider appends the row of its own action, to a log that had none.
LEMMA LogAppend == ASSUME IInv, LogInv, NEW h \in Handlers, AppendAudit(h) PROVE LogInv'
<1> DEFINE u == rpc[h].user
           done == ActionOf(rpc[h].op)
<1>1. /\ AfterCommit(h) /\ rpc[h].pc = "audit" /\ u \in Users /\ rpc[h].op \in Ops
      /\ UNCHANGED <<applicant, welcomed>>
  BY DEF AppendAudit, AfterCommit, IInv, RequestsOK, RequestOK
<1>2. /\ applicant[u].status = (IF rpc[h].op = "reject" THEN "REJECTED" ELSE "APPROVED")
      /\ applicant[u].auto <=> rpc[h].op = "signup"
      /\ welcomed[u] = 0
      /\ \A a \in AuditActions : audit[u][a] = 0
  BY <1>1 DEF LogInv, DeciderKnows
<1>3. /\ done \in AuditActions
      /\ rpc[h].op = "approve" => done = "applicant.approve"
      /\ done = IF applicant[u].status = "REJECTED" THEN "applicant.reject"
                ELSE IF applicant[u].auto THEN "applicant.auto_approved"
                ELSE "applicant.approve"
  BY <1>1, <1>2 DEF ActionOf, AuditActions, Ops
<1>4. /\ \A v \in Users \ {u} : audit'[v] = audit[v]
      /\ audit'[u] = [audit[u] EXCEPT ![done] = audit[u][done] + 1]
  BY <1>1 DEF AppendAudit, IInv, TypeOK
<1>5. \A a \in AuditActions : audit'[u][a] = IF a = done THEN 1 ELSE 0
  BY <1>1, <1>2, <1>3, <1>4 DEF IInv, TypeOK
<1>6. /\ \A g \in Handlers \ {h} : rpc'[g] = rpc[g]
      /\ AfterCommit(h)' => rpc'[h].pc = "enqueue" /\ rpc'[h].op = rpc[h].op
                            /\ rpc'[h].user = u
  BY RequestsTyped DEF AppendAudit, Return, Goto, Idle, AfterCommit, Requests
<1>7. \A g \in Handlers \ {h} : AfterCommit(g) => rpc[g].user \in Users \ {u}
  BY <1>1 DEF LogInv, OneDecider, AfterCommit, IInv, RequestsOK, RequestOK
<1>8. OneDecider'
  BY <1>6, <1>7 DEF LogInv, OneDecider, AfterCommit
<1>9. DeciderKnows'
  <2> SUFFICES ASSUME NEW g \in Handlers, AfterCommit(g)'
               PROVE  LET v == rpc'[g].user
                      IN /\ applicant'[v].status = IF rpc'[g].op = "reject" THEN "REJECTED"
                                                   ELSE "APPROVED"
                         /\ applicant'[v].auto <=> rpc'[g].op = "signup"
                         /\ welcomed'[v] = 0
                         /\ rpc'[g].pc = "audit"
                              => \A a \in AuditActions : audit'[v][a] = 0
                         /\ rpc'[g].pc = "enqueue" /\ rpc'[g].op = "approve"
                              => audit'[v]["applicant.approve"] = 1
    BY DEF DeciderKnows
  <2>1. CASE g = h
    BY <2>1, <1>1, <1>2, <1>3, <1>5, <1>6
  <2>2. CASE g # h
    BY <2>2, <1>1, <1>4, <1>6, <1>7 DEF LogInv, DeciderKnows, AfterCommit
  <2> QED
    BY <2>1, <2>2
<1>10. UndecidedIsSilent'
  BY <1>1, <1>2, <1>4 DEF LogInv, UndecidedIsSilent
<1>11. AuditMatchesDecision'
  <2> SUFFICES ASSUME NEW v \in Users, NEW a \in AuditActions, audit'[v][a] > 0
               PROVE  /\ audit'[v][a] = 1
                      /\ a = IF applicant'[v].status = "REJECTED" THEN "applicant.reject"
                             ELSE IF applicant'[v].auto THEN "applicant.auto_approved"
                             ELSE "applicant.approve"
                      /\ applicant'[v].status \in {"APPROVED", "REJECTED"}
    BY DEF AuditMatchesDecision
  <2>1. CASE v = u
    BY <2>1, <1>1, <1>2, <1>3, <1>5
  <2>2. CASE v # u
    BY <2>2, <1>1, <1>4 DEF LogInv, AuditMatchesDecision
  <2> QED
    BY <2>1, <2>2
<1>12. WelcomeFollowsGrant'
  BY <1>1, <1>2, <1>4 DEF LogInv, WelcomeFollowsGrant
<1> QED
  BY <1>8, <1>9, <1>10, <1>11, <1>12 DEF LogInv

\* An append that fails ends the request of an admin; auto-approve goes on to the DM.
LEMMA LogAppendFails == ASSUME IInv, LogInv, NEW h \in Handlers, AuditFails(h) PROVE LogInv'
<1>1. UNCHANGED <<applicant, audit, welcomed>> /\ AfterCommit(h)
  BY DEF AuditFails, AfterCommit
<1>2. CASE rpc[h].op # "signup"
  BY <1>1, <1>2, LogReturn DEF AuditFails, AfterAuditFailure
<1>3. CASE rpc[h].op = "signup"
  <2>1. /\ \A g \in Handlers \ {h} : rpc'[g] = rpc[g]
        /\ rpc'[h].op = rpc[h].op /\ rpc'[h].user = rpc[h].user /\ rpc'[h].pc = "enqueue"
    BY <1>3, RequestsTyped DEF AuditFails, AfterAuditFailure, Goto, Requests
  <2>2. \A g \in Handlers : AfterCommit(g)' => AfterCommit(g)
    BY <1>1, <2>1 DEF AfterCommit
  <2>3. OneDecider'
    BY <2>1, <2>2 DEF LogInv, OneDecider
  <2>4. DeciderKnows'
    BY <1>1, <1>3, <2>1, <2>2 DEF LogInv, DeciderKnows, AfterCommit
  <2>5. UndecidedIsSilent' /\ AuditMatchesDecision' /\ WelcomeFollowsGrant'
    BY <1>1 DEF LogInv, UndecidedIsSilent, AuditMatchesDecision, WelcomeFollowsGrant
  <2> QED
    BY <2>3, <2>4, <2>5 DEF LogInv
<1> QED
  BY <1>2, <1>3

\* The decider sends the one DM and ends.
LEMMA LogEnqueue ==
  ASSUME IInv, LogInv, NEW h \in Handlers, EnqueueWelcome(h) PROVE LogInv'
<1> DEFINE u == rpc[h].user
<1>1. /\ AfterCommit(h) /\ rpc[h].pc = "enqueue" /\ u \in Users
      /\ rpc[h].op \in {"signup", "approve"}
      /\ UNCHANGED <<applicant, audit>>
  BY DEF EnqueueWelcome, AfterCommit, IInv, RequestsOK, RequestOK
<1>2. /\ applicant[u].status = "APPROVED"
      /\ applicant[u].auto <=> rpc[h].op = "signup"
      /\ welcomed[u] = 0
      /\ rpc[h].op = "approve" => audit[u]["applicant.approve"] = 1
  BY <1>1 DEF LogInv, DeciderKnows
<1>3. welcomed'[u] = 1 /\ \A v \in Users \ {u} : welcomed'[v] = welcomed[v]
  BY <1>1, <1>2 DEF EnqueueWelcome, IInv, TypeOK
<1>4. /\ ~AfterCommit(h)'
      /\ \A g \in Handlers \ {h} : rpc'[g] = rpc[g]
  BY DEF EnqueueWelcome, Return, Idle, AfterCommit, IInv, TypeOK
<1>5. \A g \in Handlers \ {h} : AfterCommit(g) => rpc[g].user \in Users \ {u}
  BY <1>1 DEF LogInv, OneDecider, AfterCommit, IInv, RequestsOK, RequestOK
<1>6. OneDecider'
  BY <1>4 DEF LogInv, OneDecider, AfterCommit
<1>7. DeciderKnows'
  BY <1>1, <1>3, <1>4, <1>5 DEF LogInv, DeciderKnows, AfterCommit
<1>8. UndecidedIsSilent'
  BY <1>1, <1>2, <1>3 DEF LogInv, UndecidedIsSilent
<1>9. AuditMatchesDecision'
  BY <1>1 DEF LogInv, AuditMatchesDecision
<1>10. WelcomeFollowsGrant'
  BY <1>1, <1>2, <1>3 DEF LogInv, WelcomeFollowsGrant
<1> QED
  BY <1>6, <1>7, <1>8, <1>9, <1>10 DEF LogInv

\* Every other statement of a request goes to a point before its commit, or ends it.
LEMMA LogStatement == ASSUME IInv, LogInv, NEW h \in Handlers, Statement(h) PROVE LogInv'
<1>1. CASE InsertWins(h)
  BY <1>1, LogInsert
<1>2. CASE InsertLoses(h) \/ PoolEmpty(h) \/ WelcomeSkipped(h)
  BY <1>2, LogReturn DEF InsertLoses, PoolEmpty, WelcomeSkipped
<1>3. CASE LockAndCount(h)
  BY <1>3, LogReturn, LogGoto DEF LockAndCount
<1>4. CASE ResolveURL(h)
  BY <1>4, LogReturn, LogGoto DEF ResolveURL
<1>5. CASE Reserve(h) \/ FencedFinalize(h) \/ StatusCAS(h)
  <2>1. UNCHANGED <<applicant, audit, welcomed>>
    BY <1>5 DEF Reserve, FencedFinalize, StatusCAS
  <2>2. CASE Reserve(h)
    <3>1. PICK c \in Codes : ReserveInTx(h, c)
      BY <2>2 DEF Reserve
    <3>2. rpc'[h].pc = "finalize" /\ \A g \in Handlers \ {h} : rpc'[g] = rpc[g]
      BY <3>1, RequestsTyped DEF ReserveInTx, Requests
    <3> QED
      BY <2>1, <3>2, LogUntouched DEF AfterCommit
  <2>3. CASE FencedFinalize(h)
    <3>1. /\ rpc'[h].pc \in {"cas", "idle"}
          /\ \A g \in Handlers \ {h} : rpc'[g] = rpc[g]
      BY <2>3, RequestsTyped DEF FencedFinalize, Return, Idle, Requests
    <3> QED
      BY <2>1, <3>1, LogUntouched DEF AfterCommit
  <2>4. CASE StatusCAS(h)
    <3>1. /\ rpc'[h].pc \in {"commit", "idle"}
          /\ \A g \in Handlers \ {h} : rpc'[g] = rpc[g]
      BY <2>4, RequestsTyped DEF StatusCAS, AfterMismatch, Return, Idle, Requests
    <3> QED
      BY <2>1, <3>1, LogUntouched DEF AfterCommit
  <2> QED
    BY <1>5, <2>2, <2>3, <2>4
<1>6. CASE Commit(h)
  BY <1>6, LogCommit
<1>7. CASE AppendAudit(h) \/ AuditFails(h) \/ EnqueueWelcome(h)
  BY <1>7, LogAppend, LogAppendFails, LogEnqueue
<1> QED
  BY <1>1, <1>2, <1>3, <1>4, <1>5, <1>6, <1>7 DEF Statement

LEMMA LogStep == IInv /\ LogInv /\ [Next]_vars => LogInv'
<1> SUFFICES ASSUME IInv, LogInv, [Next]_vars PROVE LogInv'
  OBVIOUS
<1>1. ASSUME NEW h \in Handlers, NEW u \in Users,
             SignupRead(h, u) \/ ReadForApprove(h, u) \/ ReadForReject(h, u)
      PROVE  LogInv'
  <2>1. UNCHANGED <<applicant, audit, welcomed>>
    BY <1>1 DEF SignupRead, ReadForApprove, ReadForReject
  <2>2. \E r : /\ rpc' = [rpc EXCEPT ![h] = r]
               /\ r.pc \in {"insert", "cas", "reserve", "resolve"}
    <3>1. CASE SignupRead(h, u)
      <4> DEFINE r == [Idle EXCEPT !.pc = "insert", !.op = "signup", !.user = u,
                                   !.cap = playtest.cap]
      <4>1. rpc' = [rpc EXCEPT ![h] = r] /\ r.pc = "insert"
        BY <3>1 DEF SignupRead, Idle
      <4> QED
        BY <4>1
    <3>2. ASSUME NEW op, Start(h, op, u)
          PROVE  \E r : /\ rpc' = [rpc EXCEPT ![h] = r]
                        /\ r.pc \in {"insert", "cas", "reserve", "resolve"}
      <4> DEFINE r == [Idle EXCEPT
                        !.op = op, !.user = u,
                        !.pc = IF op = "reject" THEN "cas"
                               ELSE IF Pooled THEN "reserve" ELSE "resolve"]
      <4>1. rpc' = [rpc EXCEPT ![h] = r] /\ r.pc \in {"cas", "reserve", "resolve"}
        BY <3>2 DEF Start, Idle
      <4> QED
        BY <4>1
    <3> QED
      BY <1>1, <3>1, <3>2 DEF ReadForApprove, ReadForReject
  <2> QED
    BY <2>1, <2>2, LogEarlier
<1>2. ASSUME NEW h \in Handlers, Statement(h) PROVE LogInv'
  BY <1>2, LogStatement
<1>3. ASSUME NEW h \in Handlers, Abort(h) PROVE LogInv'
  BY <1>3, LogReturn DEF Abort
<1>4. CASE Environment \/ UNCHANGED vars
  <2>1. UNCHANGED <<applicant, audit, welcomed, rpc>>
    BY <1>4 DEF Environment, Reclaim, Restock, TransitionStatus, SoftDelete, EditCap, vars
  <2> QED
    BY <2>1, LogUntouched DEF AfterCommit
<1> QED
  BY <1>1, <1>2, <1>3, <1>4 DEF Next

\* The invariant behind the two results below.
THEOREM LogInductive == Spec => []LogInv
  BY LogInit, LogStep, Inductive, PTL DEF Spec

\* applicant.approve, applicant.auto_approved and applicant.reject rows tell the truth:
\* at most one per applicant, of the decision that was committed, whatever races or fails.
THEOREM TruthfulLog == Spec => []AuditMatchesDecision
<1>1. LogInv => AuditMatchesDecision
  BY DEF LogInv
<1> QED
  BY <1>1, LogInductive, PTL

\* The approval DM is asked for at most once, for an approved applicant, and after the
\* audit row when it was an admin who approved.
THEOREM OneWelcome == Spec => []WelcomeFollowsGrant
<1>1. LogInv => WelcomeFollowsGrant
  BY DEF LogInv
<1> QED
  BY <1>1, LogInductive, PTL

-----------------------------------------------------------------------------
(* The ledger.                                                             *)

\* The only statements that write the code table: the grant and the refill.
LEMMA CodeWrites ==
  ASSUME IInv, [Next]_vars
  PROVE  \/ UNCHANGED code
         \/ \E h \in Handlers : Commit(h)
         \/ UNCHANGED applicant /\ \E S \in SUBSET Codes : Restock(S)
<1>1. ASSUME NEW S \in SUBSET Codes, Reclaim(S) PROVE UNCHANGED code
  BY <1>1 DEF Reclaim, Releasable, IInv, ReservationNeverCommitted, TypeOK
<1>2. ASSUME NEW h \in Handlers, Reserve(h) PROVE UNCHANGED code
  BY <1>2 DEF Reserve, ReserveInTx
<1> QED
  BY <1>1, <1>2 DEF Next, Statement, Environment, vars, SignupRead, ReadForApprove,
     ReadForReject, InsertWins, InsertLoses, LockAndCount, ResolveURL, PoolEmpty,
     FencedFinalize, StatusCAS, AppendAudit, AuditFails, EnqueueWelcome, WelcomeSkipped,
     Abort, Restock, TransitionStatus, SoftDelete, EditCap

LEMMA LedgerInitial == Init => Ledger!LedgerInit
  BY DEF Init, Ledger!LedgerInit

LEMMA LedgerStep == IInv /\ [Next]_vars => [Ledger!LedgerNext]_(Ledger!ledgerVars)
<1> SUFFICES ASSUME IInv, [Next]_vars PROVE [Ledger!LedgerNext]_(Ledger!ledgerVars)
  OBVIOUS
<1> DEFINE decision == [u \in Users |-> applicant[u].status]
           holder == [c \in Codes |-> IF code[c].state = "GRANTED" THEN code[c].by ELSE None]
           stock == {c \in Codes : code[c].state \in {"UNUSED", "RESERVED"}}
<1>1. CASE UNCHANGED <<applicant, code>>
  BY <1>1 DEF Ledger!ledgerVars
<1>2. ASSUME NEW h \in Handlers, InsertWins(h) PROVE Ledger!LedgerNext
  <2>1. PICK u \in Users : u = rpc[h].user
    BY <1>2, InsertWinsWrites
  <2>2. UNCHANGED code
    BY <1>2 DEF InsertWins
  <2>3. decision[u] = "NONE" /\ decision' = [decision EXCEPT ![u] = "PENDING"]
    BY <1>2, <2>1, InsertWinsWrites DEF IInv, TypeOK
  <2>4. Ledger!Apply(u)
    BY <2>2, <2>3 DEF Ledger!Apply
  <2> QED
    BY <2>4 DEF Ledger!LedgerNext
<1>3. ASSUME NEW h \in Handlers, Commit(h) PROVE Ledger!LedgerNext
  <2>1. PICK u \in Users : u = rpc[h].user
    BY <1>3, CommitFacts
  <2>2. decision[u] = "PENDING" /\ decision' = [decision EXCEPT ![u] = rpc[h].appW]
    BY <1>3, <2>1, CommitFacts DEF Commit, IInv, TypeOK
  <2>3. CASE rpc[h].codeW = "none"
    <3>1. UNCHANGED <<holder, stock>>
      BY <1>3, <2>3 DEF Commit
    <3>2. CASE rpc[h].op = "reject"
      <4>1. Ledger!Refuse(u)
        BY <1>3, <2>2, <3>1, <3>2, CommitFacts DEF Ledger!Refuse
      <4> QED
        BY <4>1 DEF Ledger!LedgerNext
    <3>3. CASE rpc[h].op # "reject"
      <4>1. ~Pooled /\ rpc[h].appW = "APPROVED"
        BY <1>3, <2>3, <3>3, CommitFacts
      <4>2. Ledger!AwardWithoutCode(u)
        BY <2>2, <3>1, <4>1 DEF Ledger!AwardWithoutCode
      <4> QED
        BY <4>2 DEF Ledger!LedgerNext
    <3> QED
      BY <3>2, <3>3
  <2>4. CASE rpc[h].codeW # "none"
    <3>1. /\ Pooled /\ rpc[h].appW = "APPROVED" /\ rpc[h].codeW = "GRANTED"
          /\ rpc[h].pick \in Codes /\ code[rpc[h].pick].state = "UNUSED"
      BY <1>3, <2>4, CommitFacts
    <3>2. PICK c \in Codes : c = rpc[h].pick
      BY <3>1
    <3>3. code' = [code EXCEPT ![c] = [state |-> "GRANTED", by |-> u, tx |-> None]]
      BY <1>3, <2>1, <3>1, <3>2 DEF Commit
    <3>4. holder' = [holder EXCEPT ![c] = u]
      BY <3>3 DEF IInv, TypeOK
    <3>5. c \in stock /\ stock' = stock \ {c}
      BY <3>1, <3>2, <3>3 DEF IInv, TypeOK
    <3>6. Ledger!Award(u, c)
      BY <2>2, <3>1, <3>4, <3>5 DEF Ledger!Award
    <3> QED
      BY <3>6 DEF Ledger!LedgerNext
  <2> QED
    BY <2>3, <2>4
<1>4. ASSUME NEW S \in SUBSET Codes, Restock(S), UNCHANGED applicant
      PROVE  Ledger!LedgerNext
  <2>1. \A c \in S : code[c].state = "ABSENT"
    BY <1>4 DEF Restock
  <2>2. code' = [c \in Codes |-> IF c \in S
                                THEN [state |-> "UNUSED", by |-> None, tx |-> None]
                                ELSE code[c]]
    BY <1>4 DEF Restock
  <2>3. holder' = holder /\ stock' = stock \cup S
    BY <2>1, <2>2
  <2>4. S \subseteq {c \in Codes : holder[c] = None}
    BY <2>1
  <2>5. Ledger!Stock(S)
    BY <1>4, <2>3, <2>4 DEF Ledger!Stock
  <2> QED
    BY <2>5 DEF Ledger!LedgerNext
<1> QED
  BY <1>1, <1>2, <1>3, <1>4, ApplicantWrites, CodeWrites

\* The handlers, transactions, row locks, crashes and the reclaim worker implement the
\* ledger: a decision and the code it hands out change together, and nothing is undone.
THEOREM Refinement == Spec => ImplementsLedger
  BY LedgerInitial, LedgerStep, Inductive, PTL DEF Spec, ImplementsLedger, Ledger!LedgerSpec
=============================================================================
