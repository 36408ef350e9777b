------------------------------ MODULE CodeGrant ------------------------------
(***************************************************************************)
(* Signup with auto-approve, ApproveApplicant and RejectApplicant of one   *)
(* playtest, served concurrently by the goroutines of every replica against*)
(* one Postgres database (pkg/service/applicant.go, pkg/service/approve.go,*)
(* pkg/repo).  A request is a program counter; the statements of its       *)
(* transaction are separate steps.  READ COMMITTED is modelled by a write  *)
(* set per request: codeW and appW are the values its transaction has      *)
(* written to the code row `pick` and to the applicant row `user`, nobody  *)
(* else sees them before Commit, and the row stays locked until then.      *)
(***************************************************************************)
EXTENDS Naturals, FiniteSets

CONSTANTS
  Users,        \* players; UNIQUE(playtest_id, user_id) makes a user an applicant
  Codes,        \* rows the code table may come to hold
  Handlers,     \* requests that may be in service at the same time
  Limits,       \* values an admin may set auto_approve_limit to
  Pooled,       \* TRUE: STEAM_KEYS / AGS_CAMPAIGN; FALSE: ADT
  UrlOutcomes,  \* what resolving an ADT download URL may return
  None

ASSUME UsersAreFinite == IsFiniteSet(Users)
ASSUME LimitsAreNat == Limits \subseteq Nat
ASSUME NoneIsNothing == None \notin Users \cup Codes \cup Limits \cup Handlers
ASSUME PooledIsBool == Pooled \in BOOLEAN
ASSUME UrlOutcomesAssumption == UrlOutcomes \subseteq {"url", "error"}

VARIABLES
  playtest,   \* [status, deleted, cap]: cap is auto_approve_limit, None when off
  applicant,  \* the applicant table: [status, code, auto] per user, NONE = no row
  code,       \* the code table: [state, by, tx] per code, ABSENT = no row yet
  rpc,        \* the requests in service
  audit,      \* number of audit_log rows per user and action
  orphaned,   \* a code.grant_orphaned audit row was written
  welcomed    \* number of approval DM jobs handed to the DM queue per user

vars == <<playtest, applicant, code, rpc, audit, orphaned, welcomed>>

Ops == {"signup", "approve", "reject"}
AuditActions == {"applicant.approve", "applicant.auto_approved", "applicant.reject"}
Idle == [pc |-> "idle", op |-> "none", user |-> None, cap |-> None,
         pick |-> None, codeW |-> "none", appW |-> "none"]

-----------------------------------------------------------------------------
(* Row locks, advisory locks and what a transaction sees.                  *)

CodeLocked(c) == \E g \in Handlers : rpc[g].codeW # "none" /\ rpc[g].pick = c
ApplicantLocked(u) == \E g \in Handlers : rpc[g].appW # "none" /\ rpc[g].user = u

\* Between taking pg_advisory_xact_lock('autoapprove:' || id) and the end of that tx.
InAutoTx(g) ==
  rpc[g].op = "signup" /\ rpc[g].pc \in {"reserve", "finalize", "cas", "commit"}

NoAdvisoryLock(h) == TRUE
AdvisoryFree(h) == \A g \in Handlers \ {h} : ~InAutoTx(g)

AutoApproved == {u \in Users : applicant[u].auto}

\* FOR UPDATE SKIP LOCKED: a row another transaction holds is passed over.
AnyUnused(c) == code[c].state = "UNUSED"
Reservable(c) == code[c].state = "UNUSED" /\ ~CodeLocked(c)

\* The fence: the row as this transaction sees it is still its own reservation.
OwnReservation(h) ==
  \/ rpc[h].codeW = "RESERVED"
  \/ /\ rpc[h].codeW = "none"
     /\ code[rpc[h].pick] = [state |-> "RESERVED", by |-> rpc[h].user, tx |-> h]

\* The CAS predicate of ApproveCAS, ApproveCASNoCode and RejectCAS.
StillPending(u) == applicant[u].status = "PENDING"

Return(h) == rpc' = [rpc EXCEPT ![h] = Idle]
Goto(h, p) == rpc' = [rpc EXCEPT ![h].pc = p]

-----------------------------------------------------------------------------
Init ==
  /\ playtest \in [status : {"DRAFT"}, deleted : {FALSE}, cap : Limits \cup {None}]
  /\ applicant = [u \in Users |-> [status |-> "NONE", code |-> None, auto |-> FALSE]]
  /\ code = [c \in Codes |-> [state |-> "ABSENT", by |-> None, tx |-> None]]
  /\ rpc = [h \in Handlers |-> Idle]
  /\ audit = [u \in Users |-> [a \in AuditActions |-> 0]]
  /\ orphaned = FALSE
  /\ welcomed = [u \in Users |-> 0]

-----------------------------------------------------------------------------
(* Signup.  The playtest row read here is used until the request ends.  The *)
(* lookup of an existing applicant directly follows it: a row that appears  *)
(* in between is met again by the unique index, with the same answer.      *)

SignupRead(h, u) ==
  /\ rpc[h] = Idle
  /\ ~playtest.deleted
  /\ playtest.status = "OPEN"
  /\ applicant[u].status = "NONE"
  /\ rpc' = [rpc EXCEPT ![h] = [Idle EXCEPT !.pc = "insert", !.op = "signup",
                                            !.user = u, !.cap = playtest.cap]]
  /\ UNCHANGED <<playtest, applicant, code, audit, orphaned, welcomed>>

\* Auto-approve is tried when the playtest row read above had it on.
AfterInsertUnchecked(h) == "lock"
AfterInsert(h) == IF rpc[h].cap # None THEN "lock" ELSE "done"

InsertWins(h) ==
  /\ rpc[h].pc = "insert"
  /\ applicant[rpc[h].user].status = "NONE"
  /\ applicant' = [applicant EXCEPT ![rpc[h].user].status = "PENDING"]
  /\ IF AfterInsert(h) = "lock" THEN Goto(h, "lock") ELSE Return(h)
  /\ UNCHANGED <<playtest, code, audit, orphaned, welcomed>>

\* ErrUniqueViolation: a racing signup of the same player won; its row is returned.
InsertRetried(h) ==
  /\ rpc[h].pc = "insert"
  /\ applicant[rpc[h].user].status # "NONE"
  /\ Goto(h, "insert")
  /\ UNCHANGED <<playtest, applicant, code, audit, orphaned, welcomed>>
InsertLoses(h) ==
  /\ rpc[h].pc = "insert"
  /\ applicant[rpc[h].user].status # "NONE"
  /\ Return(h)
  /\ UNCHANGED <<playtest, applicant, code, audit, orphaned, welcomed>>

\* Begin, lock and count: nobody else can change the count while the lock is held.
\* At the cap the transaction rolls back and the applicant stays PENDING.
LockAndCount(h) ==
  /\ rpc[h].pc = "lock"
  /\ AdvisoryFree(h)
  /\ IF Cardinality(AutoApproved) >= rpc[h].cap
     THEN Return(h)
     ELSE Goto(h, IF Pooled THEN "reserve" ELSE "cas")
  /\ UNCHANGED <<playtest, applicant, code, audit, orphaned, welcomed>>

-----------------------------------------------------------------------------
(* Approve and reject.  The applicant and the playtest are read before the  *)
(* transaction; a decided applicant, or a playtest that is not OPEN, ends   *)
(* the request.  An applicant exists only once its playtest has been OPEN   *)
(* and status never goes back, so the two reads can be taken as one.       *)

Start(h, op, u) ==
  rpc' = [rpc EXCEPT ![h] = [Idle EXCEPT
            !.op = op, !.user = u,
            !.pc = IF op = "reject" THEN "cas"
                   ELSE IF Pooled THEN "reserve" ELSE "resolve"]]

ReadForApproveResending(h, u) ==
  /\ rpc[h] = Idle
  /\ applicant[u].status \in {"PENDING", "APPROVED"}
  /\ IF applicant[u].status = "APPROVED"
     THEN rpc' = [rpc EXCEPT ![h] = [Idle EXCEPT !.op = "approve", !.user = u,
                                                 !.pc = "enqueue"]]
     ELSE Start(h, "approve", u)
  /\ UNCHANGED <<playtest, applicant, code, audit, orphaned, welcomed>>
ReadForApprove(h, u) ==
  /\ rpc[h] = Idle
  /\ applicant[u].status = "PENDING"
  /\ ~playtest.deleted /\ playtest.status = "OPEN"
  /\ Start(h, "approve", u)
  /\ UNCHANGED <<playtest, applicant, code, audit, orphaned, welcomed>>

ReadForReject(h, u) ==
  /\ rpc[h] = Idle
  /\ applicant[u].status = "PENDING"
  /\ ~playtest.deleted /\ playtest.status = "OPEN"
  /\ Start(h, "reject", u)
  /\ UNCHANGED <<playtest, applicant, code, audit, orphaned, welcomed>>

\* approveADT resolves the URL before its transaction; a failure leaves PENDING.
ResolveURL(h) ==
  /\ rpc[h].pc = "resolve"
  /\ \E o \in UrlOutcomes : IF o = "url" THEN Goto(h, "cas") ELSE Return(h)
  /\ UNCHANGED <<playtest, applicant, code, audit, orphaned, welcomed>>

-----------------------------------------------------------------------------
(* The grant transaction, shared by approve and auto-approve.              *)

\* In a transaction of its own the reservation would be visible, unlocked and open to
\* the reclaim worker at once.
ReserveInOwnTx(h, c) ==
  /\ code' = [code EXCEPT ![c] = [state |-> "RESERVED", by |-> rpc[h].user, tx |-> h]]
  /\ rpc' = [rpc EXCEPT ![h].pc = "finalize", ![h].pick = c]
ReserveInTx(h, c) ==
  /\ rpc' = [rpc EXCEPT ![h].pc = "finalize", ![h].pick = c, ![h].codeW = "RESERVED"]
  /\ code' = code

\* ORDER BY created_at: all rows of one upload share it, so any of them may be next.
Reserve(h) ==
  /\ rpc[h].pc = "reserve"
  /\ \E c \in Codes : Reservable(c) /\ ReserveInTx(h, c)
  /\ UNCHANGED <<playtest, applicant, audit, orphaned, welcomed>>

\* ErrPoolEmpty rolls back.  Codes that other transactions hold count as gone.
PoolEmpty(h) ==
  /\ rpc[h].pc = "reserve"
  /\ \A c \in Codes : ~Reservable(c)
  /\ Return(h)
  /\ UNCHANGED <<playtest, applicant, code, audit, orphaned, welcomed>>

\* 0 rows: roll back, and ApproveApplicant records code.grant_orphaned.
FencedFinalize(h) ==
  /\ rpc[h].pc = "finalize"
  /\ IF OwnReservation(h)
     THEN /\ rpc' = [rpc EXCEPT ![h].pc = "cas", ![h].codeW = "GRANTED"]
          /\ orphaned' = orphaned
     ELSE /\ Return(h)
          /\ orphaned' = (orphaned \/ rpc[h].op = "approve")
  /\ UNCHANGED <<playtest, applicant, code, audit, welcomed>>

\* UPDATE ... WHERE status = 'PENDING' waits for the row lock, then looks again.
\* No row: ErrStatusCASMismatch, roll back.
AfterMismatchLoose(h) == Goto(h, "audit")
AfterMismatch(h) == Return(h)

StatusCAS(h) ==
  /\ rpc[h].pc = "cas"
  /\ ~ApplicantLocked(rpc[h].user)
  /\ IF StillPending(rpc[h].user)
     THEN rpc' = [rpc EXCEPT ![h].pc = "commit",
                             ![h].appW = IF rpc[h].op = "reject" THEN "REJECTED"
                                         ELSE "APPROVED"]
     ELSE AfterMismatch(h)
  /\ UNCHANGED <<playtest, applicant, code, audit, orphaned, welcomed>>

\* Both writes become visible and both row locks and the advisory lock are released.
\* reserved_by survives the grant; reserved_at is never read again.
Commit(h) ==
  LET u == rpc[h].user
      c == rpc[h].pick
  IN /\ rpc[h].pc = "commit"
     /\ applicant' = [applicant EXCEPT ![u] =
          IF rpc[h].appW = "APPROVED"
          THEN [status |-> "APPROVED", code |-> c, auto |-> rpc[h].op = "signup"]
          ELSE [status |-> "REJECTED", code |-> None, auto |-> FALSE]]
     /\ code' = IF rpc[h].codeW = "GRANTED"
                THEN [code EXCEPT ![c] = [state |-> "GRANTED", by |-> u, tx |-> None]]
                ELSE code
     /\ rpc' = [rpc EXCEPT ![h] = [Idle EXCEPT !.pc = "audit", !.op = rpc[h].op,
                                               !.user = u]]
     /\ UNCHANGED <<playtest, audit, orphaned, welcomed>>

-----------------------------------------------------------------------------
(* After the commit, outside any transaction.                              *)

ActionOf(op) == CASE op = "approve" -> "applicant.approve"
                  [] op = "signup" -> "applicant.auto_approved"
                  [] op = "reject" -> "applicant.reject"

AppendAudit(h) ==
  /\ rpc[h].pc = "audit"
  /\ audit' = [audit EXCEPT ![rpc[h].user][ActionOf(rpc[h].op)] = @ + 1]
  /\ IF rpc[h].op = "reject" THEN Return(h) ELSE Goto(h, "enqueue")
  /\ UNCHANGED <<playtest, applicant, code, orphaned, welcomed>>

\* A failed append fails the RPC of an admin, who gets no DM sent; auto-approve only
\* logs it and goes on to the DM.
AuditFailureIgnored(h) == Goto(h, "enqueue")
AfterAuditFailure(h) ==
  IF rpc[h].op = "signup" THEN Goto(h, "enqueue") ELSE Return(h)

AuditFails(h) ==
  /\ rpc[h].pc = "audit"
  /\ AfterAuditFailure(h)
  /\ UNCHANGED <<playtest, applicant, code, audit, orphaned, welcomed>>

EnqueueWelcome(h) ==
  /\ rpc[h].pc = "enqueue"
  /\ Pooled \/ rpc[h].op = "approve" \/ "url" \in UrlOutcomes
  /\ welcomed' = [welcomed EXCEPT ![rpc[h].user] = @ + 1]
  /\ Return(h)
  /\ UNCHANGED <<playtest, applicant, code, audit, orphaned>>

\* Auto-approve of an ADT playtest resolves the URL only now, after the commit.
WelcomeSkipped(h) ==
  /\ rpc[h].pc = "enqueue"
  /\ ~Pooled /\ rpc[h].op = "signup" /\ "error" \in UrlOutcomes
  /\ Return(h)
  /\ UNCHANGED <<playtest, applicant, code, audit, orphaned, welcomed>>

\* A database error, a cancelled context or the death of the process, at any point:
\* an open transaction rolls back, what is committed stays, the rest never runs.
Abort(h) ==
  /\ rpc[h].pc # "idle"
  /\ Return(h)
  /\ UNCHANGED <<playtest, applicant, code, audit, orphaned, welcomed>>

-----------------------------------------------------------------------------
(* Everything else that writes these rows.                                 *)

\* The reclaim worker's UPDATE touches committed RESERVED rows; S is those among
\* them older than the reservation TTL.
ReleasesAnything(c) == code[c].state \in {"RESERVED", "GRANTED"} /\ ~CodeLocked(c)
Releasable(c) == code[c].state = "RESERVED" /\ ~CodeLocked(c)

Reclaim(S) ==
  /\ \A c \in S : Releasable(c)
  /\ code' = [c \in Codes |-> IF c \in S
                              THEN [state |-> "UNUSED", by |-> None, tx |-> None]
                              ELSE code[c]]
  /\ UNCHANGED <<playtest, applicant, rpc, audit, orphaned, welcomed>>

\* UploadCodes, TopUpCodes and SyncFromAGS commit a batch.  They look at the playtest
\* before their transaction and never at its status.
Restock(S) ==
  /\ Pooled
  /\ \A c \in S : code[c].state = "ABSENT"
  /\ code' = [c \in Codes |-> IF c \in S
                              THEN [state |-> "UNUSED", by |-> None, tx |-> None]
                              ELSE code[c]]
  /\ UNCHANGED <<playtest, applicant, rpc, audit, orphaned, welcomed>>

\* TransitionPlaytestStatus or the window worker: one CAS UPDATE.
TransitionStatus ==
  /\ ~playtest.deleted
  /\ \/ playtest.status = "DRAFT" /\ playtest' = [playtest EXCEPT !.status = "OPEN"]
     \/ playtest.status = "OPEN" /\ playtest' = [playtest EXCEPT !.status = "CLOSED"]
  /\ UNCHANGED <<applicant, code, rpc, audit, orphaned, welcomed>>

SoftDelete ==
  /\ ~playtest.deleted
  /\ playtest' = [playtest EXCEPT !.deleted = TRUE]
  /\ UNCHANGED <<applicant, code, rpc, audit, orphaned, welcomed>>

\* The part of EditPlaytest that this module reads: autoApprove and its limit.
EditCap(l) ==
  /\ ~playtest.deleted
  /\ playtest' = [playtest EXCEPT !.cap = l]
  /\ UNCHANGED <<applicant, code, rpc, audit, orphaned, welcomed>>

-----------------------------------------------------------------------------
Statement(h) ==
  \/ InsertWins(h) \/ InsertLoses(h) \/ LockAndCount(h) \/ ResolveURL(h)
  \/ Reserve(h) \/ PoolEmpty(h) \/ FencedFinalize(h) \/ StatusCAS(h) \/ Commit(h)
  \/ AppendAudit(h) \/ AuditFails(h) \/ EnqueueWelcome(h) \/ WelcomeSkipped(h)

Environment ==
  \/ \E S \in SUBSET Codes : Reclaim(S) \/ Restock(S)
  \/ TransitionStatus
  \/ SoftDelete
  \/ \E l \in Limits \cup {None} : EditCap(l)

Next ==
  \/ \E h \in Handlers, u \in Users :
       SignupRead(h, u) \/ ReadForApprove(h, u) \/ ReadForReject(h, u)
  \/ \E h \in Handlers : Statement(h) \/ Abort(h)
  \/ Environment

Spec == Init /\ [][Next]_vars

\* A goroutine runs on until its request ends.  Postgres grants row and advisory locks in
\* the order they were asked for, so a waiter whose lock keeps coming free gets it.
Fairness == \A h \in Handlers : SF_vars(Statement(h))
FairSpec == Spec /\ Fairness

-----------------------------------------------------------------------------
(* Properties                                                              *)

Statuses == {"NONE", "PENDING", "APPROVED", "REJECTED"}
Pcs == {"idle", "insert", "lock", "resolve", "reserve", "finalize", "cas", "commit",
        "audit", "enqueue"}
Requests == [pc : Pcs, op : Ops \cup {"none"}, user : Users \cup {None},
             cap : Limits \cup {None}, pick : Codes \cup {None},
             codeW : {"none", "RESERVED", "GRANTED"},
             appW : {"none", "APPROVED", "REJECTED"}]

\* Types, and: a request that tries to auto-approve has a limit to compare with
\* (Signup checks AutoApproveLimit != nil before tryAutoApprove dereferences it).
TypeOK ==
  /\ playtest \in [status : {"DRAFT", "OPEN", "CLOSED"}, deleted : BOOLEAN,
                   cap : Limits \cup {None}]
  /\ applicant \in [Users -> [status : Statuses, code : Codes \cup {None}, auto : BOOLEAN]]
  /\ code \in [Codes -> [state : {"ABSENT", "UNUSED", "RESERVED", "GRANTED"},
                         by : Users \cup {None}, tx : Handlers \cup {None}]]
  /\ rpc \in [Handlers -> Requests]
  /\ audit \in [Users -> [AuditActions -> Nat]]
  /\ orphaned \in BOOLEAN
  /\ welcomed \in [Users -> Nat]
  /\ \A h \in Handlers : rpc[h].pc = "lock" \/ InAutoTx(h) => rpc[h].cap \in Limits

\* Reserve, finalize and CAS share one transaction, so no other session ever sees a
\* RESERVED row: whatever the timing, the reclaim worker finds nothing to release.
ReservationNeverCommitted == \A c \in Codes : code[c].state # "RESERVED"

\* The fenced finalize never misses: code.grant_orphaned and the Aborted reply of
\* mapApproveTxError cannot happen, under any interleaving with reclaim and crashes.
FenceNeverMisses == ~orphaned

\* The two tables agree: a code is GRANTED, to the user in reserved_by, exactly when that
\* user's row points to it.  So no code has two owners, no owner two codes, no granted
\* code is stranded by a rollback, and a pool playtest approves nobody without a code.
GrantsMatch ==
  /\ \A u \in Users, c \in Codes :
       applicant[u].code = c <=> code[c].state = "GRANTED" /\ code[c].by = u
  /\ \A u \in Users : applicant[u].code # None => applicant[u].status = "APPROVED"
  /\ Pooled => \A u \in Users : applicant[u].status = "APPROVED" => applicant[u].code # None

\* While an auto-approval is under way the count it compared with the limit stays under
\* the limit it read, however many signups race for the last place.
CountStaysUnderCap ==
  \A h \in Handlers : InAutoTx(h) => Cardinality(AutoApproved) < rpc[h].cap

\* auto_approve_limit bounds auto-approvals: their number never passes the largest limit
\* an admin may have configured.
AutoApproveCapHolds ==
  AutoApproved # {} => \E l \in Limits : Cardinality(AutoApproved) <= l

\* APPROVED and REJECTED are terminal, with the code and the attribution they were
\* decided with, and nobody returns from PENDING to not having applied.
DecisionsAreFinal ==
  [][\A u \in Users :
       /\ applicant[u].status \in {"APPROVED", "REJECTED"} => applicant'[u] = applicant[u]
       /\ applicant[u].status = "PENDING" => applicant'[u].status # "NONE"]_vars

\* The audit log never says more than what was committed: at most one decision row per
\* applicant, and of the action that decided.
AuditMatchesDecision ==
  \A u \in Users : \A a \in AuditActions : audit[u][a] > 0 =>
    /\ audit[u][a] = 1
    /\ a = IF applicant[u].status = "REJECTED" THEN "applicant.reject"
           ELSE IF applicant[u].auto THEN "applicant.auto_approved" ELSE "applicant.approve"
    /\ applicant[u].status \in {"APPROVED", "REJECTED"}

\* The approval DM is enqueued at most once, only for approved applicants and, when an
\* admin approved, only once the applicant.approve row is in the log.
WelcomeFollowsGrant ==
  \A u \in Users : welcomed[u] > 0 =>
    /\ welcomed[u] = 1
    /\ applicant[u].status = "APPROVED"
    /\ ~applicant[u].auto => audit[u]["applicant.approve"] = 1

\* Request h asks for a lock that request g holds: the advisory lock, or the applicant row.
\* Nobody waits for a code row, which are taken with SKIP LOCKED.
WaitsFor(h, g) ==
  \/ rpc[h].pc = "lock" /\ InAutoTx(g)
  \/ rpc[h].pc = "cas" /\ rpc[g].appW # "none" /\ rpc[g].user = rpc[h].user

\* No deadlock: whoever waits for somebody who waits, waits in the end for a request that
\* has all its locks.  A circle of any length would break this.
NoCircularWait ==
  \A f, g, h \in Handlers :
    WaitsFor(f, g) /\ WaitsFor(g, h) => \A k \in Handlers : ~WaitsFor(h, k)

\* Every request ends: the advisory lock, the code rows and the applicant rows are
\* taken in an order in which requests cannot wait for each other in a circle.
RequestsTerminate == \A h \in Handlers : rpc[h].pc # "idle" ~> rpc[h].pc = "idle"

\* All of it implements the ledger: each step changes a decision together with the
\* holder of the code, or nothing the ledger can see.
Ledger == INSTANCE GrantLedger WITH
  decision <- [u \in Users |-> applicant[u].status],
  holder <- [c \in Codes |-> IF code[c].state = "GRANTED" THEN code[c].by ELSE None],
  stock <- {c \in Codes : code[c].state \in {"UNUSED", "RESERVED"}}
ImplementsLedger == Ledger!LedgerSpec

-----------------------------------------------------------------------------
(* What the documents say and the code does not do.                        *)

\* docs/PRD.md on ADT auto-approve: when no URL can be resolved "the auto-approve attempt
\* also silently falls back to PENDING".
UnresolvedStaysPending ==
  "url" \notin UrlOutcomes => \A u \in Users : applicant[u].status # "APPROVED"
=============================================================================
