---------------------------- MODULE WindowWorker -----------------------------
(***************************************************************************)
(* The window worker (internal/window): the elected replica moves playtests*)
(* DRAFT -> OPEN -> CLOSED when startsAt and endsAt pass, while admins move*)
(* them with TransitionPlaytestStatus, edit the window and soft-delete.    *)
(* The window of a playtest is the time left to each of its ends.          *)
(***************************************************************************)
EXTENDS LeaderLease

CONSTANTS
  Playtests,
  Admins,    \* TransitionPlaytestStatus calls that may run at once
  Horizon    \* how far ahead of now an admin sets a window

ASSUME HorizonIsNat == Horizon \in Nat

VARIABLES
  playtest,  \* [status, starts, ends, deleted]; starts and ends may be None
  due,       \* per replica: the playtest rows its sweep still has to advance
  flipped,   \* per replica: the row whose transition it has to audit
  admin,     \* per call of TransitionPlaytestStatus: [pc, row]
  audit      \* playtest.status_transition rows per playtest and old status

rows == <<playtest, due, flipped, admin, audit>>
vars == <<leaseVars, rows>>

Times == 0..Horizon \cup {None}
Statuses == {"DRAFT", "OPEN", "CLOSED"}
Row == [id : Playtests, status : {"DRAFT", "OPEN"}]
NoRow == [id |-> None, status |-> "CLOSED"]
NoAdmin == [pc |-> "idle", row |-> NoRow]

\* nextStatus and isValidTransition: strictly linear, CLOSED is the end.
NextStatus(s) == CASE s = "DRAFT" -> "OPEN" [] s = "OPEN" -> "CLOSED"

-----------------------------------------------------------------------------
Init ==
  /\ LeaseInit
  /\ playtest \in [Playtests -> [status : {"DRAFT"}, starts : {None}, ends : {None},
                                 deleted : {FALSE}]]
  /\ due = [r \in Replicas |-> {}]
  /\ flipped = [r \in Replicas |-> NoRow]
  /\ admin = [a \in Admins |-> NoAdmin]
  /\ audit = [p \in Playtests |-> [s \in {"DRAFT", "OPEN"} |-> 0]]

Goto(r, p) == loop' = [loop EXCEPT ![r].pc = p]

\* The TransitionStatus UPDATE: WHERE status = from AND deleted_at IS NULL; MatchesId is
\* the same without the comparison of the status.
MatchesId(row) == ~playtest[row.id].deleted
Matches(row) ==
  playtest[row.id].status = row.status /\ ~playtest[row.id].deleted
SetStatus(row) ==
  playtest' = [playtest EXCEPT ![row.id].status = NextStatus(row.status)]

AppendTransition(row) == audit' = [audit EXCEPT ![row.id][row.status] = @ + 1]

-----------------------------------------------------------------------------
(* The sweep.                                                              *)

\* ListDueForAutoTransition, without its test of the status and with it.
DueByTimeOnly(p) == ~playtest[p].deleted /\ 0 \in {playtest[p].starts, playtest[p].ends}
Due(p) ==
  /\ ~playtest[p].deleted
  /\ \/ playtest[p].status = "DRAFT" /\ playtest[p].starts = 0
     \/ playtest[p].status = "OPEN" /\ playtest[p].ends = 0

ListDue(r) ==
  /\ loop[r].pc = "sweep"
  /\ due' = [due EXCEPT ![r] = {[id |-> p, status |-> playtest[p].status] :
                                 p \in {q \in Playtests : Due(q)}}]
  /\ Goto(r, "advance")
  /\ UNCHANGED <<lease, playtest, flipped, admin, audit>>

ListFails(r) ==
  /\ loop[r].pc = "sweep"
  /\ Goto(r, "idle")
  /\ UNCHANGED <<lease, rows>>

Advance(r, row) ==
  /\ loop[r].pc = "advance"
  /\ row \in due[r]
  /\ Matches(row)
  /\ SetStatus(row)
  /\ due' = [due EXCEPT ![r] = @ \ {row}]
  /\ flipped' = [flipped EXCEPT ![r] = row]
  /\ Goto(r, "audit")
  /\ UNCHANGED <<lease, admin, audit>>

\* ErrStatusCASMismatch or a database error: skip the row.  An error may reach the worker
\* after the UPDATE took effect.
SkipRow(r, row) ==
  /\ loop[r].pc = "advance"
  /\ row \in due[r]
  /\ playtest' = playtest \/ (Matches(row) /\ SetStatus(row))
  /\ due' = [due EXCEPT ![r] = @ \ {row}]
  /\ UNCHANGED <<leaseVars, flipped, admin, audit>>

\* A failed append is logged.
AuditFlip(r) ==
  /\ loop[r].pc = "audit"
  /\ AppendTransition(flipped[r]) \/ audit' = audit
  /\ flipped' = [flipped EXCEPT ![r] = NoRow]
  /\ Goto(r, "advance")
  /\ UNCHANGED <<lease, playtest, due, admin>>

SweepDone(r) ==
  /\ loop[r].pc = "advance"
  /\ due[r] = {}
  /\ Goto(r, "idle")
  /\ UNCHANGED <<lease, rows>>

Die(r) ==
  /\ Stop(r)
  /\ due' = [due EXCEPT ![r] = {}]
  /\ flipped' = [flipped EXCEPT ![r] = NoRow]
  /\ UNCHANGED <<playtest, admin, audit>>

-----------------------------------------------------------------------------
(* Admins.                                                                 *)

ReadForTransition(a, p) ==
  /\ admin[a] = NoAdmin
  /\ ~playtest[p].deleted
  /\ playtest[p].status # "CLOSED"
  /\ admin' = [admin EXCEPT ![a] =
                [pc |-> "cas", row |-> [id |-> p, status |-> playtest[p].status]]]
  /\ UNCHANGED <<leaseVars, playtest, due, flipped, audit>>

AdminTransition(a) ==
  /\ admin[a].pc = "cas"
  /\ Matches(admin[a].row)
  /\ SetStatus(admin[a].row)
  /\ admin' = [admin EXCEPT ![a].pc = "audit"]
  /\ UNCHANGED <<leaseVars, due, flipped, audit>>

AdminAudit(a) ==
  /\ admin[a].pc = "audit"
  /\ AppendTransition(admin[a].row)
  /\ admin' = [admin EXCEPT ![a] = NoAdmin]
  /\ UNCHANGED <<leaseVars, playtest, due, flipped>>

\* ErrStatusCASMismatch, an error, a cancelled request or the death of its replica.
AdminAborts(a) ==
  /\ admin[a] # NoAdmin
  /\ admin' = [admin EXCEPT ![a] = NoAdmin]
  /\ UNCHANGED <<leaseVars, playtest, due, flipped, audit>>

\* EditPlaytest writes both ends of the window; validateWindow wants ends > starts.
EditWindow(p, starts, ends) ==
  /\ ~playtest[p].deleted
  /\ None \notin {starts, ends} => starts < ends
  /\ playtest' = [playtest EXCEPT ![p].starts = starts, ![p].ends = ends]
  /\ UNCHANGED <<leaseVars, due, flipped, admin, audit>>

SoftDelete(p) ==
  /\ ~playtest[p].deleted
  /\ playtest' = [playtest EXCEPT ![p].deleted = TRUE]
  /\ UNCHANGED <<leaseVars, due, flipped, admin, audit>>

Sooner(t) == IF t \in {None, 0} THEN t ELSE t - 1
Tick ==
  /\ Elapse
  /\ playtest' = [p \in Playtests |->
       [playtest[p] EXCEPT !.starts = Sooner(@), !.ends = Sooner(@)]]
  /\ UNCHANGED <<due, flipped, admin, audit>>

-----------------------------------------------------------------------------
Sweep(r) ==
  \/ ListDue(r) \/ ListFails(r) \/ AuditFlip(r) \/ SweepDone(r)
  \/ \E row \in Row : Advance(r, row) \/ SkipRow(r, row)

Admin ==
  \/ \E a \in Admins, p \in Playtests : ReadForTransition(a, p)
  \/ \E a \in Admins : AdminTransition(a) \/ AdminAudit(a) \/ AdminAborts(a)
  \/ \E p \in Playtests : SoftDelete(p)
  \/ \E p \in Playtests, s, e \in Times : EditWindow(p, s, e)

Next ==
  \/ \E r \in Replicas : LoopStep(r) /\ UNCHANGED rows
  \/ \E r \in Replicas : Sweep(r) \/ Die(r)
  \/ Admin
  \/ Tick

Spec == Init /\ [][Next]_vars

\* Time passes, dead replicas are restarted and do not die for ever, loops run on.  Of the
\* database calls that are made again and again not every one fails, nor comes too late
\* for the lease.
Fairness ==
  /\ WF_vars(Tick)
  /\ <>[][\A r \in Replicas : ~Die(r)]_vars
  /\ \A r \in Replicas :
       /\ WF_vars((Boot(r) \/ Wake(r) \/ NotAcquired(r) \/ NotRefreshed(r)) /\ UNCHANGED rows)
       /\ WF_vars(Sweep(r))
  /\ SF_vars(\E r \in Replicas : Acquired(r) /\ UNCHANGED rows)
  /\ SF_vars(\E r \in Replicas : Refreshed(r) /\ UNCHANGED rows)
  /\ SF_vars(\E r \in Replicas : ListDue(r))
  /\ \A p \in Playtests :
       SF_vars(\E r \in Replicas : \E row \in Row : row.id = p /\ Advance(r, row))
FairSpec == Spec /\ Fairness

-----------------------------------------------------------------------------
(* Properties                                                              *)

TypeOK ==
  /\ LeaseTypeOK
  /\ playtest \in [Playtests -> [status : Statuses, starts : Times, ends : Times,
                                 deleted : BOOLEAN]]
  /\ due \in [Replicas -> SUBSET Row]
  /\ flipped \in [Replicas -> Row \cup {NoRow}]
  /\ admin \in [Admins -> [pc : {"idle", "cas", "audit"}, row : Row \cup {NoRow}]]
  /\ audit \in [Playtests -> [{"DRAFT", "OPEN"} -> Nat]]

\* A transition has one author: it leaves at most one playtest.status_transition row, and
\* that row never comes before the transition.
AuditedAtMostOnce ==
  \A p \in Playtests : \A s \in {"DRAFT", "OPEN"} :
    /\ audit[p][s] <= 1
    /\ audit[p][s] = 1 => playtest[p].status \in {NextStatus(s), "CLOSED"}

\* Whoever moves a playtest, admins or two workers that both believe they lead after a
\* lease ran out under a slow sweep: its status goes forward one step at a time, a deleted
\* playtest stays as it was, and each transition is logged once at most, after it was made.
Lifecycle == INSTANCE PlaytestLifecycle WITH
  status <- [p \in Playtests |-> playtest[p].status],
  deleted <- [p \in Playtests |-> playtest[p].deleted],
  logged <- audit
ImplementsLifecycle == Lifecycle!LifecycleSpec

\* A playtest whose startsAt or endsAt has passed is moved, although leaders die with
\* the lease in hand, lose it under a slow sweep and fail to release it, unless an admin
\* moves the window or deletes the playtest first.
DueIsAdvanced ==
  \A row \in Row :
    playtest[row.id].status = row.status /\ Due(row.id)
      ~> ~(playtest[row.id].status = row.status /\ Due(row.id))

=============================================================================
