---------------------------- MODULE Announcement ----------------------------
(***************************************************************************)
(* CreateAnnouncement: one bulk DM of an admin.  The request itself sends  *)
(* to one recipient after the other and writes the outcome of each as it   *)
(* goes; meanwhile applicants are decided, the playtest closes, the        *)
(* database fails, the caller gives up, the process dies.  Nothing resumes *)
(* a fan-out that stopped half-way.                                        *)
(***************************************************************************)
EXTENDS Integers, FiniteSets

CONSTANTS
  Announcements,  \* CreateAnnouncement requests
  Applicants,     \* of the playtest
  Unreachable,    \* those without a Discord id
  Wirings,        \* whether the bot client may be wired
  MaxCrashes      \* bound on restarts

ASSUME UnreachableAreApplicants == Unreachable \subseteq Applicants /\ IsFiniteSet(Applicants)
ASSUME SenderIsWiredOrNot == Wirings \subseteq BOOLEAN
ASSUME CrashesAreBounded == MaxCrashes \in Nat

VARIABLES
  status,     \* applicant.status
  closed,     \* playtest.status = 'CLOSED'
  row,        \* the announcement row of each request
  recipient,  \* announcement_recipient.dm_status, "none" where there is no row
  audit,      \* announcement.create
  delivered,  \* Discord: how often each applicant received each announcement
  hasSender,  \* this process has a bot client
  job,        \* where each request is
  crashes

tables == <<row, recipient, audit>>
outside == <<status, closed, delivered, hasSender>>
vars == <<outside, tables, job, crashes>>

Filters == {"ALL", "APPROVED_ONLY", "PENDING_ONLY"}

\* As everywhere: answered, failed without effect, or done but not answered.
Outcomes == {"answered", "failed", "lost"}
TakesEffect(o) == o # "failed"
Answered(o) == o = "answered"

NoRow == [status |-> "none", total |-> 0, sent |-> 0]
NotStarted == [pc |-> "idle", filter |-> "ALL", picked |-> {}, todo |-> {}, now |-> {}]

Init ==
  /\ status = [a \in Applicants |-> "PENDING"] /\ closed = FALSE
  /\ row = [k \in Announcements |-> NoRow]
  /\ recipient = [k \in Announcements |-> [a \in Applicants |-> "none"]]
  /\ audit = {}
  /\ delivered = [k \in Announcements |-> [a \in Applicants |-> 0]]
  /\ hasSender \in Wirings
  /\ job = [k \in Announcements |-> NotStarted]
  /\ crashes = 0

At(k, pc) == job[k].pc = pc
Goto(k, pc) == job' = [job EXCEPT ![k].pc = pc]
OnAnswer(k, o, pc) == Goto(k, IF Answered(o) THEN pc ELSE "failed")

-----------------------------------------------------------------------------

\* An admin approves or rejects.
Decide(a, d) ==
  /\ status[a] = "PENDING"
  /\ status' = [status EXCEPT ![a] = d]
  /\ UNCHANGED <<closed, delivered, hasSender, tables, job, crashes>>

Close ==
  /\ ~closed /\ closed' = TRUE
  /\ UNCHANGED <<status, delivered, hasSender, tables, job, crashes>>

CreateAnnouncement(k, f) ==
  /\ At(k, "idle")
  /\ job' = [job EXCEPT ![k].pc = IF closed THEN "failed" ELSE "resolve", ![k].filter = f]
  /\ UNCHANGED <<outside, tables, crashes>>

Matches(a, f) == \/ f = "ALL"
                 \/ f = "APPROVED_ONLY" /\ status[a] = "APPROVED"
                 \/ f = "PENDING_ONLY" /\ status[a] = "PENDING"

\* The recipients are those of this moment, whatever becomes of them.
ResolveRecipients(k) ==
  /\ At(k, "resolve")
  /\ LET those == {a \in Applicants : Matches(a, job[k].filter)} IN
       job' = [job EXCEPT ![k].pc = "insert", ![k].picked = those, ![k].todo = those]
  /\ UNCHANGED <<outside, tables, crashes>>

Insert(k, o) ==
  /\ At(k, "insert")
  /\ row' = IF TakesEffect(o)
            THEN [row EXCEPT ![k] = [status |-> "SENDING", sent |-> 0,
                                     total |-> Cardinality(job[k].picked)]]
            ELSE row
  /\ OnAnswer(k, o, "recipients")
  /\ UNCHANGED <<outside, recipient, audit, crashes>>

\* One statement for all of them, of its own: the announcement may be left without.
InsertRecipients(k, o) ==
  /\ At(k, "recipients")
  /\ recipient' = IF TakesEffect(o)
                  THEN [recipient EXCEPT ![k] = [a \in Applicants |->
                          IF a \in job[k].picked THEN "QUEUED" ELSE "none"]]
                  ELSE recipient
  /\ OnAnswer(k, o, "audit")
  /\ UNCHANGED <<outside, row, audit, crashes>>

AppendAnnouncementCreate(k, o) ==
  /\ At(k, "audit")
  /\ audit' = IF TakesEffect(o) THEN audit \cup {k} ELSE audit
  /\ Goto(k, "fanout")
  /\ UNCHANGED <<outside, row, recipient, crashes>>

-----------------------------------------------------------------------------
(* fanOutAnnouncement: one recipient at a time.  No error stops it, and    *)
(* those of the two Mark statements are dropped.                           *)

\* Who is next, and what is done first.  Without a sender the row stays QUEUED.
FirstStep(a) == IF a \in Unreachable THEN "mark_failed"
                ELSE IF hasSender THEN "send" ELSE "fanout"
NobodyTicked(k, a) == job[k].todo
Remaining(k, a) == job[k].todo \ {a}
NextRecipient(k, a) ==
  /\ At(k, "fanout") /\ a \in job[k].todo
  /\ job' = [job EXCEPT ![k].pc = FirstStep(a), ![k].now = {a},
                        ![k].todo = Remaining(k, a)]
  /\ UNCHANGED <<outside, tables, crashes>>

\* A DM that was delivered may still be reported as an error.
AfterErrorAgain(o) == IF Answered(o) THEN "mark_sent" ELSE "send"
AfterSend(o) == IF Answered(o) THEN "mark_sent" ELSE "mark_failed"
SendDM(k, a, o) ==
  /\ At(k, "send") /\ a \in job[k].now
  /\ delivered' = IF TakesEffect(o) THEN [delivered EXCEPT ![k][a] = @ + 1] ELSE delivered
  /\ Goto(k, AfterSend(o))
  /\ UNCHANGED <<status, closed, hasSender, tables, crashes>>

\* One transaction: the row of the recipient and the count of the announcement.
Counted(k, o) == [row EXCEPT ![k].sent = @ + 1]
CountSent(k, o) == IF TakesEffect(o) THEN [row EXCEPT ![k].sent = @ + 1] ELSE row
MarkRecipientSent(k, a, o) ==
  /\ At(k, "mark_sent") /\ a \in job[k].now
  /\ recipient' = IF TakesEffect(o) THEN [recipient EXCEPT ![k][a] = "SENT"] ELSE recipient
  /\ row' = CountSent(k, o)
  /\ Goto(k, "fanout")
  /\ UNCHANGED <<outside, audit, crashes>>

MarkRecipientFailed(k, a, o) ==
  /\ At(k, "mark_failed") /\ a \in job[k].now
  /\ recipient' = IF TakesEffect(o) THEN [recipient EXCEPT ![k][a] = "FAILED"] ELSE recipient
  /\ Goto(k, "fanout")
  /\ UNCHANGED <<outside, row, audit, crashes>>

Rows(k, s) == {a \in Applicants : recipient[k][a] = s}
HasRows(k) == Rows(k, "none") # Applicants

\* The aggregate of FinaliseStatus.  Over no rows its sums are NULL, every comparison is
\* unknown, and the ELSE branch answers.
AggregateOfMarked(k) ==
  CASE HasRows(k) /\ Rows(k, "SENT") = {} -> "FAILED"
    [] HasRows(k) /\ Rows(k, "FAILED") = {} -> "SENT"
    [] OTHER -> "PARTIAL"
Aggregate(k) ==
  CASE Rows(k, "QUEUED") # {} -> "SENDING"
    [] HasRows(k) /\ Rows(k, "SENT") \cup Rows(k, "QUEUED") = {} -> "FAILED"
    [] HasRows(k) /\ Rows(k, "FAILED") \cup Rows(k, "QUEUED") = {} -> "SENT"
    [] OTHER -> "PARTIAL"
FinaliseStatus(k, o) ==
  /\ At(k, "fanout") /\ job[k].todo = {}
  /\ row' = IF TakesEffect(o) THEN [row EXCEPT ![k].status = Aggregate(k)] ELSE row
  /\ Goto(k, "done")
  /\ UNCHANGED <<outside, recipient, audit, crashes>>

-----------------------------------------------------------------------------

Ended == {"done", "failed", "dead"}

Crash ==
  /\ crashes < MaxCrashes /\ crashes' = crashes + 1
  /\ job' = [k \in Announcements |-> IF job[k].pc \in Ended \cup {"idle"} THEN job[k]
                                     ELSE [job[k] EXCEPT !.pc = "dead"]]
  /\ hasSender' \in Wirings
  /\ UNCHANGED <<status, closed, delivered, tables>>

Step(k) ==
  \/ ResolveRecipients(k)
  \/ \E a \in Applicants : NextRecipient(k, a)
  \/ \E o \in Outcomes :
       \/ Insert(k, o) \/ InsertRecipients(k, o) \/ AppendAnnouncementCreate(k, o)
       \/ \E a \in Applicants : \/ SendDM(k, a, o)
                                \/ MarkRecipientSent(k, a, o) \/ MarkRecipientFailed(k, a, o)
       \/ FinaliseStatus(k, o)

Next ==
  \/ Close \/ Crash
  \/ \E a \in Applicants, d \in {"APPROVED", "REJECTED"} : Decide(a, d)
  \/ \E k \in Announcements : (\E f \in Filters : CreateAnnouncement(k, f)) \/ Step(k)

Spec == Init /\ [][Next]_vars

-----------------------------------------------------------------------------
(* Properties.                                                             *)

Places == {"idle", "resolve", "insert", "recipients", "audit", "fanout", "send",
           "mark_sent", "mark_failed"} \cup Ended

\* Every variable has the type of the column, the message or the local it stands for; the
\* count of a row never exceeds its total, which is a CHECK of the table.
TypeOK ==
  /\ status \in [Applicants -> {"PENDING", "APPROVED", "REJECTED"}] /\ closed \in BOOLEAN
  /\ row \in [Announcements -> [status : {"none", "SENDING", "SENT", "PARTIAL", "FAILED"},
                                total : Nat, sent : Nat]]
  /\ \A k \in Announcements : row[k].sent <= row[k].total
  /\ recipient \in [Announcements -> [Applicants -> {"none", "QUEUED", "SENT", "FAILED"}]]
  /\ audit \subseteq Announcements
  /\ delivered \in [Announcements -> [Applicants -> Nat]]
  /\ job \in [Announcements -> [pc : Places, filter : Filters, picked : SUBSET Applicants,
                                todo : SUBSET Applicants, now : SUBSET Applicants]]
  /\ hasSender \in BOOLEAN /\ crashes \in 0..MaxCrashes

\* recipients_sent is honest, through errors, lost answers and crashes: it counts the SENT
\* rows, a row is SENT only for somebody who got the message, and nobody gets it twice.
RecipientsSentIsHonest ==
  \A k \in Announcements :
    /\ row[k].sent = Cardinality(Rows(k, "SENT"))
    /\ \A a \in Applicants : /\ delivered[k][a] <= 1
                             /\ recipient[k][a] = "SENT" => delivered[k][a] = 1

\* A status other than SENDING is final and true: the call is over, nobody is left QUEUED,
\* SENT means that everybody picked got the message, FAILED that nobody is known to have.
VerdictIsTrue ==
  \A k \in Announcements : row[k].status \notin {"none", "SENDING"} =>
    /\ job[k].pc \in Ended /\ Rows(k, "QUEUED") = {}
    /\ row[k].status = "SENT" => \A a \in job[k].picked : delivered[k][a] = 1
    /\ row[k].status = "FAILED" => row[k].sent = 0
    /\ row[k].total = Cardinality(Rows(k, "SENT") \cup Rows(k, "FAILED"))
=============================================================================
