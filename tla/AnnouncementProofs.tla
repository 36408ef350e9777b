------------------------- MODULE AnnouncementProofs -------------------------
(***************************************************************************)
(* Theorems about Announcement for every set of requests and applicants    *)
(* and any number of restarts.                                             *)
(***************************************************************************)
EXTENDS Announcement, FiniteSetTheorems, TLAPS

-----------------------------------------------------------------------------
(* The inductive invariant.                                                *)

Jobs == [pc : Places, filter : Filters, picked : SUBSET Applicants,
         todo : SUBSET Applicants, now : SUBSET Applicants]

Types ==
  /\ status \in [Applicants -> {"PENDING", "APPROVED", "REJECTED"}]
  /\ closed \in BOOLEAN
  /\ row \in [Announcements -> [status : {"none", "SENDING", "SENT", "PARTIAL", "FAILED"},
                                total : Nat, sent : Nat]]
  /\ recipient \in [Announcements -> [Applicants -> {"none", "QUEUED", "SENT", "FAILED"}]]
  /\ audit \subseteq Announcements
  /\ delivered \in [Announcements -> [Applicants -> Nat]]
  /\ job \in [Announcements -> Jobs]
  /\ hasSender \in BOOLEAN
  /\ crashes \in 0..MaxCrashes

\* Nobody has heard of the announcement, or at most knows that a row waits for it.
Waiting(k, a) == delivered[k][a] = 0 /\ recipient[k][a] \in {"none", "QUEUED"}

\* What a request has picked, still has to do, and does now.
JobOK(k) ==
  LET j == job[k] IN
  /\ j.todo \subseteq j.picked /\ j.now \subseteq j.picked \ j.todo
  /\ \A a, b \in j.now : a = b
  /\ \A a \in Applicants \ j.picked : delivered[k][a] = 0 /\ recipient[k][a] = "none"
  /\ j.pc \in {"idle", "resolve"} => j.picked = {}
  /\ j.pc \in {"insert", "recipients", "audit"} => j.todo = j.picked
  /\ j.pc \in {"audit", "fanout", "send", "mark_sent", "mark_failed"} =>
       \A a \in j.picked : recipient[k][a] # "none"

\* How far each recipient is.
RecipientOK(k) ==
  LET j == job[k] IN
  /\ \A a \in j.todo : Waiting(k, a)
  /\ j.pc = "send" => \A a \in j.now : Waiting(k, a)
  /\ j.pc = "mark_sent" => \A a \in j.now : delivered[k][a] = 1
  /\ j.pc \in {"mark_sent", "mark_failed"} =>
       \A a \in j.now : recipient[k][a] \in {"none", "QUEUED"}
  /\ \A a \in Applicants : /\ delivered[k][a] <= 1
                           /\ recipient[k][a] = "SENT" => delivered[k][a] = 1

\* The row counts the recipients picked and the recipients sent to.
RowOK(k) ==
  /\ job[k].pc \in {"idle", "resolve", "insert"} => row[k].status = "none"
  /\ row[k].status = "none" => row[k].total = 0 /\ \A a \in Applicants : recipient[k][a] = "none"
  /\ row[k].status # "none" => row[k].total = Cardinality(job[k].picked)
  /\ job[k].pc \in {"recipients", "audit", "fanout", "send", "mark_sent", "mark_failed"} =>
       row[k].status # "none"
  /\ row[k].sent = Cardinality(Rows(k, "SENT"))

\* A verdict is the last word of a request.
VerdictOK(k) ==
  row[k].status \notin {"none", "SENDING"} =>
    /\ job[k].pc = "done" /\ Rows(k, "QUEUED") = {}
    /\ job[k].picked = Rows(k, "SENT") \cup Rows(k, "FAILED")
    /\ row[k].status = "SENT" => Rows(k, "FAILED") = {}
    /\ row[k].status = "FAILED" => Rows(k, "SENT") = {}

RequestOK(k) == JobOK(k) /\ RecipientOK(k) /\ RowOK(k) /\ VerdictOK(k)

IInv == Types /\ \A k \in Announcements : RequestOK(k)

-----------------------------------------------------------------------------

LEMMA InitIInv == Init => IInv
<1> SUFFICES ASSUME Init PROVE IInv
  OBVIOUS
<1>1. NotStarted \in Jobs /\ crashes \in 0..MaxCrashes /\ hasSender \in BOOLEAN
  BY CrashesAreBounded, SenderIsWiredOrNot
     DEF Init, NotStarted, Jobs, Places, Ended, Filters
<1>2. Types
  BY <1>1 DEF Init, Types, NoRow
<1>3. ASSUME NEW k \in Announcements PROVE RequestOK(k)
  <2>1. Rows(k, "SENT") = {}
    BY DEF Init, Rows
  <2>2. Cardinality(Rows(k, "SENT")) = 0
    BY <2>1, FS_EmptySet
  <2> QED
    BY <2>1, <2>2, FS_EmptySet DEF Init, NoRow, NotStarted, RequestOK, JobOK, RecipientOK, Waiting, RowOK,
                      VerdictOK
<1> QED
  BY <1>2, <1>3 DEF IInv

\* What belongs to one announcement.
Keeps(k) == /\ job'[k] = job[k] /\ row'[k] = row[k] /\ recipient'[k] = recipient[k]
            /\ delivered'[k] = delivered[k]

LEMMA OthersKeep ==
  ASSUME NEW k \in Announcements, RequestOK(k), Keeps(k) PROVE RequestOK(k)'
<1>1. \A s : Rows(k, s)' = Rows(k, s)
  BY DEF Keeps, Rows
<1> QED
  BY <1>1 DEF Keeps, RequestOK, JobOK, RecipientOK, Waiting, RowOK, VerdictOK

LEMMA OneMoves ==
  ASSUME IInv, Types', NEW k \in Announcements,
         \A l \in Announcements \ {k} : Keeps(l), RequestOK(k)'
  PROVE  IInv'
<1>1. \A l \in Announcements : RequestOK(l)'
  BY OthersKeep DEF IInv
<1> QED
  BY <1>1 DEF IInv

LEMMA NobodyMoves ==
  ASSUME IInv, Types', \A k \in Announcements : Keeps(k) PROVE IInv'
  BY OthersKeep DEF IInv

LEMMA MoveTyped ==
  ASSUME Types, NEW k \in Announcements, NEW r \in Jobs, job' = [job EXCEPT ![k] = r]
  PROVE  /\ job' \in [Announcements -> Jobs] /\ job'[k] = r
         /\ \A l \in Announcements \ {k} : job'[l] = job[l]
  BY DEF Types

LEMMA GotoTyped ==
  ASSUME Types, NEW k \in Announcements, NEW p \in Places, Goto(k, p)
  PROVE  /\ job' \in [Announcements -> Jobs]
         /\ /\ job'[k].pc = p /\ job'[k].picked = job[k].picked
            /\ job'[k].todo = job[k].todo /\ job'[k].now = job[k].now
         /\ \A l \in Announcements \ {k} : job'[l] = job[l]
<1> DEFINE r == [job[k] EXCEPT !.pc = p]
<1>1. job[k] \in Jobs
  BY DEF Types
<1>2. r \in Jobs /\ r.pc = p /\ r.picked = job[k].picked /\ r.todo = job[k].todo
      /\ r.now = job[k].now
  BY <1>1 DEF Jobs
<1>3. job' = [job EXCEPT ![k] = r]
  BY DEF Goto
<1> HIDE DEF r
<1> QED
  BY <1>2, <1>3, MoveTyped

-----------------------------------------------------------------------------
(* What happens around a fan-out, and how one starts.                      *)

LEMMA DecideStep ==
  ASSUME IInv, NEW a \in Applicants, NEW d \in {"APPROVED", "REJECTED"}, Decide(a, d)
  PROVE  IInv'
<1>1. Types'
  BY DEF IInv, Types, Decide, tables
<1> QED
  BY <1>1, NobodyMoves DEF Decide, tables, Keeps

LEMMA CloseStep == ASSUME IInv, Close PROVE IInv'
<1>1. Types'
  BY DEF IInv, Types, Close, tables
<1> QED
  BY <1>1, NobodyMoves DEF Close, tables, Keeps

LEMMA CreateAnnouncementStep ==
  ASSUME IInv, NEW k \in Announcements, NEW f \in Filters, CreateAnnouncement(k, f) PROVE IInv'
<1> DEFINE p == IF closed THEN "failed" ELSE "resolve"
           r1 == [job[k] EXCEPT !.pc = p]
           r2 == [r1 EXCEPT !.filter = f]
<1> USE DEF CreateAnnouncement, At, outside, tables
<1>1. Types /\ RequestOK(k) /\ job[k] \in Jobs
  BY DEF IInv, Types
<1>2. r1 \in Jobs /\ r1.pc = p /\ r1.picked = job[k].picked /\ r1.todo = job[k].todo
      /\ r1.now = job[k].now
  BY <1>1 DEF Jobs, Places, Ended
<1>3. r2 \in Jobs /\ r2.pc = p /\ r2.picked = job[k].picked /\ r2.todo = job[k].todo
      /\ r2.now = job[k].now
  <2> HIDE DEF r1
  <2> QED BY <1>2 DEF Jobs
<1>4. job' = [job EXCEPT ![k] = r2]
  BY <1>1 DEF Types
<1>5. p \in {"failed", "resolve"}
  OBVIOUS
<1> HIDE DEF r2, p
<1>6. /\ job' \in [Announcements -> Jobs] /\ job'[k] = r2
      /\ \A l \in Announcements \ {k} : job'[l] = job[l]
  BY <1>1, <1>3, <1>4, MoveTyped
<1>7. Types'
  BY <1>1, <1>6 DEF Types
<1>8. \A s : Rows(k, s)' = Rows(k, s)
  BY DEF Rows
<1>9. RequestOK(k)'
  BY <1>1, <1>3, <1>5, <1>6, <1>8
     DEF RequestOK, JobOK, RecipientOK, Waiting, RowOK, VerdictOK
<1> QED
  BY <1>6, <1>7, <1>9, OneMoves DEF Keeps

LEMMA ResolveRecipientsStep ==
  ASSUME IInv, NEW k \in Announcements, ResolveRecipients(k) PROVE IInv'
<1> DEFINE those == {a \in Applicants : Matches(a, job[k].filter)}
           r1 == [job[k] EXCEPT !.pc = "insert"]
           r2 == [r1 EXCEPT !.picked = those]
           r3 == [r2 EXCEPT !.todo = those]
<1> USE DEF ResolveRecipients, At, outside, tables
<1>1. Types /\ RequestOK(k) /\ job[k] \in Jobs /\ those \in SUBSET Applicants
  BY DEF IInv, Types
<1>2. r1 \in Jobs /\ r1.pc = "insert" /\ r1.now = job[k].now
  BY <1>1 DEF Jobs, Places
<1>3. r2 \in Jobs /\ r2.pc = "insert" /\ r2.now = job[k].now /\ r2.picked = those
  <2> HIDE DEF r1, those
  <2> QED BY <1>1, <1>2 DEF Jobs
<1>4. r3 \in Jobs /\ r3.pc = "insert" /\ r3.now = job[k].now /\ r3.picked = those /\ r3.todo = those
  <2> HIDE DEF r2, those
  <2> QED BY <1>1, <1>3 DEF Jobs
<1>5. job' = [job EXCEPT ![k] = r3]
  BY <1>1 DEF Types
<1> HIDE DEF r3, those
<1>6. /\ job' \in [Announcements -> Jobs] /\ job'[k] = r3
      /\ \A l \in Announcements \ {k} : job'[l] = job[l]
  BY <1>1, <1>4, <1>5, MoveTyped
<1>7. Types'
  BY <1>1, <1>6 DEF Types
<1>8. \A s : Rows(k, s)' = Rows(k, s)
  BY DEF Rows
<1>9. /\ job[k].picked = {} /\ job[k].now = {} /\ row[k].status = "none"
      /\ \A a \in Applicants : Waiting(k, a)
  BY <1>1 DEF RequestOK, JobOK, Waiting, RowOK
<1>10. RequestOK(k)'
  BY <1>1, <1>4, <1>6, <1>8, <1>9
     DEF RequestOK, JobOK, RecipientOK, Waiting, RowOK, VerdictOK
<1> QED
  BY <1>6, <1>7, <1>10, OneMoves DEF Keeps

LEMMA InsertStep ==
  ASSUME IInv, NEW k \in Announcements, NEW o \in Outcomes, Insert(k, o) PROVE IInv'
<1> USE DEF Insert, At, OnAnswer, outside
<1>1. Types /\ RequestOK(k) /\ job[k] \in Jobs
  BY DEF IInv, Types
<1>2. PICK p \in {"recipients", "failed"} : Goto(k, p) /\ (p = "recipients" => Answered(o))
  OBVIOUS
<1>3. p \in Places
  BY <1>2 DEF Places, Ended
<1>4. /\ job' \in [Announcements -> Jobs]
      /\ /\ job'[k].pc = p /\ job'[k].picked = job[k].picked
         /\ job'[k].todo = job[k].todo /\ job'[k].now = job[k].now
      /\ \A l \in Announcements \ {k} : job'[l] = job[l]
  BY <1>1, <1>2, <1>3, GotoTyped
<1>5. /\ row[k].status = "none" /\ \A a \in Applicants : recipient[k][a] = "none"
      /\ Rows(k, "SENT") = {}
  BY <1>1 DEF RequestOK, RowOK, Rows
<1>6. row[k].sent = 0
  BY <1>1, <1>5, FS_EmptySet DEF RequestOK, RowOK
<1>7. Cardinality(job[k].picked) \in Nat
  BY <1>1, UnreachableAreApplicants, FS_Subset, FS_CardinalityType DEF Jobs
<1>8. Types'
  BY <1>1, <1>4, <1>7 DEF Types
<1>9. \A s : Rows(k, s)' = Rows(k, s)
  BY DEF Rows
<1>10. /\ row'[k].sent = 0
       /\ \/ row'[k].status = "none" /\ row'[k].total = 0 /\ p = "failed"
          \/ row'[k].status = "SENDING" /\ row'[k].total = Cardinality(job[k].picked)
  BY <1>1, <1>2, <1>5, <1>6 DEF Types, RequestOK, RowOK, Answered, TakesEffect
<1>11. RequestOK(k)'
  BY <1>1, <1>2, <1>4, <1>5, <1>6, <1>9, <1>10
     DEF RequestOK, JobOK, RecipientOK, Waiting, RowOK, VerdictOK
<1>12. \A l \in Announcements \ {k} : Keeps(l)
  BY <1>1, <1>4 DEF Types, Keeps
<1> QED
  BY <1>8, <1>11, <1>12, OneMoves

LEMMA InsertRecipientsStep ==
  ASSUME IInv, NEW k \in Announcements, NEW o \in Outcomes, InsertRecipients(k, o) PROVE IInv'
<1> USE DEF InsertRecipients, At, OnAnswer, outside
<1>1. Types /\ RequestOK(k) /\ job[k] \in Jobs
  BY DEF IInv, Types
<1>2. PICK p \in {"audit", "failed"} : Goto(k, p) /\ (p = "audit" => Answered(o))
  OBVIOUS
<1>3. p \in Places
  BY <1>2 DEF Places, Ended
<1>4. /\ job' \in [Announcements -> Jobs]
      /\ /\ job'[k].pc = p /\ job'[k].picked = job[k].picked
         /\ job'[k].todo = job[k].todo /\ job'[k].now = job[k].now
      /\ \A l \in Announcements \ {k} : job'[l] = job[l]
  BY <1>1, <1>2, <1>3, GotoTyped
<1>5. Types'
  BY <1>1, <1>4 DEF Types
<1>6. \A a \in Applicants : Waiting(k, a)
  BY <1>1 DEF Types, RequestOK, JobOK, RecipientOK, Waiting
<1>7. /\ \A a \in Applicants : recipient'[k][a] \in {"none", "QUEUED"}
      /\ \A a \in Applicants \ job[k].picked : recipient'[k][a] = "none"
      /\ p = "audit" => \A a \in job[k].picked : recipient'[k][a] # "none"
      /\ \A l \in Announcements \ {k} : recipient'[l] = recipient[l]
  <2>1. job[k].picked \subseteq Applicants
    BY <1>1 DEF Jobs
  <2>2. CASE TakesEffect(o)
    <3>1. \A a \in Applicants :
            recipient'[k][a] = IF a \in job[k].picked THEN "QUEUED" ELSE "none"
      BY <1>1, <2>2 DEF Types
    <3>2. \A l \in Announcements \ {k} : recipient'[l] = recipient[l]
      BY <1>1, <2>2 DEF Types
    <3> QED
      BY <2>1, <3>1, <3>2
  <2>3. CASE ~TakesEffect(o)
    <3>1. p # "audit" /\ recipient' = recipient
      BY <1>2, <2>3 DEF Answered, TakesEffect
    <3> QED
      BY <1>1, <1>6, <3>1 DEF RequestOK, JobOK, Waiting
  <2> QED
    BY <2>2, <2>3
<1>8. Rows(k, "SENT") = {} /\ Rows(k, "SENT")' = {}
  BY <1>6, <1>7 DEF Rows, Waiting
<1>9. JobOK(k)'
  BY <1>1, <1>2, <1>4, <1>6, <1>7 DEF RequestOK, JobOK, Waiting
<1>10. RecipientOK(k)'
  <2>1. \A a \in Applicants : Waiting(k, a)'
    BY <1>6, <1>7 DEF Waiting
  <2> QED
    BY <1>1, <1>2, <1>4, <2>1 DEF Jobs, RecipientOK, Waiting
<1>11. RowOK(k)'
  BY <1>1, <1>2, <1>4, <1>8 DEF RequestOK, RowOK
<1>12. VerdictOK(k)'
  BY <1>1, <1>2, <1>4 DEF RequestOK, VerdictOK
<1> QED
  BY <1>4, <1>5, <1>7, <1>9, <1>10, <1>11, <1>12, OneMoves DEF Keeps, RequestOK

LEMMA AppendStep ==
  ASSUME IInv, NEW k \in Announcements, NEW o \in Outcomes, AppendAnnouncementCreate(k, o)
  PROVE  IInv'
<1> USE DEF AppendAnnouncementCreate, At, outside
<1>1. Types /\ RequestOK(k) /\ job[k] \in Jobs /\ "fanout" \in Places
  BY DEF IInv, Types, Places
<1>2. /\ job' \in [Announcements -> Jobs]
      /\ /\ job'[k].pc = "fanout" /\ job'[k].picked = job[k].picked
         /\ job'[k].todo = job[k].todo /\ job'[k].now = job[k].now
      /\ \A l \in Announcements \ {k} : job'[l] = job[l]
  BY <1>1, GotoTyped
<1>3. Types'
  BY <1>1, <1>2 DEF Types
<1>4. \A s : Rows(k, s)' = Rows(k, s)
  BY DEF Rows
<1>5. RequestOK(k)'
  BY <1>1, <1>2, <1>4 DEF RequestOK, JobOK, RecipientOK, Waiting, RowOK, VerdictOK
<1> QED
  BY <1>2, <1>3, <1>5, OneMoves DEF Keeps

-----------------------------------------------------------------------------
(* The fan-out.                                                            *)

LEMMA NextRecipientStep ==
  ASSUME IInv, NEW k \in Announcements, NEW a \in Applicants, NextRecipient(k, a) PROVE IInv'
<1> DEFINE p == FirstStep(a)
           r1 == [job[k] EXCEPT !.pc = p]
           r2 == [r1 EXCEPT !.now = {a}]
           r3 == [r2 EXCEPT !.todo = job[k].todo \ {a}]
<1> USE DEF NextRecipient, At, Remaining, outside, tables
<1>1. Types /\ RequestOK(k) /\ job[k] \in Jobs
  BY DEF IInv, Types
<1>2. p \in {"mark_failed", "send", "fanout"} /\ p \in Places
  BY DEF FirstStep, Places
<1>3. job' = [job EXCEPT ![k] = r3]
  BY <1>1 DEF Types
<1> HIDE DEF p
<1>4. r1 \in Jobs /\ r1.pc = p /\ r1.picked = job[k].picked
  BY <1>1, <1>2 DEF Jobs
<1>5. r2 \in Jobs /\ r2.pc = p /\ r2.picked = job[k].picked /\ r2.now = {a}
  <2> HIDE DEF r1
  <2> QED BY <1>4 DEF Jobs
<1>6. r3 \in Jobs /\ r3.pc = p /\ r3.picked = job[k].picked /\ r3.now = {a}
      /\ r3.todo = job[k].todo \ {a}
  <2>1. job[k].todo \ {a} \in SUBSET Applicants
    BY <1>1 DEF Jobs
  <2> HIDE DEF r2
  <2> QED BY <1>5, <2>1 DEF Jobs
<1> HIDE DEF r3
<1>7. /\ job' \in [Announcements -> Jobs] /\ job'[k] = r3
      /\ \A l \in Announcements \ {k} : job'[l] = job[l]
  BY <1>1, <1>3, <1>6, MoveTyped
<1>8. Types'
  BY <1>1, <1>7 DEF Types
<1>9. \A s : Rows(k, s)' = Rows(k, s)
  BY DEF Rows
<1>10. JobOK(k)'
  <2>1. JobOK(k) /\ a \in job[k].picked
    BY <1>1 DEF RequestOK, JobOK
  <2>2. /\ job'[k].todo \subseteq job'[k].picked
        /\ job'[k].now \subseteq job'[k].picked \ job'[k].todo
        /\ \A x, y \in job'[k].now : x = y
    BY <1>6, <1>7, <2>1 DEF JobOK
  <2> QED
    BY <1>2, <1>6, <1>7, <2>1, <2>2 DEF JobOK
<1>11. RecipientOK(k)'
  BY <1>1, <1>2, <1>6, <1>7 DEF RequestOK, RecipientOK, Waiting
<1>12. RowOK(k)' /\ VerdictOK(k)'
  BY <1>1, <1>2, <1>6, <1>7, <1>9 DEF RequestOK, RowOK, VerdictOK
<1> QED
  BY <1>7, <1>8, <1>10, <1>11, <1>12, OneMoves DEF Keeps, RequestOK

LEMMA SendDMStep ==
  ASSUME IInv, NEW k \in Announcements, NEW a \in Applicants, NEW o \in Outcomes,
         SendDM(k, a, o)
  PROVE  IInv'
<1> USE DEF SendDM, At, tables
<1>1. Types /\ RequestOK(k) /\ job[k] \in Jobs
  BY DEF IInv, Types
<1>2. AfterSend(o) \in {"mark_sent", "mark_failed"} /\ AfterSend(o) \in Places
      /\ (AfterSend(o) = "mark_sent" => TakesEffect(o))
  BY DEF AfterSend, Places, Answered, TakesEffect
<1>3. /\ job' \in [Announcements -> Jobs]
      /\ /\ job'[k].pc = AfterSend(o) /\ job'[k].picked = job[k].picked
         /\ job'[k].todo = job[k].todo /\ job'[k].now = job[k].now
      /\ \A l \in Announcements \ {k} : job'[l] = job[l]
  BY <1>1, <1>2, GotoTyped
<1>4. /\ delivered' \in [Announcements -> [Applicants -> Nat]]
      /\ \A l \in Announcements \ {k} : delivered'[l] = delivered[l]
      /\ \A b \in Applicants \ {a} : delivered'[k][b] = delivered[k][b]
      /\ delivered'[k][a] = IF TakesEffect(o) THEN delivered[k][a] + 1 ELSE delivered[k][a]
  BY <1>1 DEF Types
<1>5. Types'
  BY <1>1, <1>3, <1>4 DEF Types
<1>6. \A s : Rows(k, s)' = Rows(k, s)
  BY DEF Rows
<1>7. /\ a \in job[k].picked \ job[k].todo /\ \A b \in job[k].now : b = a
      /\ Waiting(k, a)
  BY <1>1 DEF RequestOK, JobOK, RecipientOK
<1>8. JobOK(k)'
  BY <1>1, <1>2, <1>3, <1>4, <1>7 DEF RequestOK, JobOK
<1>9. RecipientOK(k)'
  BY <1>1, <1>2, <1>3, <1>4, <1>7 DEF RequestOK, RecipientOK, Waiting
<1>10. RowOK(k)' /\ VerdictOK(k)'
  BY <1>1, <1>2, <1>3, <1>6 DEF RequestOK, RowOK, VerdictOK
<1> QED
  BY <1>3, <1>4, <1>5, <1>8, <1>9, <1>10, OneMoves DEF Keeps, RequestOK

LEMMA MarkRecipientSentStep ==
  ASSUME IInv, NEW k \in Announcements, NEW a \in Applicants, NEW o \in Outcomes,
         MarkRecipientSent(k, a, o)
  PROVE  IInv'
<1> USE DEF MarkRecipientSent, CountSent, At, outside
<1>1. Types /\ RequestOK(k) /\ job[k] \in Jobs /\ "fanout" \in Places
  BY DEF IInv, Types, Places
<1>2. /\ job' \in [Announcements -> Jobs]
      /\ /\ job'[k].pc = "fanout" /\ job'[k].picked = job[k].picked
         /\ job'[k].todo = job[k].todo /\ job'[k].now = job[k].now
      /\ \A l \in Announcements \ {k} : job'[l] = job[l]
  BY <1>1, GotoTyped
<1>3. /\ a \in job[k].picked \ job[k].todo /\ delivered[k][a] = 1
      /\ recipient[k][a] = "QUEUED"
      /\ row[k].status \in {"SENDING"}
  BY <1>1 DEF Types, RequestOK, JobOK, RecipientOK, RowOK, VerdictOK
<1>4. CASE TakesEffect(o)
  <2>1. /\ recipient' \in [Announcements -> [Applicants -> {"none", "QUEUED", "SENT", "FAILED"}]]
        /\ recipient'[k][a] = "SENT"
        /\ \A b \in Applicants \ {a} : recipient'[k][b] = recipient[k][b]
        /\ \A l \in Announcements \ {k} : recipient'[l] = recipient[l]
    BY <1>1, <1>4 DEF Types
  <2>2. /\ row' \in [Announcements -> [status : {"none", "SENDING", "SENT", "PARTIAL", "FAILED"},
                                        total : Nat, sent : Nat]]
        /\ row'[k].sent = row[k].sent + 1 /\ row'[k].total = row[k].total
        /\ row'[k].status = row[k].status
        /\ \A l \in Announcements \ {k} : row'[l] = row[l]
    <3> DEFINE r == [row[k] EXCEPT !.sent = @ + 1]
               RowType == [status : {"none", "SENDING", "SENT", "PARTIAL", "FAILED"},
                           total : Nat, sent : Nat]
    <3>1. row[k] \in RowType
      BY <1>1 DEF Types
    <3>2. r \in RowType /\ r.sent = row[k].sent + 1 /\ r.total = row[k].total
          /\ r.status = row[k].status
      BY <3>1
    <3>3. row' = [row EXCEPT ![k] = r]
      BY <1>4
    <3>4. row \in [Announcements -> RowType]
      BY <1>1 DEF Types
    <3> HIDE DEF r, RowType
    <3>5. row' \in [Announcements -> RowType] /\ row'[k] = r
          /\ \A l \in Announcements \ {k} : row'[l] = row[l]
      BY <3>2, <3>3, <3>4
    <3> QED
      BY <3>2, <3>5 DEF RowType
  <2>3. Types'
    BY <1>1, <1>2, <2>1, <2>2 DEF Types
  <2>4. Rows(k, "SENT")' = Rows(k, "SENT") \cup {a} /\ a \notin Rows(k, "SENT")
    BY <1>3, <2>1 DEF Rows
  <2>5. IsFiniteSet(Rows(k, "SENT"))
    BY UnreachableAreApplicants, FS_Subset DEF Rows
  <2>6. Cardinality(Rows(k, "SENT")') = Cardinality(Rows(k, "SENT")) + 1
    BY <2>4, <2>5, FS_AddElement
  <2>7. JobOK(k)'
    BY <1>1, <1>2, <1>3, <2>1 DEF RequestOK, JobOK
  <2>8. RecipientOK(k)'
    BY <1>1, <1>2, <1>3, <2>1 DEF RequestOK, JobOK, RecipientOK, Waiting, Jobs
  <2>9. RowOK(k)' /\ VerdictOK(k)'
    BY <1>1, <1>2, <1>3, <2>2, <2>6 DEF RequestOK, RowOK, VerdictOK
  <2> QED
    BY <1>2, <2>1, <2>2, <2>3, <2>7, <2>8, <2>9, OneMoves DEF Keeps, RequestOK
<1>5. CASE ~TakesEffect(o)
  <2>1. UNCHANGED <<row, recipient>>
    BY <1>5
  <2>2. Types'
    BY <1>1, <1>2, <2>1 DEF Types
  <2>3. \A s : Rows(k, s)' = Rows(k, s)
    BY <2>1 DEF Rows
  <2>4. RequestOK(k)'
    <3>1. JobOK(k)' /\ RecipientOK(k)'
      BY <1>1, <1>2, <2>1 DEF RequestOK, JobOK, RecipientOK, Waiting
    <3>2. RowOK(k)' /\ VerdictOK(k)'
      BY <1>1, <1>2, <1>3, <2>1, <2>3 DEF RequestOK, RowOK, VerdictOK
    <3> QED
      BY <3>1, <3>2 DEF RequestOK
  <2> QED
    BY <1>2, <2>1, <2>2, <2>4, OneMoves DEF Keeps
<1> QED
  BY <1>4, <1>5

LEMMA MarkRecipientFailedStep ==
  ASSUME IInv, NEW k \in Announcements, NEW a \in Applicants, NEW o \in Outcomes,
         MarkRecipientFailed(k, a, o)
  PROVE  IInv'
<1> USE DEF MarkRecipientFailed, At, outside
<1>1. Types /\ RequestOK(k) /\ job[k] \in Jobs /\ "fanout" \in Places
  BY DEF IInv, Types, Places
<1>2. /\ job' \in [Announcements -> Jobs]
      /\ /\ job'[k].pc = "fanout" /\ job'[k].picked = job[k].picked
         /\ job'[k].todo = job[k].todo /\ job'[k].now = job[k].now
      /\ \A l \in Announcements \ {k} : job'[l] = job[l]
  BY <1>1, GotoTyped
<1>3. /\ a \in job[k].picked \ job[k].todo /\ recipient[k][a] = "QUEUED"
      /\ row[k].status \in {"SENDING"}
  BY <1>1 DEF Types, RequestOK, JobOK, RecipientOK, RowOK, VerdictOK
<1>4. /\ recipient' \in [Announcements -> [Applicants -> {"none", "QUEUED", "SENT", "FAILED"}]]
      /\ recipient'[k][a] \in {"QUEUED", "FAILED"}
      /\ \A b \in Applicants \ {a} : recipient'[k][b] = recipient[k][b]
      /\ \A l \in Announcements \ {k} : recipient'[l] = recipient[l]
  BY <1>1, <1>3 DEF Types
<1>5. Types'
  BY <1>1, <1>2, <1>4 DEF Types
<1>6. Rows(k, "SENT")' = Rows(k, "SENT")
  BY <1>3, <1>4 DEF Rows
<1>7. JobOK(k)'
  BY <1>1, <1>2, <1>3, <1>4 DEF RequestOK, JobOK
<1>8. RecipientOK(k)'
  BY <1>1, <1>2, <1>3, <1>4 DEF RequestOK, JobOK, RecipientOK, Waiting, Jobs
<1>9. RowOK(k)' /\ VerdictOK(k)'
  BY <1>1, <1>2, <1>3, <1>6 DEF RequestOK, RowOK, VerdictOK
<1> QED
  BY <1>2, <1>4, <1>5, <1>7, <1>8, <1>9, OneMoves DEF Keeps, RequestOK

LEMMA FinaliseStatusStep ==
  ASSUME IInv, NEW k \in Announcements, NEW o \in Outcomes, FinaliseStatus(k, o) PROVE IInv'
<1> USE DEF FinaliseStatus, At, outside
<1>1. Types /\ RequestOK(k) /\ job[k] \in Jobs /\ "done" \in Places
  BY DEF IInv, Types, Places, Ended
<1>2. /\ job' \in [Announcements -> Jobs]
      /\ /\ job'[k].pc = "done" /\ job'[k].picked = job[k].picked
         /\ job'[k].todo = job[k].todo /\ job'[k].now = job[k].now
      /\ \A l \in Announcements \ {k} : job'[l] = job[l]
  BY <1>1, GotoTyped
<1>3. Aggregate(k) \in {"SENDING", "SENT", "PARTIAL", "FAILED"}
  BY DEF Aggregate
<1>4. /\ row' \in [Announcements -> [status : {"none", "SENDING", "SENT", "PARTIAL", "FAILED"},
                                      total : Nat, sent : Nat]]
      /\ row'[k].sent = row[k].sent /\ row'[k].total = row[k].total
      /\ row'[k].status \in {row[k].status, Aggregate(k)}
      /\ \A l \in Announcements \ {k} : row'[l] = row[l]
  BY <1>1, <1>3 DEF Types
<1>5. Types'
  BY <1>1, <1>2, <1>4 DEF Types
<1>6. \A s : Rows(k, s)' = Rows(k, s)
  BY DEF Rows
<1>7. row[k].status = "SENDING"
  BY <1>1 DEF Types, RequestOK, RowOK, VerdictOK
<1>8. JobOK(k)' /\ RecipientOK(k)'
  BY <1>1, <1>2 DEF RequestOK, JobOK, RecipientOK, Waiting
<1>9. RowOK(k)'
  BY <1>1, <1>2, <1>3, <1>4, <1>6, <1>7 DEF RequestOK, RowOK
<1>10. job[k].picked = Rows(k, "QUEUED") \cup Rows(k, "SENT") \cup Rows(k, "FAILED")
  BY <1>1 DEF Types, Jobs, RequestOK, JobOK, Rows
<1>11. ASSUME row'[k].status # "SENDING"
       PROVE  /\ Rows(k, "QUEUED") = {}
              /\ row'[k].status = "SENT" => Rows(k, "FAILED") = {}
              /\ row'[k].status = "FAILED" => Rows(k, "SENT") = {}
  BY <1>4, <1>7, <1>11 DEF Aggregate
<1>12. VerdictOK(k)'
  BY <1>2, <1>6, <1>10, <1>11 DEF VerdictOK
<1> QED
  BY <1>2, <1>4, <1>5, <1>8, <1>9, <1>12, OneMoves DEF Keeps, RequestOK

LEMMA CrashStep == ASSUME IInv, Crash PROVE IInv'
<1> USE DEF Crash, tables
<1>1. Types
  BY DEF IInv
<1>2. ASSUME NEW k \in Announcements
      PROVE  /\ job'[k] \in Jobs
             /\ job'[k] # job[k] => /\ job'[k].pc = "dead" /\ job[k].pc \notin Ended
                                    /\ job'[k].picked = job[k].picked
                                    /\ job'[k].todo = job[k].todo /\ job'[k].now = job[k].now
  <2> DEFINE r == [job[k] EXCEPT !.pc = "dead"]
  <2>1. job[k] \in Jobs
    BY <1>1 DEF Types
  <2>2. r \in Jobs /\ r.pc = "dead" /\ r.picked = job[k].picked /\ r.todo = job[k].todo
        /\ r.now = job[k].now
    BY <2>1 DEF Jobs, Places, Ended
  <2>3. job'[k] = IF job[k].pc \in Ended \cup {"idle"} THEN job[k] ELSE r
    OBVIOUS
  <2> HIDE DEF r
  <2> QED
    BY <2>1, <2>2, <2>3
<1>3. job' \in [Announcements -> Jobs]
  <2>1. job' = [k \in Announcements |-> job'[k]]
    OBVIOUS
  <2> QED
    BY <1>2, <2>1
<1>4. crashes' \in 0..MaxCrashes /\ hasSender' \in BOOLEAN
  BY <1>1, CrashesAreBounded, SenderIsWiredOrNot DEF Types
<1>5. Types'
  BY <1>1, <1>3, <1>4 DEF Types
<1>6. ASSUME NEW k \in Announcements PROVE RequestOK(k)'
  <2>1. RequestOK(k)
    BY DEF IInv
  <2>2. CASE job'[k] = job[k]
    BY <2>1, <2>2, OthersKeep DEF Keeps
  <2>3. CASE job'[k] # job[k]
    <3>1. \A s : Rows(k, s)' = Rows(k, s)
      BY DEF Rows
    <3> QED
      BY <1>2, <2>1, <2>3, <3>1
         DEF Ended, RequestOK, JobOK, RecipientOK, Waiting, RowOK, VerdictOK
  <2> QED
    BY <2>2, <2>3
<1> QED
  BY <1>5, <1>6 DEF IInv

LEMMA NextIInv == IInv /\ [Next]_vars => IInv'
<1> SUFFICES ASSUME IInv, [Next]_vars PROVE IInv'
  OBVIOUS
<1>1. CASE Close \/ Crash
  BY <1>1, CloseStep, CrashStep
<1>2. CASE \E a \in Applicants, d \in {"APPROVED", "REJECTED"} : Decide(a, d)
  BY <1>2, DecideStep
<1>3. ASSUME NEW k \in Announcements, NEW f \in Filters, CreateAnnouncement(k, f) PROVE IInv'
  BY <1>3, CreateAnnouncementStep
<1>4. ASSUME NEW k \in Announcements, Step(k) PROVE IInv'
  BY <1>4, ResolveRecipientsStep, NextRecipientStep, InsertStep, InsertRecipientsStep,
     AppendStep, SendDMStep, MarkRecipientSentStep, MarkRecipientFailedStep,
     FinaliseStatusStep DEF Step
<1>5. CASE UNCHANGED vars
  <2>1. Types'
    BY <1>5 DEF vars, outside, tables, IInv, Types
  <2> QED
    BY <1>5, <2>1, NobodyMoves DEF vars, outside, tables, Keeps
<1> QED
  BY <1>1, <1>2, <1>3, <1>4, <1>5 DEF Next

THEOREM SpecIInv == Spec => []IInv
  BY InitIInv, NextIInv, PTL DEF Spec

-----------------------------------------------------------------------------
(* The theorems.                                                           *)

\* Every column, message and local of CreateAnnouncement has its type, and recipients_sent
\* never exceeds recipients_total, the CHECK of the announcement table.
THEOREM TypeCorrect == Spec => []TypeOK
<1>1. IInv => TypeOK
  <2> SUFFICES ASSUME IInv PROVE TypeOK
    OBVIOUS
  <2>1. ASSUME NEW k \in Announcements PROVE row[k].sent <= row[k].total
    <3>1. RequestOK(k) /\ job[k].picked \subseteq Applicants /\ row[k].sent \in Nat
      BY DEF IInv, Types, Jobs
    <3>2. Rows(k, "SENT") \subseteq job[k].picked
      BY <3>1 DEF Rows, RequestOK, JobOK
    <3>3. IsFiniteSet(job[k].picked)
      BY <3>1, UnreachableAreApplicants, FS_Subset
    <3>4. Cardinality(Rows(k, "SENT")) <= Cardinality(job[k].picked)
      BY <3>2, <3>3, FS_Subset
    <3>5. CASE row[k].status = "none"
      <4>1. Rows(k, "SENT") = {}
        BY <3>1, <3>5 DEF RequestOK, RowOK, Rows
      <4> QED
        BY <3>1, <3>5, <4>1, FS_EmptySet DEF RequestOK, RowOK
    <3>6. CASE row[k].status # "none"
      BY <3>1, <3>4, <3>6 DEF RequestOK, RowOK
    <3> QED
      BY <3>5, <3>6
  <2> QED
    BY <2>1 DEF IInv, Types, TypeOK, Jobs
<1> QED
  BY <1>1, SpecIInv, PTL

LEMMA HonestIfInv == IInv => RecipientsSentIsHonest
  BY DEF IInv, RequestOK, RecipientOK, RowOK, RecipientsSentIsHonest

\* recipients_sent counts the SENT rows, a row is SENT only for somebody whom Discord gave
\* the message, and nobody gets it twice: through failed and unanswered sends and
\* statements, and through crashes (fanOutAnnouncement).
THEOREM SentHonest == Spec => []RecipientsSentIsHonest
  BY HonestIfInv, SpecIInv, PTL

\* A status that FinaliseStatus wrote is the last word and says what became of the
\* recipients.
THEOREM VerdictTrue == Spec => []VerdictIsTrue
<1>1. IInv => VerdictIsTrue
  <2> SUFFICES ASSUME IInv, NEW k \in Announcements, row[k].status \notin {"none", "SENDING"}
               PROVE  /\ job[k].pc \in Ended /\ Rows(k, "QUEUED") = {}
                      /\ row[k].status = "SENT" => \A a \in job[k].picked : delivered[k][a] = 1
                      /\ row[k].status = "FAILED" => row[k].sent = 0
                      /\ row[k].total = Cardinality(Rows(k, "SENT") \cup Rows(k, "FAILED"))
    BY DEF VerdictIsTrue
  <2>1. RequestOK(k)
    BY DEF IInv
  <2>2. job[k].pc \in Ended /\ Rows(k, "QUEUED") = {}
    BY <2>1 DEF RequestOK, VerdictOK, Ended
  <2>3. row[k].status = "SENT" => \A a \in job[k].picked : delivered[k][a] = 1
    <3> SUFFICES ASSUME row[k].status = "SENT", NEW a \in job[k].picked
                 PROVE  delivered[k][a] = 1
      OBVIOUS
    <3>1. a \in Rows(k, "SENT")
      BY <2>1 DEF RequestOK, VerdictOK
    <3>2. a \in Applicants /\ recipient[k][a] = "SENT"
      BY <3>1 DEF Rows
    <3> QED
      BY <3>2, HonestIfInv DEF RecipientsSentIsHonest
  <2>4. row[k].status = "FAILED" => row[k].sent = 0
    BY <2>1, FS_EmptySet DEF RequestOK, VerdictOK, RowOK
  <2>5. row[k].total = Cardinality(Rows(k, "SENT") \cup Rows(k, "FAILED"))
    BY <2>1 DEF RequestOK, VerdictOK, RowOK
  <2> QED
    BY <2>2, <2>3, <2>4, <2>5
<1> QED
  BY <1>1, SpecIInv, PTL
=============================================================================
