------------------------------- MODULE Survey -------------------------------
(***************************************************************************)
(* The content of one playtest that players must agree to or answer: the   *)
(* NDA text and the survey.  Admins run CreateSurvey, EditSurvey and       *)
(* EditPlaytest, players AcceptNDA and SubmitSurveyResponse, and a booting *)
(* replica runs the survey-publish restart sweep.  None of these handlers  *)
(* opens a transaction around more than one table: each statement is an    *)
(* action, and every other request may run between two of them.            *)
(***************************************************************************)
EXTENDS Naturals, Sequences

CONSTANTS
  Users,        \* players that have signed up
  Handlers,     \* requests that may be under way at the same time
  Texts,        \* NDA texts; a text stands for its version hash too
  Forms,        \* what admins enter for the NDA: [required, nda]
  Loads,        \* bound: the sets of operations one behaviour may use
  MaxVersions,  \* bound on survey versions
  MaxEdits,     \* bound on EditPlaytest requests
  MaxBoots,     \* bound on restarts of the replica
  Boot,         \* the goroutine of main that runs the restart sweep
  None

ASSUME BoundsAreNatural == {MaxVersions, MaxEdits, MaxBoots} \subseteq Nat
ASSUME NoneIsNoText == None \notin Texts /\ None \notin Users
ASSUME FormsPassValidateNDA ==
  \A f \in Forms : f \in [required : BOOLEAN, nda : Texts \cup {None}]
                    /\ (f.required => f.nda # None)
ASSUME BootIsNoHandler == Boot \notin Handlers

VARIABLES
  playtest,   \* row: survey (survey_id, 0 = NULL), nda, required, life
  latest,     \* survey table: versions 1..latest; a version is its id
  applicant,  \* rows: approved, nda (nda_version_hash), lastDm (last_survey_dm_id)
  accepted,   \* nda_acceptance: the texts each player accepted
  response,   \* survey_response: at most one row per player
  accepts,    \* audit log: nda.accept rows per player and text
  told,       \* survey-publish DMs put in the queue, per player, in order
  rpc,        \* where each request is and what it has read
  count       \* the load, and how much of each bound is used

tables == <<playtest, latest, applicant, accepted, response, accepts>>
vars == <<tables, told, rpc, count>>

Procs == Handlers \cup {Boot}

Idle == [pc |-> "idle", user |-> None, ver |-> 0, form |-> None, closed |-> FALSE,
         nda |-> None, own |-> None, first |-> FALSE, todo |-> {}]

Init ==
  /\ \E f \in Forms, v \in 0..1 :
       /\ playtest = [survey |-> v, nda |-> f.nda, required |-> f.required, life |-> "OPEN"]
       /\ latest = v
  /\ applicant = [u \in Users |-> [approved |-> FALSE, nda |-> None, lastDm |-> 0]]
  /\ accepted = [u \in Users |-> {}]
  /\ response = [u \in Users |-> None]
  /\ accepts = [u \in Users |-> [t \in Texts |-> 0]]
  /\ told = [u \in Users |-> <<>>]
  /\ rpc = [p \in Procs |-> Idle]
  /\ \E l \in Loads : count = [load |-> l, surveys |-> 0, edits |-> 0, boots |-> 0]

At(p, pc) == rpc[p].pc = pc
Goto(p, pc) == rpc' = [rpc EXCEPT ![p].pc = pc]
Return(p) == rpc' = [rpc EXCEPT ![p] = Idle]

\* GetByID hides soft-deleted rows from every handler.
Live == playtest.life # "deleted"

\* A handler starts by reading the playtest row and keeps what it needs of it in r, or
\* answers NotFound.
Begin(p, r) ==
  /\ At(p, "idle")
  /\ rpc' = IF Live THEN [rpc EXCEPT ![p] = r] ELSE rpc
  /\ UNCHANGED <<tables, told>>

-----------------------------------------------------------------------------
(* CreateSurvey and EditSurvey.                                            *)

CreateSurvey(h) ==
  /\ "CreateSurvey" \in count.load
  /\ Begin(h, [Idle EXCEPT !.pc = "create"])
  /\ UNCHANGED count

\* INSERT version 1; the unique index on (playtest_id, version) admits one.
Replaces == TRUE
NoSurveyYet == latest = 0
InsertFirst(h) ==
  /\ At(h, "create")
  /\ IF NoSurveyYet
     THEN latest' = 1 /\ rpc' = [rpc EXCEPT ![h].pc = "point_created", ![h].ver = 1]
     ELSE Return(h) /\ UNCHANGED latest
  /\ UNCHANGED <<playtest, applicant, accepted, response, accepts, told, count>>

\* EditSurvey also reads the current version: without one there is nothing to edit.
EditSurvey(h) ==
  /\ "EditSurvey" \in count.load
  /\ latest > 0
  /\ count.surveys < MaxVersions - 1
  /\ Begin(h, [Idle EXCEPT !.pc = "edit"])
  /\ count' = [count EXCEPT !.surveys = @ + 1]

\* EditAsNewVersion: MAX(version) + 1 under the advisory lock, one transaction.
EditAsNewVersion(h) ==
  /\ At(h, "edit")
  /\ latest' = latest + 1
  /\ rpc' = [rpc EXCEPT ![h].pc = "point_edited", ![h].ver = latest + 1]
  /\ UNCHANGED <<playtest, applicant, accepted, response, accepts, told, count>>

\* SetSurveyID, a statement of its own after the insert has committed.  EditSurvey ends
\* with it (and its audit row, which no handler reads): it does not fan out.
EndWithFanOut(h) == Goto(h, "list")
EndEdit(h) == Return(h)
SetSurveyID(h) ==
  /\ rpc[h].pc \in {"point_created", "point_edited"}
  /\ IF ~Live
     THEN Return(h) /\ UNCHANGED playtest
     ELSE /\ playtest' = [playtest EXCEPT !.survey = rpc[h].ver]
          /\ IF At(h, "point_created") THEN Goto(h, "audit") ELSE EndEdit(h)
  /\ UNCHANGED <<latest, applicant, accepted, response, accepts, told, count>>

\* The survey.create row, which no handler reads; if it fails there is no fan-out.
AuditCreate(h) ==
  /\ At(h, "audit")
  /\ Goto(h, "list")
  /\ UNCHANGED <<tables, told, count>>

-----------------------------------------------------------------------------
(* SweepSurveyDM: the fan-out of CreateSurvey and the restart sweep.       *)

NdaCurrent(u) == playtest.required => applicant[u].nda = playtest.nda

\* ListApprovedNeedingSurveyDM joins the playtest row as it is now.
NeedsSurveyDM(u, v) ==
  Live /\ applicant[u].approved /\ NdaCurrent(u) /\ applicant[u].lastDm # v

ListRecipients(p) ==
  /\ At(p, "list")
  /\ rpc' = [rpc EXCEPT ![p].pc = "sweep",
                        ![p].todo = {u \in Users : NeedsSurveyDM(u, rpc[p].ver)}]
  /\ UNCHANGED <<tables, told, count>>

EnqueueSurveyDM(p, u) ==
  /\ At(p, "sweep") /\ u \in rpc[p].todo
  /\ told' = [told EXCEPT ![u] = Append(@, rpc[p].ver)]
  /\ rpc' = [rpc EXCEPT ![p].pc = "stamp", ![p].user = u, ![p].todo = @ \ {u}]
  /\ UNCHANGED <<tables, count>>

\* The queue is full: the stamp is left alone so that the restart sweep retries.
OverflowStamps(p, u) ==
  /\ At(p, "sweep") /\ u \in rpc[p].todo
  /\ rpc' = [rpc EXCEPT ![p].pc = "stamp", ![p].user = u, ![p].todo = @ \ {u}]
  /\ UNCHANGED <<tables, told, count>>
EnqueueOverflows(p, u) ==
  /\ At(p, "sweep") /\ u \in rpc[p].todo
  /\ rpc' = [rpc EXCEPT ![p].todo = @ \ {u}]
  /\ UNCHANGED <<tables, told, count>>

MarkSurveyDMSent(p) ==
  /\ At(p, "stamp")
  /\ applicant' = [applicant EXCEPT ![rpc[p].user].lastDm = rpc[p].ver]
  /\ Goto(p, "sweep")
  /\ UNCHANGED <<playtest, latest, accepted, response, accepts, told, count>>

\* A failed stamp is logged and the sweep goes on.
MarkFails(p) ==
  /\ At(p, "stamp")
  /\ Goto(p, "sweep")
  /\ UNCHANGED <<tables, told, count>>

SweepDone(p) ==
  /\ At(p, "sweep") /\ rpc[p].todo = {}
  /\ Return(p)
  /\ UNCHANGED <<tables, told, count>>

\* The process dies with its requests and its queue, and boots again.
Restart ==
  /\ "Restart" \in count.load
  /\ count.boots < MaxBoots
  /\ count' = [count EXCEPT !.boots = @ + 1]
  /\ rpc' = [p \in Procs |-> IF p = Boot THEN [Idle EXCEPT !.pc = "boot"] ELSE Idle]
  /\ UNCHANGED <<tables, told>>

\* The restart sweep lists the live playtests with a survey; requests are served by now.
BootSweep ==
  /\ At(Boot, "boot")
  /\ IF Live /\ playtest.survey # 0
     THEN rpc' = [rpc EXCEPT ![Boot].pc = "list", ![Boot].ver = playtest.survey]
     ELSE Return(Boot)
  /\ UNCHANGED <<tables, told, count>>

-----------------------------------------------------------------------------
(* EditPlaytest, as far as the NDA and the survey pointer go.              *)

EditPlaytest(h, f) ==
  /\ "EditPlaytest" \in count.load
  /\ count.edits < MaxEdits
  /\ Begin(h, [Idle EXCEPT !.pc = "update", !.form = f, !.ver = playtest.survey])
  /\ count' = [count EXCEPT !.edits = @ + 1]

\* Update writes the whole row, the survey_id it read included.  The text is the one of the
\* request in either case: the old one is kept only if it is the same.
Update(h) ==
  LET f == rpc[h].form IN
  /\ At(h, "update")
  /\ playtest' = IF Live
                  THEN [playtest EXCEPT !.survey = rpc[h].ver,
                                        !.required = f.required, !.nda = f.nda]
                  ELSE playtest
  /\ Return(h)
  /\ UNCHANGED <<latest, applicant, accepted, response, accepts, told, count>>

-----------------------------------------------------------------------------
(* AcceptNDA.                                                              *)

AcceptNDA(h, u) ==
  /\ "AcceptNDA" \in count.load
  /\ playtest.required
  /\ Begin(h, [Idle EXCEPT !.pc = "accept_read", !.user = u, !.nda = playtest.nda,
                           !.closed = playtest.life = "CLOSED"])
  /\ UNCHANGED count

LookupApplicant(h) ==
  LET a == applicant[rpc[h].user] IN
  /\ At(h, "accept_read")
  /\ IF rpc[h].closed /\ ~a.approved
     THEN Return(h)
     ELSE rpc' = [rpc EXCEPT ![h].pc = "accept", ![h].own = a.nda]
  /\ UNCHANGED <<tables, told, count>>

\* AcceptIdempotent: INSERT ... ON CONFLICT DO NOTHING, which tells a replay.
IsReplay(u, t) == t \in accepted[u]
AcceptIdempotent(h) ==
  LET u == rpc[h].user  t == rpc[h].nda IN
  /\ At(h, "accept")
  /\ accepted' = [accepted EXCEPT ![u] = @ \cup {t}]
  /\ rpc' = [rpc EXCEPT ![h].pc = "accept_stamp", ![h].first = ~IsReplay(u, t)]
  /\ UNCHANGED <<playtest, latest, applicant, response, accepts, told, count>>

\* The stamp is compared with the row read before, and written on a replay too.
NeedsFirstStamp(h) == rpc[h].own # rpc[h].nda /\ rpc[h].first
NeedsStamp(h) == rpc[h].own # rpc[h].nda
SetNDAVersionHash(h) ==
  LET u == rpc[h].user  t == rpc[h].nda IN
  /\ At(h, "accept_stamp")
  /\ applicant' = IF NeedsStamp(h) THEN [applicant EXCEPT ![u].nda = t] ELSE applicant
  /\ IF rpc[h].first THEN Goto(h, "accept_audit") ELSE Return(h)
  /\ UNCHANGED <<playtest, latest, accepted, response, accepts, told, count>>

AuditAccept(h) ==
  LET u == rpc[h].user  t == rpc[h].nda IN
  /\ At(h, "accept_audit")
  /\ accepts' = [accepts EXCEPT ![u][t] = @ + 1]
  /\ Return(h)
  /\ UNCHANGED <<playtest, latest, applicant, accepted, response, told, count>>

-----------------------------------------------------------------------------
(* SubmitSurveyResponse.                                                   *)

\* The playtest must have a survey; its NDA matters only if it is required.
SubmitSurveyResponse(h, u) ==
  /\ "SubmitSurveyResponse" \in count.load
  /\ playtest.survey # 0
  /\ Begin(h, [Idle EXCEPT !.pc = "submit_read", !.user = u,
                           !.nda = IF playtest.required THEN playtest.nda ELSE None])
  /\ UNCHANGED count

\* APPROVED, and NDA-current as of the playtest row read first.
MaySubmitUnsigned(a, t) == a.approved
MaySubmit(a, t) == a.approved /\ (t # None => a.nda = t)

\* The player's surveyId may be any version of this playtest, current or not.
CheckSubmit(h, v) ==
  /\ At(h, "submit_read")
  /\ IF MaySubmit(applicant[rpc[h].user], rpc[h].nda)
     THEN rpc' = [rpc EXCEPT ![h].pc = "submit", ![h].ver = v]
     ELSE Return(h)
  /\ UNCHANGED <<tables, told, count>>

\* SubmitOnce: ON CONFLICT (playtest_id, user_id) DO NOTHING.
\* The stored row has no text: nda remembers which one the submit was gated on.
CanInsert(u) == response[u] = None
SubmitOnce(h) ==
  LET u == rpc[h].user IN
  /\ At(h, "submit")
  /\ response' = IF CanInsert(u)
                  THEN [response EXCEPT ![u] = [ver |-> rpc[h].ver, nda |-> rpc[h].nda]]
                  ELSE response
  /\ Return(h)
  /\ UNCHANGED <<playtest, latest, applicant, accepted, accepts, told, count>>

-----------------------------------------------------------------------------
(* The rest of the system.                                                 *)

\* Module CodeGrant decides who is approved, and nobody is ever unapproved.
Approve(u) ==
  /\ ~applicant[u].approved
  /\ applicant' = [applicant EXCEPT ![u].approved = TRUE]
  /\ UNCHANGED <<playtest, latest, accepted, response, accepts, told, rpc, count>>

ClosePlaytest ==
  /\ "Close" \in count.load
  /\ playtest.life = "OPEN"
  /\ playtest' = [playtest EXCEPT !.life = "CLOSED"]
  /\ UNCHANGED <<latest, applicant, accepted, response, accepts, told, rpc, count>>

SoftDelete ==
  /\ "SoftDelete" \in count.load
  /\ Live
  /\ playtest' = [playtest EXCEPT !.life = "deleted"]
  /\ UNCHANGED <<latest, applicant, accepted, response, accepts, told, rpc, count>>

\* A statement fails, or the client goes away: what is written stays, the rest is not run.
RequestFails(p) ==
  /\ "RequestFails" \in count.load
  /\ ~At(p, "idle")
  /\ Return(p)
  /\ UNCHANGED <<tables, told, count>>

Statement(p) ==
  \/ InsertFirst(p) \/ EditAsNewVersion(p) \/ SetSurveyID(p) \/ AuditCreate(p)
  \/ ListRecipients(p) \/ MarkSurveyDMSent(p) \/ MarkFails(p) \/ SweepDone(p)
  \/ \E u \in Users : EnqueueSurveyDM(p, u) \/ EnqueueOverflows(p, u)
  \/ Update(p)
  \/ LookupApplicant(p) \/ AcceptIdempotent(p) \/ SetNDAVersionHash(p) \/ AuditAccept(p)
  \/ SubmitOnce(p) \/ \E v \in 1..latest : CheckSubmit(p, v)
  \/ p = Boot /\ BootSweep

Next ==
  \/ \E p \in Procs : Statement(p) \/ RequestFails(p)
  \/ \E h \in Handlers : CreateSurvey(h) \/ EditSurvey(h)
  \/ \E h \in Handlers, f \in Forms : EditPlaytest(h, f)
  \/ \E h \in Handlers, u \in Users : AcceptNDA(h, u) \/ SubmitSurveyResponse(h, u)
  \/ \E u \in Users : Approve(u)
  \/ Restart \/ ClosePlaytest \/ SoftDelete

Spec == Init /\ [][Next]_vars

\* No statement waits for another request: a goroutine runs on to the end of its request.
FairSpec == Spec /\ \A p \in Procs : WF_vars(Statement(p))

-----------------------------------------------------------------------------
(* Properties                                                              *)

Pcs == {"idle", "create", "edit", "point_created", "point_edited", "audit", "list",
        "sweep", "stamp", "boot", "update", "accept_read", "accept", "accept_stamp",
        "accept_audit", "submit_read", "submit"}
MaybeText == Texts \cup {None}
Requests == [pc : Pcs, user : Users \cup {None}, ver : Nat, form : Forms \cup {None},
             closed : BOOLEAN, nda : MaybeText, own : MaybeText, first : BOOLEAN,
             todo : SUBSET Users]

\* Every variable has its type.  survey_id and what a request holds are versions that
\* exist, and an NDA that is required has a text (AcceptNDA answers Internal otherwise).
TypeOK ==
  /\ playtest \in [survey : 0..latest, nda : MaybeText, required : BOOLEAN,
                  life : {"OPEN", "CLOSED", "deleted"}]
  /\ playtest.required => playtest.nda # None
  /\ latest \in Nat
  /\ applicant \in [Users -> [approved : BOOLEAN, nda : MaybeText, lastDm : Nat]]
  /\ accepted \in [Users -> SUBSET Texts]
  /\ response \in [Users -> [ver : Nat, nda : MaybeText] \cup {None}]
  /\ accepts \in [Users -> [Texts -> Nat]]
  /\ told \in [Users -> Seq(Nat)]
  /\ rpc \in [Procs -> Requests]
  /\ \A p \in Procs : rpc[p].ver <= latest
  /\ count \in [load : Loads, surveys : Nat, edits : Nat, boots : Nat]

\* Whoever answered a survey is approved, answered a version of this playtest and, when
\* the submit was gated on an NDA text, has a stored acceptance of that very text,
\* however NDA edits, acceptances and submits of one player interleave.
ResponsesAreCovered ==
  \A u \in Users : response[u] # None =>
    /\ applicant[u].approved
    /\ response[u].ver <= latest
    /\ response[u].nda # None => response[u].nda \in accepted[u]

\* One-shot: two submits of one player may both pass every check, only one is stored and
\* it is never overwritten.
ResponsesAreFinal ==
  [][\A u \in Users : response[u] # None => response'[u] = response[u]]_vars

\* nda.accept is audited for the first acceptance of a text only, also when the player
\* accepted other texts in between or clicked twice.
FirstAcceptAuditedOnce ==
  \A u \in Users, t \in Texts :
    accepts[u][t] > 0 => accepts[u][t] = 1 /\ t \in accepted[u]

\* The survey is published once, and a restart repeats that at most once: no player is
\* queued more DMs than that whatever is edited, lost or left unstamped.
PublishedOncePerBoot == \A u \in Users : Len(told[u]) <= 1 + count.boots

\* last_survey_dm_id names a survey whose DM was put in the queue: a player passed over
\* by an overflow is not stamped, or the restart sweep would skip them.
StampedWasTold ==
  \A u \in Users : applicant[u].lastDm # 0 =>
    \E i \in 1..Len(told[u]) : told[u][i] = applicant[u].lastDm

\* A player is blocked while their stamp differs from the NDA in force.  One who accepts
\* again and again, with acceptances coming through, does not stay blocked, also when the
\* text is one they had accepted before (a replay).
Blocked(u) ==
  Live /\ applicant[u].approved /\ playtest.required /\ applicant[u].nda # playtest.nda
KeepsAccepting(u) ==
  []<><<\E h \in Handlers : rpc[h].user = u /\ SetNDAVersionHash(h)>>_vars
AcceptingUnblocks == \A u \in Users : KeepsAccepting(u) => (Blocked(u) ~> ~Blocked(u))

-----------------------------------------------------------------------------
(* What the documents say and the code does not do.                        *)

\* docs/PRD.md: "admins iterating on prompt copy never re-broadcast".  After an EditSurvey
\* the restart sweep finds every stamp different from survey_id.
EditsNeverRebroadcast ==
  \A u \in Users : \A i, j \in 1..Len(told[u]) : told[u][i] = told[u][j]
=============================================================================
