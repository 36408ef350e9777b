----------------------------- MODULE AdtLinkage -----------------------------
(***************************************************************************)
(* The linkage of one ADT namespace with the studio, and the build of a    *)
(* playtest that lives in it.  A linkage exists twice: a row in            *)
(* adt_linkage, at most one of them live, and a flag at ADT that every ADT *)
(* call needs.  No transaction covers both, the admin's browser carries    *)
(* the state nonce between them, and any number of calls overlap.          *)
(***************************************************************************)
EXTENDS Integers, FiniteSets, Sequences

CONSTANTS
  Completes,  \* CompleteADTLink calls
  Unlinks,    \* UnlinkADT calls
  Recovers,   \* RecoverADTLinkage calls
  Changes,    \* ChangeADTBuild calls
  Probes,     \* CheckADTBuild, and approvals and retries that resolve a URL
  States,     \* the state nonces that StartADTLink mints
  Builds,     \* builds of the namespace at ADT
  FirstBuild, \* the one the playtest was created with
  Loads,      \* sets of calls: which ones are made in a behaviour
  None

Calls == Completes \cup Unlinks \cup Recovers \cup Changes \cup Probes

ASSUME FirstIsABuild == FirstBuild \in Builds
ASSUME LoadsAreCalls == Loads \subseteq SUBSET Calls
ASSUME CallsAreDistinct ==
  /\ IsFiniteSet(Calls) /\ None \notin Calls \cup States \cup Builds \cup {"OK", "UNAVAILABLE"}
  /\ Completes \cap (Unlinks \cup Recovers \cup Changes \cup Probes) = {}
  /\ Unlinks \cap (Recovers \cup Changes \cup Probes) = {}
  /\ Recovers \cap (Changes \cup Probes) = {}
  /\ Changes \cap Probes = {}

VARIABLES
  nonce,    \* adt_link_pending: "unused", "open", "expired" or "gone" of each state
  visited,  \* history: the states that ADT has sent back with a link
  flag,     \* ADT's linkage flag
  mark,     \* history: the unlink that cleared the flag last, or None when it was set
            \* last, and how many rows there were then
  rows,     \* adt_linkage, in the order of insertion
  audit,    \* adt_linkage.* and playtest.adt_build_change rows
  build,    \* playtest.adt_build_id
  health,   \* playtest.adt_build_status
  gone,     \* builds deleted at ADT
  used,     \* history: the builds the playtest has had
  call      \* where each call is and what it holds

atADT == <<flag, mark, gone>>
linking == <<nonce, visited, rows>>
playtest == <<build, health, used>>
vars == <<atADT, linking, audit, playtest, call>>

\* A statement or a remote call is answered, fails without effect, or takes effect while
\* the caller sees an error.  A call that dies stays where it is for good, as one whose
\* next step fails does.
Outcomes == {"answered", "failed", "lost"}
TakesEffect(o) == o # "failed"
Answered(o) == o = "answered"

NotStarted == [pc |-> "idle", state |-> None, row |-> 0, seen |-> 0, told |-> "no",
               build |-> None, verdict |-> None]

Init ==
  /\ nonce = [s \in States |-> "unused"] /\ visited = {}
  /\ flag \in BOOLEAN \* ADT may have kept the flag of a forgotten linkage
  /\ mark = [by |-> None, at |-> 0]
  /\ rows = <<>> /\ audit = {}
  /\ build = FirstBuild /\ health = None /\ gone = {} /\ used = {FirstBuild}
  /\ \E load \in Loads :
       call = [c \in Calls |-> IF c \in load THEN NotStarted
                              ELSE [NotStarted EXCEPT !.pc = "failed"]]

At(c, pc) == call[c].pc = pc
Goto(c, pc) == call' = [call EXCEPT ![c].pc = pc]
OnAnswer(c, o, pc) == Goto(c, IF Answered(o) THEN pc ELSE "failed")

IsLive(r) == rows[r].deletedBy = None
Live == {r \in DOMAIN rows : IsLive(r)}

-----------------------------------------------------------------------------
(* StartADTLink, the visit to ADT, CompleteADTLink.                        *)

\* A start that fails hands out no state and is left out.
StartADTLink(s) ==
  /\ nonce[s] = "unused"
  /\ nonce' = [nonce EXCEPT ![s] = "open"]
  /\ UNCHANGED <<atADT, visited, rows, audit, playtest, call>>

\* expires_at passes.
Expire(s) ==
  /\ nonce[s] = "open"
  /\ nonce' = [nonce EXCEPT ![s] = "expired"]
  /\ UNCHANGED <<atADT, visited, rows, audit, playtest, call>>

\* ADT refuses to link a namespace that is linked already.
VisitADT(s) ==
  /\ nonce[s] # "unused" /\ ~flag
  /\ visited' = visited \cup {s}
  /\ flag' = TRUE /\ mark' = [by |-> None, at |-> Len(rows)]
  /\ UNCHANGED <<gone, nonce, rows, audit, playtest, call>>

ConsumeKeeps(s) ==
  nonce' = [t \in States |-> IF nonce[t] = "expired" THEN "gone" ELSE nonce[t]]
\* One statement deletes the nonce, unless it has expired, and sweeps those that have.
ConsumePending(s) ==
  nonce' = [t \in States |-> IF t = s \/ nonce[t] = "expired" THEN
                               IF nonce[t] = "unused" THEN "unused" ELSE "gone"
                             ELSE nonce[t]]

\* The callback of the browser, which a reload makes a second time; or a call that names a
\* state and the namespace with no visit to ADT, which nothing here asks about.
CompleteADTLink(c, s, o) ==
  /\ At(c, "idle")
  /\ IF TakesEffect(o) THEN ConsumePending(s) ELSE UNCHANGED nonce
  /\ IF Answered(o) /\ nonce[s] = "open"
     THEN call' = [call EXCEPT ![c].pc = "insert", ![c].state = s]
     ELSE Goto(c, "failed")
  /\ UNCHANGED <<atADT, visited, rows, audit, playtest>>

\* The unique index admits one live row.  A completed link then answers the row that is
\* there, a recovery refuses.
Insert(c, o) ==
  /\ At(c, "insert")
  /\ IF Live = {}
     THEN /\ rows' = IF TakesEffect(o)
                     THEN Append(rows, [state |-> call[c].state, by |-> c, deletedBy |-> None])
                     ELSE rows
          /\ call' = [call EXCEPT ![c].pc = IF Answered(o) THEN "audit" ELSE "failed",
                                  ![c].row = Len(rows) + 1]
     ELSE /\ UNCHANGED rows
          /\ OnAnswer(c, o, IF c \in Completes THEN "existing" ELSE "failed")
  /\ UNCHANGED <<atADT, nonce, visited, audit, playtest>>

\* The row may have been unlinked since: then the link is lost, and its state with it.
GetExisting(c, o) ==
  /\ At(c, "existing")
  /\ OnAnswer(c, o, IF Live = {} THEN "failed" ELSE "done")
  /\ UNCHANGED <<atADT, linking, audit, playtest>>

\* The append is best effort.
AuditAction(c) == CASE c \in Completes -> "create" [] c \in Recovers -> "recover"
                    [] c \in Unlinks -> "delete"
AppendAudit(c, o) ==
  /\ At(c, "audit") /\ c \notin Changes
  /\ audit' = IF TakesEffect(o) THEN audit \cup {<<AuditAction(c), call[c].row, c>>} ELSE audit
  /\ Goto(c, "done")
  /\ UNCHANGED <<atADT, linking, playtest>>

-----------------------------------------------------------------------------
(* UnlinkADT.                                                              *)

\* A linkage that is already unlinked is left alone, here and at ADT.
AfterReadAnyway(r) == "drop"
AfterReadLocally(r) == IF IsLive(r) THEN "soft" ELSE "done"
AfterRead(r) == IF IsLive(r) THEN "drop" ELSE "done"
UnlinkADT(c, r) ==
  /\ At(c, "idle") /\ r \in DOMAIN rows
  /\ call' = [call EXCEPT ![c].pc = AfterRead(r), ![c].row = r, ![c].seen = Len(rows)]
  /\ UNCHANGED <<atADT, linking, audit, playtest>>

\* Tried up to four times after a timeout; the linkage is unlinked whatever ADT says.
DeleteLinkage(c, o) ==
  /\ At(c, "drop")
  /\ IF TakesEffect(o) /\ flag
     THEN flag' = FALSE /\ mark' = [by |-> c, at |-> Len(rows)]
     ELSE UNCHANGED <<flag, mark>>
  /\ \E pc \in IF Answered(o) THEN {"soft"} ELSE {"drop", "soft"} :
       call' = [call EXCEPT ![c].pc = pc,
                            ![c].told = IF TakesEffect(o) THEN "yes" ELSE IF @ = "no" THEN "failed" ELSE @]
  /\ UNCHANGED <<gone, linking, audit, playtest>>

\* COALESCE(deleted_at, NOW()): the first one to come sets it.
Deleted(r, c) == [rows EXCEPT ![r].deletedBy = IF @ = None THEN c ELSE @]
SoftDelete(c, o) ==
  /\ At(c, "soft")
  /\ rows' = IF TakesEffect(o) THEN Deleted(call[c].row, c) ELSE rows
  /\ OnAnswer(c, o, "audit")
  /\ UNCHANGED <<atADT, nonce, visited, audit, playtest>>

-----------------------------------------------------------------------------
(* RecoverADTLinkage: adopts a flag that has no row.                       *)

RecoverADTLinkage(c) ==
  /\ At(c, "idle")
  /\ Goto(c, IF Live = {} THEN "probe" ELSE "failed")
  /\ UNCHANGED <<atADT, linking, audit, playtest>>

\* ListGames answers only for a linked namespace.
ListGames(c, o) ==
  /\ At(c, "probe")
  /\ Goto(c, IF Answered(o) /\ flag THEN "insert" ELSE "failed")
  /\ UNCHANGED <<atADT, linking, audit, playtest>>

-----------------------------------------------------------------------------
(* The build of the playtest.                                              *)

\* The admin deletes a build at ADT.  Only the calls of this section can tell, so it is
\* enough to let it happen while one of them is under way.
LoseBuild(b) ==
  /\ b \notin gone
  /\ \E c \in Changes \cup Probes : call[c].pc \notin {"idle", "done", "failed"}
  /\ gone' = gone \cup {b}
  /\ UNCHANGED <<flag, mark, linking, audit, playtest, call>>

\* `build' keeps the build that the audit row will call the previous one.
ChangeADTBuild(c) ==
  /\ At(c, "idle")
  /\ call' = [call EXCEPT ![c].pc = "linkage", ![c].build = build]
  /\ UNCHANGED <<atADT, linking, audit, playtest>>

\* verifyADTBuild: a live row, then ListBuilds.
FindLinkage(c, o) ==
  /\ At(c, "linkage")
  /\ OnAnswer(c, o, IF Live = {} THEN "failed" ELSE "list")
  /\ UNCHANGED <<atADT, linking, audit, playtest>>

ListBuilds(c, b, o) ==
  /\ At(c, "list")
  /\ call' = [call EXCEPT ![c].pc = IF Answered(o) /\ flag /\ b \notin gone THEN "update"
                                    ELSE "failed",
                          ![c].verdict = b]
  /\ UNCHANGED <<atADT, linking, audit, playtest>>

\* Neither compares the build it replaces nor clears the health of that build.
UpdateADTBuild(c, o) ==
  /\ At(c, "update")
  /\ IF TakesEffect(o)
     THEN build' = call[c].verdict /\ used' = used \cup {build'}
     ELSE UNCHANGED <<build, used>>
  /\ OnAnswer(c, o, "audit")
  /\ UNCHANGED <<atADT, linking, audit, health>>

AuditBuildChange(c, o) ==
  /\ At(c, "audit") /\ c \in Changes
  /\ audit' = IF TakesEffect(o)
              THEN audit \cup {<<"build", <<call[c].build, call[c].verdict>>, c>>} ELSE audit
  /\ Goto(c, "done")
  /\ UNCHANGED <<atADT, linking, playtest>>

ReadBuild(c) ==
  /\ At(c, "idle")
  /\ call' = [call EXCEPT ![c].pc = "issue", ![c].build = build]
  /\ UNCHANGED <<atADT, linking, audit, playtest>>

\* adtBuildHealthFromIssueErr: a URL is OK, a build that is not found is UNAVAILABLE, and
\* anything else, a missing linkage too, says nothing about the build.
VerdictNamed(b, o) ==
  IF ~Answered(o) THEN None ELSE IF ~flag THEN "LINKAGE_MISSING"
  ELSE IF b \in gone THEN "UNAVAILABLE" ELSE "OK"
VerdictHasty(b, o) ==
  IF ~Answered(o) THEN None ELSE IF ~flag \/ b \in gone THEN "UNAVAILABLE" ELSE "OK"
Verdict(b, o) ==
  IF ~Answered(o) \/ ~flag THEN None ELSE IF b \in gone THEN "UNAVAILABLE" ELSE "OK"
IssueDownloadURL(c, o) ==
  /\ At(c, "issue")
  /\ LET v == Verdict(call[c].build, o) IN
       call' = [call EXCEPT ![c].pc = IF v = None THEN "failed" ELSE "record", ![c].verdict = v]
  /\ UNCHANGED <<atADT, linking, audit, playtest>>

SetADTBuildHealth(c, o) ==
  /\ At(c, "record")
  /\ health' = IF TakesEffect(o) THEN call[c].verdict ELSE health
  /\ OnAnswer(c, o, "done")
  /\ UNCHANGED <<atADT, linking, audit, build, used>>

-----------------------------------------------------------------------------

Environment ==
  \/ \E s \in States : StartADTLink(s) \/ Expire(s) \/ VisitADT(s)
  \/ \E b \in Builds : LoseBuild(b)

Linking ==
  \E o \in Outcomes :
    \/ \E c \in Completes : \E s \in States : CompleteADTLink(c, s, o)
    \/ \E c \in Completes \cup Recovers : Insert(c, o)
    \/ \E c \in Completes : GetExisting(c, o)
    \/ \E c \in Completes \cup Recovers \cup Unlinks : AppendAudit(c, o)
    \/ \E c \in Recovers : ListGames(c, o)
    \/ \E c \in Unlinks : DeleteLinkage(c, o) \/ SoftDelete(c, o)

Building ==
  \/ \E c \in Changes : ChangeADTBuild(c)
  \/ \E c \in Probes : ReadBuild(c)
  \/ \E o \in Outcomes :
       \/ \E c \in Changes : FindLinkage(c, o) \/ UpdateADTBuild(c, o) \/ AuditBuildChange(c, o)
       \/ \E c \in Changes : \E b \in Builds : ListBuilds(c, b, o)
       \/ \E c \in Probes : IssueDownloadURL(c, o) \/ SetADTBuildHealth(c, o)

Next ==
  \/ Environment
  \/ Linking
  \/ \E c \in Unlinks : \E r \in DOMAIN rows : UnlinkADT(c, r)
  \/ \E c \in Recovers : RecoverADTLinkage(c)
  \/ Building

Spec == Init /\ [][Next]_vars

-----------------------------------------------------------------------------
(* Properties.                                                             *)

Places == {"idle", "insert", "existing", "audit", "drop", "soft", "probe", "linkage",
           "list", "update", "issue", "record", "done", "failed"}
MaxRows == Cardinality(Completes) + Cardinality(Recovers)

\* Every variable has the type of the column, the ADT object or the local it stands for.
TypeOK ==
  /\ nonce \in [States -> {"unused", "open", "expired", "gone"}]
  /\ visited \subseteq States
  /\ flag \in BOOLEAN /\ mark \in [by : Calls \cup {None}, at : 0..MaxRows]
  /\ rows \in Seq([state : States \cup {None}, by : Completes \cup Recovers,
                   deletedBy : Unlinks \cup {None}])
  /\ Len(rows) <= MaxRows
  /\ build \in Builds /\ health \in {None, "OK", "UNAVAILABLE"}
  /\ gone \subseteq Builds /\ used \subseteq Builds
  /\ \A c \in Calls : call[c].pc \in Places /\ call[c].row \in 0..MaxRows

\* A state nonce makes one linkage at most, also when the browser repeats the callback
\* after that linkage was unlinked.
StateLinksOnce ==
  \A q, r \in DOMAIN rows : rows[q].state = rows[r].state /\ rows[q].state # None => q = r

\* A live linkage that ADT does not know is the work of an unlink of this very row that did
\* not finish, or of one that had read the table before this row was inserted; or the row
\* came when the flag was down, by a state with which nobody has linked at ADT: the
\* callback takes the caller's word for the visit.  That is no excuse for a row that ADT
\* knew when it came, whatever its state.
Unvisited(r) == rows[r].state \in States \ visited
LostFlagNeedsOverlap ==
  \A r \in Live : ~flag =>
    \/ r > mark.at /\ Unvisited(r)
    \/ LET c == mark.by IN
         /\ c \in Unlinks
         /\ IF call[c].row = r THEN call[c].pc # "done" ELSE call[c].seen < r

\* The orphan flag: once a linkage made since ADT set the flag has been unlinked, the flag
\* stays behind only if the DELETE of that unlink never reached ADT.
OrphanNeedsFailedDelete ==
  flag => \A r \in DOMAIN rows :
            r > mark.at /\ ~IsLive(r) => call[rows[r].deletedBy].told = "failed"

\* adt_build_status is UNAVAILABLE only when ADT has lost a build that the playtest has or
\* had: never because the namespace was unlinked or ADT did not answer.
UnavailableMeansGone == health = "UNAVAILABLE" => used \cap gone # {}
=============================================================================
