--------------------------- MODULE PlaytestCreate ---------------------------
(***************************************************************************)
(* CreatePlaytest.  For AGS_CAMPAIGN the handler builds a campaign, an     *)
(* item and codes in AGS before it inserts the playtest, and takes them    *)
(* down again when a later step fails.  AGS and the database share no      *)
(* transaction, an answer may be lost, the first request of a process also *)
(* prepares the AGS namespace, and requests for one slug race.             *)
(***************************************************************************)
EXTENDS Integers, FiniteSets, Sequences

CONSTANTS
  Creates,     \* CreatePlaytest requests
  AgsCreates,  \* those whose distribution model is AGS_CAMPAIGN
  Slug,        \* the slug each request asks for
  MaxRows,     \* maxNamespacePlayt
  Quantity,    \* initial_code_quantity
  BatchSize,   \* agsCodeBatchSize
  Prepared,    \* what the AGS namespace has before the first request
  MaxCrashes,  \* bound on restarts of the process
  None

ASSUME NumbersArePositive == {MaxRows, Quantity, BatchSize} \subseteq Nat \ {0}
ASSUME CrashesAreBounded == MaxCrashes \in Nat
ASSUME AgsCreatesAreCreates == AgsCreates \subseteq Creates /\ IsFiniteSet(Creates)
ASSUME NoneIsNoCreate == None \notin Creates

VARIABLES
  rows,       \* playtest table: the requests whose row is there, with its codes
  campaign,   \* AGS: the campaign of each request: "none", "active", "inactive"
  item,       \* AGS: its item: "none", "there", "gone"
  linked,     \* AGS: the item is redeemable through the campaign
  setup,      \* AGS: which of the namespace prerequisites exist
  audit,      \* campaign.create_failed row of each request, or None
  ready,      \* agsBootstrap.done of this process
  boot,       \* agsBootstrap.mu: who holds it, and the step Bootstrap is at
  job,        \* where each request is and what it knows
  lost,       \* history: effects whose answer the request never saw
  busiest,    \* history: the most requests that were under way at one time
  crashes

platform == <<campaign, item, linked, setup>>
tables == <<rows, audit>>
process == <<ready, boot>>
vars == <<platform, tables, process, job, lost, busiest, crashes>>

\* A remote call is answered, fails without effect, or takes effect and the caller sees an
\* error all the same: a timeout, a reset, an answer without the id it needs.  Expired
\* tokens are renewed inside a call (callWithRelogin).
Outcomes == {"answered", "failed", "lost"}
TakesEffect(o) == o # "failed"
Answered(o) == o = "answered"

Steps == <<"store", "category", "currency">>
Needed == {"store", "category", "currency"}
ASSUME PreparedIsSetup == Prepared \subseteq Needed
NotStarted == [pc |-> "idle", left |-> Quantity, knows |-> {},
               clean |-> TRUE, rolledBack |-> FALSE]

Init ==
  /\ rows = {} /\ setup = Prepared
  /\ campaign = [c \in Creates |-> "none"]
  /\ item = [c \in Creates |-> "none"]
  /\ linked = [c \in Creates |-> FALSE]
  /\ audit = [c \in Creates |-> None]
  /\ ready = FALSE /\ boot = [holder |-> None, step |-> 1]
  /\ job = [c \in Creates |-> NotStarted]
  /\ lost = [c \in Creates |-> {}]
  /\ busiest = 0
  /\ crashes = 0

Ended == {"done", "failed", "refused", "dead"}
UnderWay == {c \in Creates : job[c].pc \notin Ended \cup {"idle"}}

At(c, pc) == job[c].pc = pc
Goto(c, pc) == job' = [job EXCEPT ![c].pc = pc]
NoteLost(c, o, what) ==
  lost' = IF o = "lost" THEN [lost EXCEPT ![c] = @ \cup {what}] ELSE lost

-----------------------------------------------------------------------------
(* The limit, and the plain creation of STEAM_KEYS and ADT playtests.      *)

\* List counts live and soft-deleted rows; the insert comes later, on its own.
PastLimit == Cardinality(rows) > MaxRows
AtLimit == Cardinality(rows) >= MaxRows
CreatePlaytest(c) ==
  /\ At(c, "idle")
  /\ Goto(c, IF AtLimit THEN "refused" ELSE IF c \in AgsCreates THEN "boot" ELSE "insert")
  /\ busiest' = IF Cardinality(UnderWay') > busiest THEN Cardinality(UnderWay') ELSE busiest
  /\ UNCHANGED <<platform, tables, process, lost, crashes>>

SlugFree(c) == \A r \in rows : Slug[r] # Slug[c]

InsertPlain(c, o) ==
  /\ At(c, "insert")
  /\ IF SlugFree(c) /\ TakesEffect(o)
     THEN rows' = rows \cup {c} /\ NoteLost(c, o, "row")
     ELSE UNCHANGED <<rows, lost>>
  /\ Goto(c, IF SlugFree(c) /\ Answered(o) THEN "done" ELSE "failed")
  /\ UNCHANGED <<platform, audit, process, crashes>>

-----------------------------------------------------------------------------
(* ensureAGSBootstrap: once per process, one request at a time.            *)

AlreadyBootstrapped(c) ==
  /\ At(c, "boot") /\ ready
  /\ Goto(c, "campaign")
  /\ UNCHANGED <<platform, tables, process, lost, crashes>>

LockBootstrap(c) ==
  /\ At(c, "boot") /\ ~ready /\ boot.holder = None
  /\ boot' = [holder |-> c, step |-> 1]
  /\ UNCHANGED <<platform, tables, ready, job, lost, crashes>>

Unlocked == [holder |-> None, step |-> 1]
LockKept == boot
LockAfterFailure == Unlocked

EnsureLoosely(c, n, o) ==
  /\ boot.holder = c /\ boot.step = n /\ n <= Len(Steps)
  /\ setup' = IF TakesEffect(o) THEN setup \cup {Steps[n]} ELSE setup
  /\ boot' = [boot EXCEPT !.step = n + 1]
  /\ UNCHANGED <<campaign, item, linked, tables, ready, job, lost, crashes>>
\* One prerequisite: found, or created; a 409 means that somebody else created it.
Ensure(c, n, o) ==
  /\ boot.holder = c /\ boot.step = n /\ n <= Len(Steps)
  /\ setup' = IF TakesEffect(o) THEN setup \cup {Steps[n]} ELSE setup
  /\ IF Answered(o)
     THEN boot' = [boot EXCEPT !.step = n + 1] /\ UNCHANGED job
     ELSE boot' = LockAfterFailure /\ Goto(c, "audit")
  /\ UNCHANGED <<campaign, item, linked, tables, ready, lost, crashes>>
BootstrapStore(c, o) == Ensure(c, 1, o)
BootstrapCategory(c, o) == Ensure(c, 2, o)
BootstrapCurrency(c, o) == Ensure(c, 3, o)

\* The ids are resolved, done is set, and the lock goes to the next one waiting.
BootstrapDone(c) ==
  /\ boot.holder = c /\ boot.step > Len(Steps)
  /\ ready' = TRUE /\ boot' = Unlocked
  /\ Goto(c, "campaign")
  /\ UNCHANGED <<platform, tables, lost, crashes>>

-----------------------------------------------------------------------------
(* Provisioning, in the order of createAGSCampaignPlaytest; no call is     *)
(* made twice.                                                             *)

\* Where a request goes when a call of the provisioning fails: the cleanup when it knows
\* of anything to clean, the audit otherwise.
GiveUpEarly(c, knows) ==
  job' = [job EXCEPT ![c].pc = IF "item" \notin knows THEN "audit" ELSE "undo_campaign",
                     ![c].left = 0, ![c].knows = knows]
GiveUp(c, knows) ==
  job' = [job EXCEPT ![c].pc = IF knows = {} THEN "audit" ELSE "undo_campaign",
                     ![c].left = 0, ![c].knows = knows]

CreateCampaign(c, o) ==
  /\ At(c, "campaign")
  /\ campaign' = IF TakesEffect(o) THEN [campaign EXCEPT ![c] = "active"] ELSE campaign
  /\ NoteLost(c, o, "campaign")
  /\ IF Answered(o)
     THEN job' = [job EXCEPT ![c].pc = "item", ![c].knows = {"campaign"}]
     ELSE GiveUp(c, {})
  /\ UNCHANGED <<item, linked, setup, tables, process, crashes>>

\* AGS takes an item only with a store and a category to put it in.
CreateItem(c, o) ==
  /\ At(c, "item")
  /\ TakesEffect(o) => {"store", "category"} \subseteq setup
  /\ item' = IF TakesEffect(o) THEN [item EXCEPT ![c] = "there"] ELSE item
  /\ NoteLost(c, o, "item")
  /\ IF Answered(o)
     THEN job' = [job EXCEPT ![c].pc = "link", ![c].knows = {"campaign", "item"}]
     ELSE GiveUp(c, {"campaign"})
  /\ UNCHANGED <<campaign, linked, setup, tables, process, crashes>>

AfterLinkAnyway(c, o) == Goto(c, "codes")
AfterLink(c, o) == IF Answered(o) THEN Goto(c, "codes") ELSE GiveUp(c, job[c].knows)
LinkItemToCampaign(c, o) ==
  /\ At(c, "link")
  /\ linked' = IF TakesEffect(o) THEN [linked EXCEPT ![c] = TRUE] ELSE linked
  /\ AfterLink(c, o)
  /\ UNCHANGED <<campaign, item, setup, tables, process, lost, crashes>>

CreateCodesUnclamped(c, n, o) ==
  /\ At(c, "codes") /\ n <= BatchSize
  /\ IF Answered(o)
     THEN job' = [job EXCEPT ![c].pc = IF n < BatchSize \/ job[c].left <= n
                                       THEN "commit" ELSE "codes",
                             ![c].left = IF n < BatchSize THEN 0 ELSE @ - n]
     ELSE GiveUp(c, job[c].knows)
  /\ UNCHANGED <<platform, tables, process, lost, crashes>>
\* One batch of n codes, at most as many as were asked for.  A short batch is partial
\* fulfilment and ends the loop without an error; after an error the codes received so far
\* are dropped.
CreateCodes(c, n, o) ==
  LET want == IF job[c].left < BatchSize THEN job[c].left ELSE BatchSize
      over == n < want \/ job[c].left = n IN
  /\ At(c, "codes") /\ n <= want
  /\ IF Answered(o)
     THEN job' = [job EXCEPT ![c].pc = IF over THEN "commit" ELSE "codes",
                             ![c].left = IF over THEN 0 ELSE @ - n]
     ELSE GiveUp(c, job[c].knows)
  /\ UNCHANGED <<platform, tables, process, lost, crashes>>

\* One transaction: the row with the AGS ids, and its codes.  InTx returns the error of
\* COMMIT, so a transaction that did commit may count as rolled back.
CommitRow(c, o) ==
  /\ At(c, "commit")
  /\ IF SlugFree(c) /\ TakesEffect(o)
     THEN rows' = rows \cup {c} /\ NoteLost(c, o, "row")
     ELSE UNCHANGED <<rows, lost>>
  /\ job' = IF SlugFree(c) /\ Answered(o)
            THEN [job EXCEPT ![c].pc = "done"]
            ELSE [job EXCEPT ![c].pc = "undo_campaign", ![c].rolledBack = TRUE]
  /\ UNCHANGED <<platform, audit, process, crashes>>

-----------------------------------------------------------------------------
(* cleanupAfterCampaignCreateFailure, and the audit of the failure.        *)

\* DeleteCampaign deactivates: AGS has no deletion of campaigns.
DeleteCampaign(c, o) ==
  /\ At(c, "undo_campaign")
  /\ campaign' = IF TakesEffect(o) THEN [campaign EXCEPT ![c] = "inactive"] ELSE campaign
  /\ job' = [job EXCEPT ![c].pc = IF "item" \in job[c].knows THEN "undo_item" ELSE "audit",
                        ![c].clean = Answered(o)]
  /\ UNCHANGED <<item, linked, setup, tables, process, lost, crashes>>

DeleteItem(c, o) ==
  /\ At(c, "undo_item")
  /\ item' = IF TakesEffect(o) THEN [item EXCEPT ![c] = "gone"] ELSE item
  /\ job' = [job EXCEPT ![c].pc = "audit", ![c].clean = @ /\ Answered(o)]
  /\ UNCHANGED <<campaign, linked, setup, tables, process, lost, crashes>>

\* cleanupAttempted and cleanupSuccess of the row.  The rollback of the transaction always
\* reports a failed cleanup.
FailureRow(c) ==
  [attempted |-> job[c].knows # {},
   success |-> job[c].knows # {} /\ job[c].clean /\ ~job[c].rolledBack]

\* The append is best effort: the request fails with the first error all the same.
AuditFailure(c, o) ==
  /\ At(c, "audit")
  /\ audit' = IF TakesEffect(o) THEN [audit EXCEPT ![c] = FailureRow(c)] ELSE audit
  /\ Goto(c, "failed")
  /\ UNCHANGED <<platform, rows, process, lost, crashes>>

-----------------------------------------------------------------------------

\* The process dies: its requests end where they are, and the next one starts anew.
Crash ==
  /\ crashes < MaxCrashes
  /\ crashes' = crashes + 1
  /\ job' = [c \in Creates |-> IF job[c].pc \in Ended \cup {"idle"} THEN job[c]
                               ELSE [job[c] EXCEPT !.pc = "dead"]]
  /\ ready' = FALSE /\ boot' = Unlocked
  /\ UNCHANGED <<platform, tables, lost, busiest>>

Step(c) ==
  /\ UNCHANGED busiest
  /\ \/ AlreadyBootstrapped(c) \/ LockBootstrap(c) \/ BootstrapDone(c)
     \/ \E o \in Outcomes :
          \/ InsertPlain(c, o)
          \/ BootstrapStore(c, o) \/ BootstrapCategory(c, o) \/ BootstrapCurrency(c, o)
          \/ CreateCampaign(c, o) \/ CreateItem(c, o) \/ LinkItemToCampaign(c, o)
          \/ \E n \in 0..BatchSize : CreateCodes(c, n, o)
          \/ CommitRow(c, o)
          \/ DeleteCampaign(c, o) \/ DeleteItem(c, o) \/ AuditFailure(c, o)

Next == Crash \/ \E c \in Creates : CreatePlaytest(c) \/ Step(c)

Spec == Init /\ [][Next]_vars

\* Every remote call and every statement is bounded by the 300 s of agsCtx or by the
\* request's own context, so a request that can take its next step takes it.  Nobody has
\* to send a request.
FairSpec == Spec /\ \A c \in Creates : WF_vars(Step(c))

-----------------------------------------------------------------------------
(* Properties.                                                             *)

Places == {"idle", "insert", "boot", "campaign", "item", "link", "codes", "commit",
           "undo_campaign", "undo_item", "audit"} \cup Ended

\* Every variable has the type of the column, the AGS object or the local it stands for.
TypeOK ==
  /\ rows \subseteq Creates
  /\ campaign \in [Creates -> {"none", "active", "inactive"}]
  /\ item \in [Creates -> {"none", "there", "gone"}]
  /\ linked \in [Creates -> BOOLEAN]
  /\ setup \subseteq Needed
  /\ audit \in [Creates -> [attempted : BOOLEAN, success : BOOLEAN] \cup {None}]
  /\ ready \in BOOLEAN
  /\ boot \in [holder : Creates \cup {None}, step : 1..4]
  /\ job \in [Creates -> [pc : Places, left : 0..Quantity,
                           knows : SUBSET {"campaign", "item"}, clean : BOOLEAN,
                           rolledBack : BOOLEAN]]
  /\ lost \in [Creates -> SUBSET {"campaign", "item", "row"}]
  /\ busiest \in 0..Cardinality(Creates)
  /\ crashes \in 0..MaxCrashes

\* A playtest that was created on AGS can be redeemed: its campaign is active, its item is
\* there and linked, and stays so while other requests for the same slug lose and clean
\* up.  The one exception is a playtest whose COMMIT was done and not answered: its own
\* request takes the campaign down.
LiveIsRedeemable ==
  \A c \in rows \cap AgsCreates :
    "row" \notin lost[c] => campaign[c] = "active" /\ item[c] = "there" /\ linked[c]

\* What a failed request leaves in AGS is what it never learned it had created or tried and
\* failed to delete; and an audit row that claims a successful cleanup is never written
\* over anything but the former.
LeftoversAreAccountedFor ==
  \A c \in AgsCreates :
    /\ job[c].pc = "failed" /\ job[c].clean =>
         /\ campaign[c] = "active" => "campaign" \in lost[c]
         /\ item[c] = "there" => "item" \in lost[c]
    /\ audit[c] # None /\ audit[c].success =>
         /\ campaign[c] = "inactive"
         /\ item[c] = "there" => "item" \in lost[c]

\* agsBootstrap.done is set only when the namespace has all it needs, also when several
\* requests and earlier processes did parts of the work.
ReadyMeansSetUp == ready => setup = Needed

\* The limit is counted minutes before the insert, and requests that overlap all pass it.
\* But only those: when at most n requests are ever under way at once the table never has
\* more than n - 1 rows over the limit, whatever was rolled back or answered in between.
OvershootNeedsOverlap ==
  Cardinality(rows) > MaxRows => Cardinality(rows) - MaxRows < busiest

\* Every request comes to an end, also those that wait for the lock of a bootstrap that
\* fails.
EveryCreateEnds ==
  \A c \in Creates : job[c].pc # "idle" ~> job[c].pc \in Ended
=============================================================================
