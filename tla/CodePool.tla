------------------------------ MODULE CodePool ------------------------------
(***************************************************************************)
(* How codes get into the pool of one playtest: TopUpCodes generates them  *)
(* in AGS, SyncFromAGS fetches what AGS holds, UploadCodes takes a file.   *)
(* Every insert is a transaction of its own under the advisory lock of     *)
(* the playtest.  AGS generates whether or not its answer arrives, pages   *)
(* move while they are read, and calls are retried.  What becomes of a     *)
(* code that is in the pool is CodeGrant's.                                *)
(***************************************************************************)
EXTENDS Integers, FiniteSets, Sequences, Functions

CONSTANTS
  Callers,      \* requests that may be under way at the same time
  Models,       \* the distribution models a behaviour may start with
  Files,        \* the CSV files admins upload: sequences of lines
  Malformed,    \* lines that parseUploadCSV rejects by themselves
  MaxQuantity,  \* bound on the quantity of a top-up
  BatchSize,    \* agsCodeBatchSize
  PageSize,     \* pageLimit of QueryCodes
  MaxAttempts,  \* MaxAttempts of DefaultRetryPolicy
  MaxMinted,    \* bound on the codes AGS generates
  MaxCalls,     \* bound on the requests of one behaviour
  None

ASSUME SizesArePositive ==
  {MaxQuantity, BatchSize, PageSize, MaxAttempts} \subseteq Nat \ {0}
ASSUME BoundsAreNatural == {MaxMinted, MaxCalls} \subseteq Nat
ASSUME ModelsHaveAPool == Models \subseteq {"AGS_CAMPAIGN", "STEAM_KEYS"}
ASSUME FilesAreSequences == \A f \in Files : f \in Seq(Range(f))
ASSUME NoneIsNothing == None \notin Callers \cup {"topup", "sync", "upload"}

VARIABLES
  model,    \* distribution_model of the playtest, which never changes
  minted,   \* AGS: the codes of the campaign, in the order QueryCodes lists them
  stored,   \* code table: the values of the playtest
  lock,     \* pg_advisory_xact_lock on the playtest: the caller that holds it
  call,     \* where each request is and what it holds
  audited,  \* audit log: sum of the quantities of campaign.generate_codes and code.upload
  calls

vars == <<model, minted, stored, lock, call, audited, calls>>

Idle == [pc |-> "idle", kind |-> None, left |-> 0, tries |-> 1, known |-> {},
         hand |-> <<>>, fresh |-> {}, added |-> 0]

Init ==
  /\ model \in Models
  /\ minted = <<>> /\ stored = {} /\ lock = None
  /\ call = [p \in Callers |-> Idle]
  /\ audited = 0 /\ calls = 0

At(p, pc) == call[p].pc = pc
Goto(p, pc) == call' = [call EXCEPT ![p].pc = pc]
Return(p) == call' = [call EXCEPT ![p] = Idle]

Begin(p, r) ==
  /\ At(p, "idle") /\ calls < MaxCalls
  /\ calls' = calls + 1
  /\ call' = [call EXCEPT ![p] = r]
  /\ UNCHANGED <<model, minted, stored, lock, audited>>

-----------------------------------------------------------------------------
(* Talking to AGS: RetryPolicy.Run around one call.                        *)

\* A failure worth another attempt is a 5xx, a timeout or a broken connection; a 4xx is
\* final.  Every attempt starts the call from the beginning.
Faults == {"transient", "final"}
RetryOnceMore(p, fault) ==
  LET r == call[p] IN
  call' = [call EXCEPT ![p] = IF fault = "transient" /\ r.tries <= MaxAttempts
                              THEN [r EXCEPT !.tries = @ + 1, !.hand = <<>>]
                              ELSE Idle]
RetryOrFail(p, fault) ==
  LET r == call[p] IN
  call' = [call EXCEPT ![p] = IF fault = "transient" /\ r.tries < MaxAttempts
                              THEN [r EXCEPT !.tries = @ + 1, !.hand = <<>>]
                              ELSE Idle]

\* AGS numbers its codes as it generates them, never the same number twice, and lists the
\* n new ones from place i on.
Born(n) == [k \in 1..n |-> Len(minted) + k]
Generate(n, i) ==
  SubSeq(minted, 1, i) \o Born(n) \o SubSeq(minted, i + 1, Len(minted))

-----------------------------------------------------------------------------
(* TopUpCodes: batch by batch, each inserted before the next is generated. *)

Want(p) == IF call[p].left < BatchSize THEN call[p].left ELSE BatchSize

TopUpCodes(p, q) ==
  /\ model = "AGS_CAMPAIGN"
  /\ Begin(p, [Idle EXCEPT !.pc = "mint", !.kind = "topup", !.left = q])

\* CreateCodes generates a batch of n and queries it back by its name, which no other batch
\* has; AGS may list only k of them yet.  Fewer codes than asked for is no error, and none
\* ends the loop.
CreateCodes(p, n, k, i) ==
  /\ At(p, "mint")
  /\ n <= Want(p) /\ Len(minted) + n <= MaxMinted
  /\ minted' = Generate(n, i)
  /\ call' = [call EXCEPT ![p].pc = IF k = 0 THEN "audit" ELSE "lock", ![p].hand = Born(k),
                          ![p].tries = 1]
  /\ UNCHANGED <<model, stored, lock, audited, calls>>

\* The codes may have been generated all the same; the next attempt uses another name.
CreateCodesFails(p, n, i, fault) ==
  /\ At(p, "mint")
  /\ n <= Want(p) /\ Len(minted) + n <= MaxMinted
  /\ minted' = Generate(n, i)
  /\ RetryOrFail(p, fault)
  /\ UNCHANGED <<model, stored, lock, audited, calls>>

-----------------------------------------------------------------------------
(* SyncFromAGS: every page of the campaign, then one insert.               *)

SyncFromAGS(p) ==
  /\ model = "AGS_CAMPAIGN"
  /\ Begin(p, [Idle EXCEPT !.pc = "fetch", !.kind = "sync", !.known = Range(minted)])

PageAfter(offset) ==
  LET last == offset + 1 + PageSize IN
  SubSeq(minted, offset + 2, IF last < Len(minted) THEN last ELSE Len(minted))
Page(offset) ==
  LET last == offset + PageSize IN
  SubSeq(minted, offset + 1, IF last < Len(minted) THEN last ELSE Len(minted))

\* The offset is the number of codes fetched so far.  A short page is the last one.
FetchPage(p) ==
  LET page == Page(Len(call[p].hand))
      all == call[p].hand \o page IN
  /\ At(p, "fetch")
  /\ call' = [call EXCEPT ![p].hand = all,
                          ![p].pc = IF Len(page) = PageSize THEN "fetch"
                                    ELSE IF all = <<>> THEN "audit" ELSE "lock"]
  /\ UNCHANGED <<model, minted, stored, lock, audited, calls>>

FetchFails(p, fault) ==
  /\ At(p, "fetch")
  /\ RetryOrFail(p, fault)
  /\ UNCHANGED <<model, minted, stored, lock, audited, calls>>

-----------------------------------------------------------------------------
(* UploadCodes: a file is taken as a whole or not at all.                  *)

\* Blank, too long or odd lines, and lines that repeat an earlier one.
WellFormed(file) == Range(file) \cap Malformed = {} /\ IsInjective(file)

\* A rejected or an empty file ends the request; the rejection is audited, best effort.
UploadCodes(p, file) ==
  /\ model = "STEAM_KEYS"
  /\ Begin(p, IF WellFormed(file) /\ file # <<>>
              THEN [Idle EXCEPT !.pc = "lock", !.kind = "upload", !.hand = file]
              ELSE Idle)

-----------------------------------------------------------------------------
(* UploadAtomic and InsertGeneratedAtomic.                                 *)

AnyLock == TRUE
LockIsFree == lock = None
AcquireLock(p) ==
  /\ At(p, "lock") /\ LockIsFree
  /\ lock' = p /\ Goto(p, "dedup")
  /\ UNCHANGED <<model, minted, stored, audited, calls>>

\* What a call does once its n codes are committed.  The top-up counts off what AGS
\* returned, also the codes that a sync had stored before it.
AfterInsert(p, n) ==
  LET r == call[p]
      left == IF r.kind = "topup" THEN r.left - Len(r.hand) ELSE 0
      more == left > 0 /\ Len(r.hand) = Want(p)
  IN [r EXCEPT !.pc = IF more THEN "mint" ELSE "audit", !.left = left,
               !.added = @ + n, !.fresh = {}, !.hand = IF more THEN <<>> ELSE @]

\* The places of the values that the table does not have.
Unseen(values) == {k \in DOMAIN values : values[k] \notin stored}

RejectedIfAllSeen(p, fresh) == call[p].kind = "upload" /\ fresh = {}
Rejected(p, fresh) == call[p].kind = "upload" /\ fresh # DOMAIN call[p].hand

\* The query for values that are already there.  A file that has one is rejected; of
\* generated codes the others are inserted.
Dedup(p) ==
  LET fresh == Unseen(call[p].hand) IN
  /\ At(p, "dedup")
  /\ \/ /\ Rejected(p, fresh)
        /\ lock' = None /\ Return(p)
     \/ /\ call[p].kind # "upload" /\ fresh = {}
        /\ lock' = None /\ call' = [call EXCEPT ![p] = AfterInsert(p, 0)]
     \/ /\ fresh # {} /\ ~Rejected(p, fresh)
        /\ call' = [call EXCEPT ![p].pc = "copy", ![p].fresh = fresh]
        /\ UNCHANGED lock
  /\ UNCHANGED <<model, minted, stored, audited, calls>>

\* CopyFrom is all or nothing on UNIQUE (playtest_id, value).
FreshValues(p) == {call[p].hand[k] : k \in call[p].fresh}
Copyable(p) ==
  /\ \A j, k \in call[p].fresh : call[p].hand[j] = call[p].hand[k] => j = k
  /\ FreshValues(p) \cap stored = {}

CopyAndCommit(p) ==
  /\ At(p, "copy") /\ Copyable(p)
  /\ stored' = stored \cup FreshValues(p)
  /\ lock' = None
  /\ call' = [call EXCEPT ![p] = AfterInsert(p, Cardinality(call[p].fresh))]
  /\ UNCHANGED <<model, minted, audited, calls>>

\* COMMIT is done and the answer is lost: the caller reports an error.
CommitUnanswered(p) ==
  /\ At(p, "copy") /\ Copyable(p)
  /\ stored' = stored \cup FreshValues(p)
  /\ lock' = None
  /\ Return(p)
  /\ UNCHANGED <<model, minted, audited, calls>>

CopyConflicts(p) ==
  /\ At(p, "copy") /\ ~Copyable(p)
  /\ lock' = None
  /\ Return(p)
  /\ UNCHANGED <<model, minted, stored, audited, calls>>

-----------------------------------------------------------------------------

\* campaign.generate_codes with the number added, or code.upload; nothing added, no row.
HandedQuantity(p) == Len(call[p].hand)
AuditedQuantity(p) == call[p].added
Audit(p) ==
  /\ At(p, "audit")
  /\ audited' = audited + AuditedQuantity(p)
  /\ Return(p)
  /\ UNCHANGED <<model, minted, stored, lock, calls>>

\* A statement fails, the audit is not written, the caller hangs up or the process dies:
\* the transaction is rolled back, and what was committed before stays.
Abort(p) ==
  /\ ~At(p, "idle")
  /\ lock' = IF lock = p THEN None ELSE lock
  /\ Return(p)
  /\ UNCHANGED <<model, minted, stored, audited, calls>>

Start(p) ==
  \/ \E q \in 1..MaxQuantity : TopUpCodes(p, q)
  \/ SyncFromAGS(p)
  \/ \E file \in Files : UploadCodes(p, file)

Continue(p) ==
  \/ \E n \in 0..BatchSize, i \in 0..Len(minted) : \E k \in 0..n : CreateCodes(p, n, k, i)
  \/ \E n \in 0..BatchSize, i \in 0..Len(minted), f \in Faults : CreateCodesFails(p, n, i, f)
  \/ FetchPage(p)
  \/ \E f \in Faults : FetchFails(p, f)
  \/ AcquireLock(p) \/ Dedup(p)
  \/ CopyAndCommit(p) \/ CommitUnanswered(p) \/ CopyConflicts(p)
  \/ Audit(p)

Next == \E p \in Callers : Start(p) \/ Continue(p) \/ Abort(p)

Spec == Init /\ [][Next]_vars

-----------------------------------------------------------------------------
(* Properties.                                                             *)

Values == 1..MaxMinted \cup UNION {Range(f) : f \in Files}

\* Every variable has the type of the rows and locals it stands for.
TypeOK ==
  /\ model \in Models
  /\ minted \in Seq(1..MaxMinted) /\ IsInjective(minted)
  /\ stored \subseteq Values
  /\ lock \in Callers \cup {None}
  /\ call \in [Callers ->
       [pc : {"idle", "mint", "fetch", "lock", "dedup", "copy", "audit"},
        kind : {"topup", "sync", "upload", None},
        left : 0..MaxQuantity, tries : 1..MaxAttempts,
        known : SUBSET (1..MaxMinted), hand : Seq(Values), fresh : SUBSET Nat,
        added : Nat]]
  /\ audited \in Nat /\ calls \in 0..MaxCalls

\* The answer of the deduplication still holds when the rows are copied, whatever other
\* uploads, top-ups and syncs of the playtest are under way: the lock covers both.
DedupIsExact == \A p \in Callers : At(p, "copy") => FreshValues(p) \cap stored = {}

\* A request that has come to its audit lost nothing on the way: the codes it was given or
\* learned of are in the pool, and a sync has stored every code that AGS held when it
\* began, those of unanswered top-ups included.
LearnedIsStored ==
  \A p \in Callers : At(p, "audit") =>
    Range(call[p].hand) \cup call[p].known \subseteq stored

\* The pool of a STEAM_KEYS playtest consists of whole files that share no code.
PoolIsWholeFiles ==
  model = "STEAM_KEYS" =>
    \E taken \in SUBSET Files :
      /\ stored = UNION {Range(f) : f \in taken}
      /\ \A f, g \in taken : f # g => Range(f) \cap Range(g) = {}
      /\ \A f \in taken : Range(f) \cap Malformed = {}

\* The audit log never claims more codes than the pool has got: a code that a top-up and a
\* sync both carry counts for one of them.
AuditNeverOverstates == audited <= Cardinality(stored)
=============================================================================
