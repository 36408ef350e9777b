----------------------------- MODULE GrantLedger -----------------------------
(***************************************************************************)
(* What the approve/reject/signup subsystem promises, with no processes,   *)
(* transactions, locks, reservations or crashes: a ledger of decisions and *)
(* of the one holder of every redemption code.                             *)
(***************************************************************************)
CONSTANTS
  Users,    \* players; (playtest, user) is unique, so a user is an applicant
  Codes,    \* redemption codes the playtest's pool may come to hold
  Pooled,   \* TRUE for STEAM_KEYS / AGS_CAMPAIGN, FALSE for ADT
  None

VARIABLES
  decision, \* NONE (never applied), PENDING, APPROVED or REJECTED, per user
  holder,   \* the user a code was granted to, or None
  stock     \* codes in the pool and not granted

ledgerVars == <<decision, holder, stock>>

LedgerInit ==
  /\ decision = [u \in Users |-> "NONE"]
  /\ holder = [c \in Codes |-> None]
  /\ stock = {}

Apply(u) ==
  /\ decision[u] = "NONE"
  /\ decision' = [decision EXCEPT ![u] = "PENDING"]
  /\ UNCHANGED <<holder, stock>>

\* Approval and code change hands in one step: no code leaves the pool without an
\* approved holder, and nobody is approved without a code.
Award(u, c) ==
  /\ Pooled
  /\ decision[u] = "PENDING"
  /\ c \in stock
  /\ decision' = [decision EXCEPT ![u] = "APPROVED"]
  /\ holder' = [holder EXCEPT ![c] = u]
  /\ stock' = stock \ {c}

\* ADT playtests hand out a download URL instead of a code.
AwardWithoutCode(u) ==
  /\ ~Pooled
  /\ decision[u] = "PENDING"
  /\ decision' = [decision EXCEPT ![u] = "APPROVED"]
  /\ UNCHANGED <<holder, stock>>

Refuse(u) ==
  /\ decision[u] = "PENDING"
  /\ decision' = [decision EXCEPT ![u] = "REJECTED"]
  /\ UNCHANGED <<holder, stock>>

\* Codes are only ever added; one that was granted never comes back.
Stock(S) ==
  /\ S \subseteq {c \in Codes : holder[c] = None}
  /\ stock' = stock \cup S
  /\ UNCHANGED <<decision, holder>>

LedgerNext ==
  \/ \E u \in Users : Apply(u) \/ AwardWithoutCode(u) \/ Refuse(u)
  \/ \E u \in Users, c \in Codes : Award(u, c)
  \/ \E S \in SUBSET Codes : Stock(S)

LedgerSpec == LedgerInit /\ [][LedgerNext]_ledgerVars
=============================================================================
