----------------------------- MODULE LeaderLease -----------------------------
(***************************************************************************)
(* One named row of the leader_lease table (pkg/repo/leader.go) and the    *)
(* loop every replica runs against it: internal/window and internal/reclaim*)
(* share this loop and differ in what a sweep does.  Time is counted in    *)
(* heartbeat intervals, and the row holds the time its lease has left,     *)
(* because every comparison is made by the database with its own NOW().    *)
(***************************************************************************)
EXTENDS Naturals

CONSTANTS
  Replicas,
  LeaseTTL,      \* LEADER_LEASE_TTL_SECONDS, in heartbeats
  SweepInterval, \* WINDOW_TICK_SECONDS or RECLAIM_INTERVAL_SECONDS, in heartbeats
  None

ASSUME LeaseTimes == LeaseTTL \in Nat \ {0} /\ SweepInterval \in Nat \ {0}
ASSUME NoneIsNoReplica == None \notin Replicas \cup Nat

VARIABLES
  lease,  \* the row: [holder, left]; NoLease when there is none
  loop    \* per replica: where Run is, the leading flag, a tick waiting in the
          \* ticker's channel, and the time since its last sweep

leaseVars == <<lease, loop>>

NoLease == [holder |-> None, left |-> 0]
Off == [pc |-> "off", leading |-> FALSE, fire |-> FALSE, since |-> None]

LeaseInit ==
  /\ lease = NoLease
  /\ loop = [r \in Replicas |-> Off]

\* No row, an expired one, or the caller's own: a holder may claim again.  The first of
\* the two takes a lease a heartbeat before it expires.
AcquirableEarly(r) == lease.left <= 1 \/ lease.holder = r
Acquirable(r) == lease.left = 0 \/ lease.holder = r

\* The caller's row, and not expired.
Holds(r) == lease.holder = r /\ lease.left > 0

SweepDue(r) == loop[r].since = None \/ loop[r].since >= SweepInterval

Boot(r) ==
  /\ loop[r].pc = "off"
  /\ loop' = [loop EXCEPT ![r].pc = "boot"]
  /\ lease' = lease

Wake(r) ==
  /\ loop[r].pc = "idle"
  /\ loop[r].fire
  /\ loop' = [loop EXCEPT ![r].fire = FALSE,
                          ![r].pc = IF loop[r].leading THEN "beat" ELSE "acquire"]
  /\ lease' = lease

\* TryAcquire.  From tick() a fresh leader heartbeats at once; from Run it waits.
Acquired(r) ==
  /\ loop[r].pc \in {"boot", "acquire"}
  /\ Acquirable(r)
  /\ lease' = [holder |-> r, left |-> LeaseTTL]
  /\ loop' = [loop EXCEPT ![r].leading = TRUE,
                          ![r].pc = IF loop[r].pc = "boot" THEN "idle" ELSE "beat"]

\* A failed heartbeat clears the leading flag; StillLeading keeps it.
StillLeading(r) == loop[r].leading
StopLeading(r) == FALSE

\* ErrLeaseHeld or a database error, which may come after the row was written.
NotAcquired(r) ==
  /\ loop[r].pc \in {"boot", "acquire"}
  /\ loop' = [loop EXCEPT ![r].leading = FALSE, ![r].pc = "idle"]
  /\ lease' = lease \/ (Acquirable(r) /\ lease' = [holder |-> r, left |-> LeaseTTL])

\* Refresh, then the sweep if it is due.
Refreshed(r) ==
  /\ loop[r].pc = "beat"
  /\ Holds(r)
  /\ lease' = [lease EXCEPT !.left = LeaseTTL]
  /\ loop' = IF SweepDue(r)
             THEN [loop EXCEPT ![r].pc = "sweep", ![r].since = 0]
             ELSE [loop EXCEPT ![r].pc = "idle"]

\* The lease is lost, or a database error, also one whose UPDATE took effect: follow, and
\* try again at the next tick.
NotRefreshed(r) ==
  /\ loop[r].pc = "beat"
  /\ loop' = [loop EXCEPT ![r].leading = StopLeading(r), ![r].pc = "idle"]
  /\ lease' = lease \/ (Holds(r) /\ lease' = [lease EXCEPT !.left = LeaseTTL])

\* The process ends.  Release runs only when the worker's context is cancelled and the
\* goroutine gets to run before the process is gone.
Stop(r) ==
  /\ loop[r].pc # "off"
  /\ loop' = [loop EXCEPT ![r] = Off]
  /\ lease' \in {lease} \cup (IF loop[r].pc = "idle" /\ loop[r].leading
                                 /\ lease.holder = r
                              THEN {NoLease} ELSE {})

\* One heartbeat interval passes.  A ticker keeps one tick; the time since a sweep began
\* only matters up to the sweep interval, and to the length of a lease.
LongEnough == IF LeaseTTL > SweepInterval THEN LeaseTTL ELSE SweepInterval
Elapse ==
  /\ lease' = IF lease.left > 0 THEN [lease EXCEPT !.left = @ - 1] ELSE lease
  /\ loop' = [r \in Replicas |->
       IF loop[r].pc = "off" THEN loop[r]
       ELSE [loop[r] EXCEPT
              !.fire = TRUE,
              !.since = IF @ = None \/ @ = LongEnough THEN @ ELSE @ + 1]]

LoopStep(r) ==
  Boot(r) \/ Wake(r) \/ Acquired(r) \/ NotAcquired(r) \/ Refreshed(r) \/ NotRefreshed(r)

\* For as long as a lease lasts from its start, a sweep is covered by the lease of its
\* replica.  Nothing renews the lease while it goes on.
Sweeping(r) == loop[r].pc \in {"sweep", "advance", "audit"}
SweepIsCovered ==
  \A r \in Replicas : Sweeping(r) =>
    /\ loop[r].since # None
    /\ \/ loop[r].since >= LeaseTTL
       \/ lease.holder = r /\ lease.left + loop[r].since = LeaseTTL

\* The lease elects one replica at a time: two sweeps overlap only when one of them has
\* gone on for as long as a lease lasts, whoever died, came back, or lost an answer.
SweepsOverlapOnlyLate ==
  \A q, r \in Replicas : q # r /\ Sweeping(q) /\ Sweeping(r) =>
    loop[q].since >= LeaseTTL \/ loop[r].since >= LeaseTTL

LeaseTypeOK ==
  /\ lease \in [holder : Replicas \cup {None}, left : 0..LeaseTTL]
  /\ loop \in [Replicas -> [pc : {"off", "boot", "idle", "acquire", "beat", "sweep",
                                  "advance", "audit"},
                            leading : BOOLEAN, fire : BOOLEAN,
                            since : 0..LongEnough \cup {None}]]
=============================================================================
