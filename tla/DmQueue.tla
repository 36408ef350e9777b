------------------------------- MODULE DmQueue -------------------------------
(***************************************************************************)
(* The Discord DM queue (pkg/dmqueue), the requests that feed it           *)
(* (approval, RetryDM, RetryFailedDms in pkg/service) and the boot sequence*)
(* of main.go.  Every replica has a bounded in-memory FIFO, one worker and *)
(* a circuit breaker; all of them are lost when the process ends.  The     *)
(* applicant table with its last_dm_status survives.                       *)
(*                                                                         *)
(* Every DM that is asked for has a number: ask i is for user asks[i], and *)
(* the first ask of a user is the approval.  A queue job is its ask.       *)
(***************************************************************************)
EXTENDS Naturals, Sequences, FiniteSets

CONSTANTS
  Users,        \* applicants of one live playtest
  Reachable,    \* those with a discord_user_id
  Replicas,
  Handlers,     \* requests that may be in service at the same time
  MaxDepth,     \* capacity of the FIFO
  TripCount,    \* CircuitTripFailureCount
  TripWindow,   \* CircuitTripWindow, in ticks
  OpenDuration, \* CircuitOpenDuration, in ticks
  MaxAsks,      \* bound on the number of DMs asked for
  MaxCrashes,   \* bound on the number of process deaths
  None

ASSUME ReachableAreUsers == Reachable \subseteq Users /\ IsFiniteSet(Users)
ASSUME BoundsAreNat ==
  /\ {MaxAsks, MaxCrashes} \subseteq Nat
  /\ {MaxDepth, TripCount, TripWindow, OpenDuration} \subseteq Nat \ {0}
ASSUME NoneIsNothing == None \notin Replicas \cup Nat

VARIABLES
  dm,         \* last_dm_status and last_dm_error of every applicant
  asks,       \* the user of every DM asked for so far
  delivered,  \* how often the DM of an ask reached the player
  unwritten,  \* users a status write or a restart scan was lost for
  skipped,    \* users whose request ended before it reached Enqueue
  rpc,        \* the requests: the replica they run on and the asks still to enqueue
  phase,      \* of the replica: down, booting, sweeping or draining
  lost,       \* the rows the boot sweep still has to mark
  ch,         \* the FIFO
  worker,     \* the job in process() and what it will be marked as
  failures,   \* ages of the failures in the trip window
  opened,     \* age of the open circuit, None when closed
  crashes

table == <<dm, unwritten>>
requests == <<asks, skipped, rpc>>
breaker == <<failures, opened>>
vars == <<dm, asks, delivered, unwritten, skipped, rpc, phase, lost, ch, worker,
          failures, opened, crashes>>

NoJob == [ask |-> 0, mark |-> "none"]
NoRequest == [at |-> None, left |-> {}]

-----------------------------------------------------------------------------
Asks == 1..Len(asks)
Approved == {asks[i] : i \in Asks}
Failed(u) == dm[u] \notin {"null", "sent"}
FailedUsers == {u \in Users : Failed(u)}

\* The gate of RetryDM: APPROVED and last_dm_status = 'failed'.
RetryAllowed(u) == u \in Approved /\ Failed(u)

\* The asks that still have a live request, queue slot or worker to answer them.
Carried ==
  (UNION {rpc[h].left : h \in Handlers})
    \cup (UNION {{ch[r][k] : k \in DOMAIN ch[r]} : r \in Replicas})
    \cup {worker[r].ask : r \in {s \in Replicas : worker[s] # NoJob}}
Pending(u) == \E i \in Carried : asks[i] = u

\* UpdateDMStatus: latest write wins.  A failed write is logged and forgotten.
MarkAs(u, m) ==
  \/ dm' = [dm EXCEPT ![u] = m] /\ unwritten' = unwritten
  \/ dm' = dm /\ unwritten' = unwritten \cup {u}

-----------------------------------------------------------------------------
Init ==
  /\ dm = [u \in Users |-> "null"]
  /\ asks = <<>>
  /\ delivered = [i \in 1..MaxAsks |-> 0]
  /\ unwritten = {} /\ skipped = {}
  /\ rpc = [h \in Handlers |-> NoRequest]
  /\ phase = [r \in Replicas |-> "down"]
  /\ lost = [r \in Replicas |-> {}]
  /\ ch = [r \in Replicas |-> <<>>]
  /\ worker = [r \in Replicas |-> NoJob]
  /\ failures = [r \in Replicas |-> <<>>]
  /\ opened = [r \in Replicas |-> None]
  /\ crashes = 0

-----------------------------------------------------------------------------
(* Requests.  A replica serves them from before its boot sweep on.          *)

Ask(h, r, who) ==
  /\ rpc[h] = NoRequest
  /\ phase[r] # "down"
  /\ Len(asks) + Len(who) <= MaxAsks
  /\ asks' = asks \o who
  /\ rpc' = [rpc EXCEPT ![h] = [at |-> r, left |-> Len(asks) + 1 .. Len(asks) + Len(who)]]
  /\ UNCHANGED <<table, delivered, skipped, phase, lost, ch, worker, breaker, crashes>>

\* The approve or auto-approve transaction has committed.
ApproveCommit(h, r, u) == u \notin Approved /\ Ask(h, r, <<u>>)

\* No cooldown: two clicks make two jobs.
RetryDM(h, r, u) == RetryAllowed(u) /\ Ask(h, r, <<u>>)

\* One job for every row that was failed when the list was read.
RetryFailedDms(h, r) ==
  /\ FailedUsers # {}
  /\ \E who \in [1..Cardinality(FailedUsers) -> FailedUsers] :
       /\ {who[k] : k \in DOMAIN who} = FailedUsers
       /\ Ask(h, r, who)

Done(h, i) ==
  IF rpc[h].left = {i} THEN NoRequest ELSE [rpc[h] EXCEPT !.left = @ \ {i}]

\* Never blocks: a full FIFO fails the DM at once, from the request's goroutine.
OneMoreFits(r) == Len(ch[r]) <= MaxDepth
HasRoom(r) == Len(ch[r]) < MaxDepth

OverflowIgnored(i) == UNCHANGED table
Overflow(i) == MarkAs(asks[i], "dm_queue_overflow")

Enqueue(h) ==
  LET r == rpc[h].at
  IN \E i \in rpc[h].left :
       /\ \A j \in rpc[h].left : i <= j
       /\ IF HasRoom(r)
          THEN ch' = [ch EXCEPT ![r] = Append(@, i)] /\ UNCHANGED table
          ELSE Overflow(i) /\ UNCHANGED ch
       /\ rpc' = [rpc EXCEPT ![h] = Done(h, i)]
       /\ UNCHANGED <<asks, delivered, skipped, phase, lost, worker, breaker, crashes>>

\* The request ends early: the approve audit row could not be written, the ADT URL
\* could not be resolved, the context was cancelled.
Skip(h) ==
  /\ rpc[h] # NoRequest
  /\ rpc' = [rpc EXCEPT ![h] = NoRequest]
  /\ skipped' = skipped \cup {asks[i] : i \in rpc[h].left}
  /\ UNCHANGED <<table, asks, delivered, phase, lost, ch, worker, breaker, crashes>>

-----------------------------------------------------------------------------
(* The worker: Run and process.                                            *)

StillOpen(r) == opened[r] # None /\ opened[r] < OpenDuration

\* checkCircuit closes a circuit that has been open long enough and forgets the window.
KeepsWindow(r) ==
  /\ opened' = [opened EXCEPT ![r] = None]
  /\ failures' = failures
CloseCircuit(r) ==
  /\ opened' = [opened EXCEPT ![r] = None]
  /\ failures' = [failures EXCEPT ![r] = <<>>]

WorkerRunsEarly(r) == phase[r] # "down"
WorkerRuns(r) == phase[r] = "draining"

Process(r, i) ==
  IF asks[i] \notin Reachable
  THEN worker' = [worker EXCEPT ![r] = [ask |-> i, mark |-> "missing_recipient"]]
       /\ UNCHANGED breaker
  ELSE IF StillOpen(r)
  THEN worker' = [worker EXCEPT ![r] = [ask |-> i, mark |-> "dm_circuit_open"]]
       /\ UNCHANGED breaker
  ELSE worker' = [worker EXCEPT ![r] = [ask |-> i, mark |-> "none"]]
       /\ IF opened[r] # None THEN CloseCircuit(r) ELSE UNCHANGED breaker

Take(r) ==
  /\ WorkerRuns(r)
  /\ worker[r] = NoJob
  /\ ch[r] # <<>>
  /\ ch' = [ch EXCEPT ![r] = Tail(@)]
  /\ Process(r, Head(ch[r]))
  /\ UNCHANGED <<table, requests, delivered, phase, lost, crashes>>

Sending(r) == worker[r] # NoJob /\ worker[r].mark = "none"

\* Discord answered.
Sent(r) ==
  /\ Sending(r)
  /\ delivered' = [delivered EXCEPT ![worker[r].ask] = @ + 1]
  /\ worker' = [worker EXCEPT ![r].mark = "sent"]
  /\ UNCHANGED <<table, requests, phase, lost, ch, breaker, crashes>>

\* An error or a timeout: the player may have the DM all the same.
AfterSendErrorRetrying(r) ==
  /\ worker' = [worker EXCEPT ![r] = NoJob]
  /\ ch' = [ch EXCEPT ![r] = Append(@, worker[r].ask)]
AfterSendError(r) ==
  /\ worker' = [worker EXCEPT ![r].mark = "discord_error"]
  /\ ch' = ch

SendError(r) ==
  /\ Sending(r)
  /\ \E n \in {0, 1} : delivered' = [delivered EXCEPT ![worker[r].ask] = @ + n]
  /\ AfterSendError(r)
  /\ UNCHANGED <<table, requests, phase, lost, breaker, crashes>>

\* recordFailure: prune, append, trip.  The oldest failures come first.
Stale(r) == {k \in DOMAIN failures[r] : failures[r][k] >= TripWindow}
Recent(r) == SubSeq(failures[r], Cardinality(Stale(r)) + 1, Len(failures[r]))
RecordFailure(r) ==
  /\ failures' = [failures EXCEPT ![r] = Append(Recent(r), 0)]
  /\ opened' = IF Len(Recent(r)) + 1 >= TripCount /\ opened[r] = None
               THEN [opened EXCEPT ![r] = 0] ELSE opened

\* markSent and markFailed; then a success forgets the window and a Discord error enters
\* it.  Short-circuited jobs leave it alone.
Mark(r) ==
  /\ worker[r] # NoJob /\ ~Sending(r)
  /\ MarkAs(asks[worker[r].ask], worker[r].mark)
  /\ CASE worker[r].mark = "sent" ->
            failures' = [failures EXCEPT ![r] = <<>>] /\ opened' = opened
       [] worker[r].mark = "discord_error" -> RecordFailure(r)
       [] OTHER -> UNCHANGED breaker
  /\ worker' = [worker EXCEPT ![r] = NoJob]
  /\ UNCHANGED <<requests, delivered, phase, lost, ch, crashes>>

\* Ages stop where nothing compares them any more.
Older(age, top) == IF age < top THEN age + 1 ELSE age
Tick ==
  /\ failures' = [r \in Replicas |->
       [k \in DOMAIN failures[r] |-> Older(failures[r][k], TripWindow)]]
  /\ opened' = [r \in Replicas |->
       IF opened[r] = None THEN None ELSE Older(opened[r], OpenDuration)]
  /\ UNCHANGED <<table, requests, delivered, phase, lost, ch, worker, crashes>>

-----------------------------------------------------------------------------
(* Boot and death of a replica.                                            *)

\* main.go starts the gRPC server, then the workers, then bootDMQueue.
Boot(r) ==
  /\ phase[r] = "down"
  /\ phase' = [phase EXCEPT ![r] = "booting"]
  /\ UNCHANGED <<table, requests, delivered, lost, ch, worker, breaker, crashes>>

\* ListLostDMOnRestart.  It also asks for 'pending', which nothing ever writes.
PendingRows == {u \in Approved : dm[u] = "pending"}
LostRows == {u \in Approved : dm[u] = "null"}

SweepList(r) ==
  /\ phase[r] = "booting"
  /\ phase' = [phase EXCEPT ![r] = "sweeping"]
  /\ lost' = [lost EXCEPT ![r] = LostRows]
  /\ UNCHANGED <<table, requests, delivered, ch, worker, breaker, crashes>>

\* The query fails: main.go logs a warning and starts the worker.
SweepFails(r) ==
  /\ phase[r] = "booting"
  /\ phase' = [phase EXCEPT ![r] = "draining"]
  /\ unwritten' = unwritten \cup LostRows
  /\ UNCHANGED <<dm, requests, delivered, lost, ch, worker, breaker, crashes>>

SweepMark(r) ==
  /\ \E u \in lost[r] :
       /\ MarkAs(u, "lost_on_restart")
       /\ lost' = [lost EXCEPT ![r] = @ \ {u}]
  /\ UNCHANGED <<requests, delivered, phase, ch, worker, breaker, crashes>>

StartWorker(r) ==
  /\ phase[r] = "sweeping"
  /\ lost[r] = {}
  /\ phase' = [phase EXCEPT ![r] = "draining"]
  /\ UNCHANGED <<table, requests, delivered, lost, ch, worker, breaker, crashes>>

Crash(r) ==
  /\ phase[r] # "down"
  /\ crashes < MaxCrashes
  /\ crashes' = crashes + 1
  /\ phase' = [phase EXCEPT ![r] = "down"]
  /\ lost' = [lost EXCEPT ![r] = {}]
  /\ ch' = [ch EXCEPT ![r] = <<>>]
  /\ worker' = [worker EXCEPT ![r] = NoJob]
  /\ failures' = [failures EXCEPT ![r] = <<>>]
  /\ opened' = [opened EXCEPT ![r] = None]
  /\ rpc' = [h \in Handlers |-> IF rpc[h].at = r THEN NoRequest ELSE rpc[h]]
  /\ UNCHANGED <<table, asks, skipped, delivered>>

-----------------------------------------------------------------------------
Drain(r) == Take(r) \/ Sent(r) \/ SendError(r) \/ Mark(r)
BootSequence(r) ==
  Boot(r) \/ SweepList(r) \/ SweepFails(r) \/ SweepMark(r) \/ StartWorker(r)

Next ==
  \/ \E h \in Handlers, r \in Replicas :
       \/ \E u \in Users : ApproveCommit(h, r, u) \/ RetryDM(h, r, u)
       \/ RetryFailedDms(h, r)
  \/ \E h \in Handlers : Enqueue(h) \/ Skip(h)
  \/ \E r \in Replicas : Drain(r) \/ BootSequence(r) \/ Crash(r)
  \/ Tick

Spec == Init /\ [][Next]_vars

\* Goroutines run on, and the platform restarts a dead replica.  Nothing makes an admin
\* click, a process die, time pass or a Discord call succeed.
Fairness ==
  /\ \A h \in Handlers : WF_vars(Enqueue(h))
  /\ \A r \in Replicas : WF_vars(Drain(r)) /\ WF_vars(BootSequence(r))
FairSpec == Spec /\ Fairness

-----------------------------------------------------------------------------
(* Properties                                                              *)

Reasons == {"dm_queue_overflow", "dm_circuit_open", "lost_on_restart",
            "missing_recipient", "discord_error"}

TypeOK ==
  /\ dm \in [Users -> {"null", "sent"} \cup Reasons]
  /\ asks \in Seq(Users) /\ Len(asks) <= MaxAsks
  /\ delivered \in [1..MaxAsks -> Nat]
  /\ unwritten \subseteq Users /\ skipped \subseteq Users
  /\ rpc \in [Handlers -> [at : Replicas \cup {None}, left : SUBSET Asks]]
  /\ phase \in [Replicas -> {"down", "booting", "sweeping", "draining"}]
  /\ lost \in [Replicas -> SUBSET Users]
  /\ ch \in [Replicas -> Seq(Asks)]
  /\ \A r \in Replicas : Len(ch[r]) <= MaxDepth
  /\ worker \in [Replicas -> [ask : Asks \cup {0},
                              mark : {"none", "sent"} \cup Reasons]]
  /\ failures \in [Replicas -> Seq(0..TripWindow)]
  /\ opened \in [Replicas -> 0..OpenDuration \cup {None}]
  /\ crashes \in 0..MaxCrashes

\* The breaker is open exactly while the failures that tripped it are remembered: it trips
\* at the threshold, not later, and a circuit that closes starts from an empty window.
BreakerMatchesWindow ==
  \A r \in Replicas : opened[r] # None <=> Len(failures[r]) >= TripCount

\* The row of a player who got the DM is not on the list of a boot sweep, which would mark
\* it lost_on_restart: requests are served before the sweep, but no worker runs.  The sweep
\* knows nothing of other replicas, so this holds of a single one.
SweepSparesTheSent ==
  (\A q, r \in Replicas : q = r) =>
    \A r \in Replicas : \A u \in lost[r] : dm[u] # "sent"

\* However often an admin clicks, a process dies or Discord times out after delivering, the
\* queue sends each DM that was asked for at most once; it has no retry of its own.  And
\* last_dm_status = 'sent' is never written for a player who got nothing, nor taken back by
\* the restart of the only replica.
SendsAreHonest ==
  /\ \A i \in 1..MaxAsks : delivered[i] <= 1
  /\ \A i \in Carried : delivered[i] = 1 =>
       \E r \in Replicas : worker[r].ask = i /\ ~Sending(r)
  /\ SweepSparesTheSent
  /\ \A u \in Users : dm[u] = "sent" => \E i \in Asks : asks[i] = u /\ delivered[i] > 0

\* An approved player whose row says nothing of a DM is never forgotten: a request, a queue
\* or a worker has the job, or a replica has its restart scan ahead of it, unless a database
\* error or an early end of the request took the job.
NobodyForgotten ==
  \A u \in Approved : dm[u] = "null" =>
    \/ Pending(u)
    \/ u \in unwritten \cup skipped
    \/ \E r \in Replicas : phase[r] \in {"down", "booting"} \/ u \in lost[r]

\* Every approval ends with a status an admin can see, sent or failed, across restarts.
EveryApprovalIsReported ==
  \A u \in Users :
    u \in Approved ~> dm[u] # "null" \/ u \in unwritten \cup skipped

=============================================================================
