-------------------------- MODULE PlaytestLifecycle --------------------------
(***************************************************************************)
(* What the status of playtests promises, with no replicas, leases, sweeps *)
(* or admins: it goes from DRAFT to OPEN to CLOSED one step at a time, not *)
(* once the playtest is deleted, and a transition is logged once at most.  *)
(***************************************************************************)
EXTENDS Naturals

CONSTANT Playtests

VARIABLES
  status,   \* per playtest
  deleted,  \* per playtest
  logged    \* playtest.status_transition rows per playtest and old status

lifecycleVars == <<status, deleted, logged>>

LifecycleInit ==
  /\ status = [p \in Playtests |-> "DRAFT"]
  /\ deleted = [p \in Playtests |-> FALSE]
  /\ logged = [p \in Playtests |-> [s \in {"DRAFT", "OPEN"} |-> 0]]

After(s) == IF s = "DRAFT" THEN "OPEN" ELSE "CLOSED"

Move(p) ==
  /\ ~deleted[p] /\ status[p] # "CLOSED"
  /\ status' = [status EXCEPT ![p] = After(@)]
  /\ UNCHANGED <<deleted, logged>>

Log(p, s) ==
  /\ status[p] \in {After(s), "CLOSED"} /\ logged[p][s] = 0
  /\ logged' = [logged EXCEPT ![p][s] = 1]
  /\ UNCHANGED <<status, deleted>>

Delete(p) ==
  /\ ~deleted[p]
  /\ deleted' = [deleted EXCEPT ![p] = TRUE]
  /\ UNCHANGED <<status, logged>>

LifecycleNext ==
  \E p \in Playtests :
    Move(p) \/ Delete(p) \/ \E s \in {"DRAFT", "OPEN"} : Log(p, s)

LifecycleSpec == LifecycleInit /\ [][LifecycleNext]_lifecycleVars
=============================================================================
