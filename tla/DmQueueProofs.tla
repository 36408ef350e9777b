---------------------------- MODULE DmQueueProofs ----------------------------
(***************************************************************************)
(* Theorems about DmQueue, for any number of applicants, replicas and      *)
(* requests, any capacity and breaker settings, and any number of deaths.  *)
(***************************************************************************)
EXTENDS DmQueue, FiniteSetTheorems, SequenceTheorems, TLAPS

-----------------------------------------------------------------------------
(* The inductive invariant.                                                *)

RequestType == [at : Replicas \cup {None}, left : SUBSET Asks]
JobType == [ask : Asks \cup {0}, mark : {"none", "sent"} \cup Reasons]

\* A request with something left runs on a replica, and a worker without an ask has no job.
Shapes ==
  /\ \A h \in Handlers : rpc[h].left # {} => rpc[h].at \in Replicas
  /\ \A r \in Replicas : worker[r].ask = 0 => worker[r] = NoJob

\* An ask is in one place: with one request, in one slot of one queue, or with one worker.
OnePlace ==
  /\ \A g, h \in Handlers : \A i \in Asks : i \in rpc[g].left /\ i \in rpc[h].left => g = h
  /\ \A h \in Handlers, r \in Replicas : worker[r].ask \notin rpc[h].left
  /\ \A h \in Handlers, r \in Replicas : \A k \in DOMAIN ch[r] : ch[r][k] \notin rpc[h].left
  /\ \A q, r \in Replicas : \A j \in DOMAIN ch[q], k \in DOMAIN ch[r] :
       ch[q][j] = ch[r][k] => q = r /\ j = k
  /\ \A q, r \in Replicas : \A k \in DOMAIN ch[r] : ch[r][k] # worker[q].ask
  /\ \A q, r \in Replicas : worker[q].ask = worker[r].ask /\ worker[r].ask # 0 => q = r

\* Nothing was delivered for an ask before a worker has sent it.
Unsent ==
  /\ \A i \in 1..MaxAsks : delivered[i] <= 1 /\ (i \notin Asks => delivered[i] = 0)
  /\ \A h \in Handlers : \A i \in rpc[h].left : delivered[i] = 0
  /\ \A r \in Replicas : \A k \in DOMAIN ch[r] : delivered[ch[r][k]] = 0
  /\ \A r \in Replicas : Sending(r) => delivered[worker[r].ask] = 0

\* Whatever says "sent" was.
SentIsTrue ==
  /\ \A r \in Replicas : worker[r].mark = "sent" => delivered[worker[r].ask] = 1
  /\ \A u \in Users : dm[u] = "sent" => \E i \in Asks : asks[i] = u /\ delivered[i] > 0

\* A worker only talks to Discord while the circuit is closed.
ClosedWhileSending ==
  \A r \in Replicas : worker[r] # NoJob /\ worker[r].mark \in {"none", "sent", "discord_error"}
                        => opened[r] = None

IInv ==
  /\ TypeOK
  /\ Shapes /\ OnePlace /\ Unsent /\ SentIsTrue
  /\ ClosedWhileSending /\ BreakerMatchesWindow
  /\ NobodyForgotten

-----------------------------------------------------------------------------
LEMMA BoundsFacts ==
  /\ MaxAsks \in Nat /\ MaxCrashes \in Nat
  /\ MaxDepth \in Nat \ {0} /\ TripCount \in Nat \ {0}
  /\ TripWindow \in Nat \ {0} /\ OpenDuration \in Nat \ {0}
  /\ None \notin Replicas /\ None \notin Nat
  /\ Reachable \subseteq Users /\ IsFiniteSet(Users)
  BY BoundsAreNat, NoneIsNothing, ReachableAreUsers

LEMMA CarriedMeans ==
  ASSUME NEW i
  PROVE  i \in Carried <=> \/ \E h \in Handlers : i \in rpc[h].left
                           \/ \E r \in Replicas : \E k \in DOMAIN ch[r] : i = ch[r][k]
                           \/ \E r \in Replicas : worker[r] # NoJob /\ i = worker[r].ask
<1> DEFINE A == UNION {rpc[h].left : h \in Handlers}
           Q == {{ch[r][k] : k \in DOMAIN ch[r]} : r \in Replicas}
           W == {worker[r].ask : r \in {s \in Replicas : worker[s] # NoJob}}
<1>1. i \in A <=> \E h \in Handlers : i \in rpc[h].left
  OBVIOUS
<1>2. i \in (UNION Q) <=> \E r \in Replicas : \E k \in DOMAIN ch[r] : i = ch[r][k]
  OBVIOUS
<1>3. i \in W <=> \E r \in Replicas : worker[r] # NoJob /\ i = worker[r].ask
  OBVIOUS
<1>4. Carried = A \cup (UNION Q) \cup W
  BY DEF Carried
<1> QED
  BY <1>1, <1>2, <1>3, <1>4

LEMMA CarriedMeansNext ==
  ASSUME NEW i
  PROVE  i \in Carried' <=> \/ \E h \in Handlers : i \in rpc'[h].left
                            \/ \E r \in Replicas : \E k \in DOMAIN ch'[r] : i = ch'[r][k]
                            \/ \E r \in Replicas : worker'[r] # NoJob /\ i = worker'[r].ask
<1> DEFINE A == UNION {rpc'[h].left : h \in Handlers}
           Q == {{ch'[r][k] : k \in DOMAIN ch'[r]} : r \in Replicas}
           W == {worker'[r].ask : r \in {s \in Replicas : worker'[s] # NoJob}}
<1>1. i \in A <=> \E h \in Handlers : i \in rpc'[h].left
  OBVIOUS
<1>2. i \in (UNION Q) <=> \E r \in Replicas : \E k \in DOMAIN ch'[r] : i = ch'[r][k]
  OBVIOUS
<1>3. i \in W <=> \E r \in Replicas : worker'[r] # NoJob /\ i = worker'[r].ask
  OBVIOUS
<1>4. Carried' = A \cup (UNION Q) \cup W
  BY DEF Carried
<1> QED
  BY <1>1, <1>2, <1>3, <1>4

LEMMA InitIInv == Init => IInv
<1> SUFFICES ASSUME Init PROVE IInv
  OBVIOUS
<1> USE BoundsFacts
<1>0. asks = <<>> /\ Len(asks) = 0 /\ Asks = {}
  BY EmptySeq DEF Init, Asks
<1>1. TypeOK
  <2>1. asks \in Seq(Users) /\ Len(asks) <= MaxAsks
    BY <1>0, EmptySeq
  <2>2. \A r \in Replicas : ch[r] = <<>> /\ failures[r] = <<>>
    BY DEF Init
  <2>3. ch \in [Replicas -> Seq(Asks)] /\ failures \in [Replicas -> Seq(0..TripWindow)]
    BY <2>2, EmptySeq DEF Init
  <2>4. \A r \in Replicas : Len(ch[r]) <= MaxDepth
    BY <2>2, EmptySeq
  <2>5. /\ rpc \in [Handlers -> [at : Replicas \cup {None}, left : SUBSET Asks]]
        /\ worker \in [Replicas -> [ask : Asks \cup {0}, mark : {"none", "sent"} \cup Reasons]]
    BY DEF Init, NoRequest, NoJob
  <2>6. /\ dm \in [Users -> {"null", "sent"} \cup Reasons]
        /\ delivered \in [1..MaxAsks -> Nat]
        /\ unwritten \subseteq Users /\ skipped \subseteq Users
        /\ phase \in [Replicas -> {"down", "booting", "sweeping", "draining"}]
        /\ lost \in [Replicas -> SUBSET Users]
        /\ opened \in [Replicas -> 0..OpenDuration \cup {None}]
        /\ crashes \in 0..MaxCrashes
    BY DEF Init
  <2> QED
    BY <2>1, <2>3, <2>4, <2>5, <2>6 DEF TypeOK
<1>2. \A r \in Replicas : DOMAIN ch[r] = {} /\ worker[r] = NoJob
  BY EmptySeq DEF Init
<1>3. Shapes /\ OnePlace /\ Unsent /\ SentIsTrue
  BY <1>0, <1>2 DEF Init, Shapes, OnePlace, Unsent, SentIsTrue, NoJob, NoRequest, Sending
<1>4. ClosedWhileSending /\ BreakerMatchesWindow
  <2>1. \A r \in Replicas : opened[r] = None /\ Len(failures[r]) = 0
    BY EmptySeq DEF Init
  <2> QED
    BY <1>2, <2>1 DEF ClosedWhileSending, BreakerMatchesWindow
<1>5. NobodyForgotten
  BY <1>0 DEF NobodyForgotten, Approved
<1> QED
  BY <1>1, <1>3, <1>4, <1>5 DEF IInv

-----------------------------------------------------------------------------
(* What a step keeps.                                                      *)

\* No ask changes its place.
LEMMA PlacesKept ==
  ASSUME IInv, UNCHANGED <<asks, delivered, rpc, ch, worker>>
  PROVE  /\ Asks' = Asks /\ Approved' = Approved /\ Carried' = Carried
         /\ Shapes' /\ OnePlace' /\ Unsent'
<1>1. Asks' = Asks
  BY DEF Asks
<1>2. Approved' = Approved /\ Carried' = Carried
  BY <1>1 DEF Approved, Carried
<1>3. Shapes'
  BY DEF IInv, Shapes
<1>4. OnePlace'
  BY <1>1 DEF IInv, OnePlace
<1>5. Unsent'
  BY <1>1 DEF IInv, Unsent, Sending
<1> QED
  BY <1>1, <1>2, <1>3, <1>4, <1>5

LEMMA BreakerKept ==
  ASSUME IInv, UNCHANGED breaker,
         \A r \in Replicas : worker'[r] # worker[r] =>
           \/ worker'[r] = NoJob
           \/ worker[r] # NoJob /\ worker[r].mark \in {"none", "sent", "discord_error"}
  PROVE  ClosedWhileSending' /\ BreakerMatchesWindow'
<1>1. ClosedWhileSending'
  BY DEF IInv, ClosedWhileSending, breaker
<1>2. BreakerMatchesWindow'
  BY DEF IInv, BreakerMatchesWindow, breaker
<1> QED
  BY <1>1, <1>2

\* Nobody drops out of NobodyForgotten whose job or whose scan ends with a word about them.
LEMMA RememberedKept ==
  ASSUME IInv, asks' = asks,
         unwritten \subseteq unwritten', skipped \subseteq skipped',
         \A u \in Users : dm'[u] = "null" => dm[u] = "null",
         \A i \in Carried : \/ i \in Carried' \/ dm'[asks[i]] # "null"
                            \/ asks[i] \in unwritten' \cup skipped'
                            \/ \E r \in Replicas : phase'[r] = "down",
         \A r \in Replicas : phase[r] \in {"down", "booting"} =>
           \/ \E q \in Replicas : phase'[q] \in {"down", "booting"}
           \/ \A u \in LostRows : u \in lost'[r] \cup unwritten',
         \A r \in Replicas : \A u \in lost[r] :
           \/ u \in lost'[r] \cup unwritten' \/ dm'[u] # "null"
           \/ \E q \in Replicas : phase'[q] = "down"
  PROVE  NobodyForgotten'
<1> SUFFICES ASSUME NEW u \in Approved', dm'[u] = "null",
                    u \notin unwritten' \cup skipped',
                    \A q \in Replicas : phase'[q] \notin {"down", "booting"}
             PROVE  Pending(u)' \/ \E r \in Replicas : u \in lost'[r]
  BY DEF NobodyForgotten
<1>1. u \in Approved /\ u \in Users
  BY LenProperties DEF Approved, Asks, IInv, TypeOK
<1>2. dm[u] = "null" /\ u \notin unwritten \cup skipped /\ u \in LostRows
  BY <1>1 DEF LostRows
<1>3. CASE Pending(u)
  <2>1. PICK i \in Carried : asks[i] = u
    BY <1>3 DEF Pending
  <2>2. i \in Carried'
    BY <2>1
  <2> QED
    BY <2>1, <2>2 DEF Pending
<1>4. CASE \E r \in Replicas : phase[r] \in {"down", "booting"}
  BY <1>2, <1>4
<1>5. CASE \E r \in Replicas : u \in lost[r]
  BY <1>5
<1> QED
  BY <1>1, <1>2, <1>3, <1>4, <1>5 DEF IInv, NobodyForgotten

-----------------------------------------------------------------------------
(* Time and the boot sequence.                                             *)

LEMMA TickStep == ASSUME IInv, Tick PROVE IInv'
<1> USE BoundsFacts
<1>1. UNCHANGED <<table, requests, delivered, phase, lost, ch, worker, crashes>>
  BY DEF Tick
<1>2. /\ Asks' = Asks /\ Approved' = Approved /\ Carried' = Carried
      /\ Shapes' /\ OnePlace' /\ Unsent'
  BY <1>1, PlacesKept DEF requests
<1>3. ASSUME NEW r \in Replicas
      PROVE  failures'[r] \in Seq(0..TripWindow) /\ Len(failures'[r]) = Len(failures[r])
  <2>1. failures[r] \in Seq(0..TripWindow)
    BY DEF IInv, TypeOK
  <2>2. /\ DOMAIN failures[r] = 1..Len(failures[r]) /\ Len(failures[r]) \in Nat
        /\ \A k \in DOMAIN failures[r] : failures[r][k] \in 0..TripWindow
    BY <2>1, LenProperties
  <2>3. failures'[r] = [k \in 1..Len(failures[r]) |-> Older(failures[r][k], TripWindow)]
    BY <2>2 DEF Tick
  <2>4. \A k \in 1..Len(failures[r]) : Older(failures[r][k], TripWindow) \in 0..TripWindow
    BY <2>2 DEF Older
  <2>5. failures'[r] \in [1..Len(failures[r]) -> 0..TripWindow]
    BY <2>3, <2>4
  <2> QED
    BY <2>2, <2>5
<1>4. ASSUME NEW r \in Replicas
      PROVE  opened'[r] \in 0..OpenDuration \cup {None} /\ (opened'[r] = None <=> opened[r] = None)
  <2>1. opened[r] \in 0..OpenDuration \cup {None}
    BY DEF IInv, TypeOK
  <2>2. opened'[r] = IF opened[r] = None THEN None ELSE Older(opened[r], OpenDuration)
    BY DEF Tick
  <2> QED
    BY <2>1, <2>2 DEF Older
<1>5. TypeOK'
  <2>1. failures' \in [Replicas -> Seq(0..TripWindow)] /\ opened' \in [Replicas -> 0..OpenDuration \cup {None}]
    BY <1>3, <1>4 DEF Tick
  <2> QED
    BY <1>1, <1>2, <2>1 DEF IInv, TypeOK, table, requests
<1>6. SentIsTrue'
  BY <1>1, <1>2 DEF IInv, SentIsTrue, table, requests
<1>7. ClosedWhileSending' /\ BreakerMatchesWindow'
  <2>1. ClosedWhileSending'
    BY <1>1, <1>4 DEF IInv, ClosedWhileSending
  <2>2. BreakerMatchesWindow'
    BY <1>3, <1>4 DEF IInv, BreakerMatchesWindow
  <2> QED
    BY <2>1, <2>2
<1>8. NobodyForgotten'
  BY <1>1, <1>2, RememberedKept DEF table, requests
<1> QED
  BY <1>2, <1>5, <1>6, <1>7, <1>8 DEF IInv

LEMMA MarkAsTyped ==
  ASSUME IInv, NEW u \in Users, NEW m \in {"sent"} \cup Reasons, MarkAs(u, m)
  PROVE  /\ dm' \in [Users -> {"null", "sent"} \cup Reasons] /\ unwritten' \subseteq Users
         /\ unwritten \subseteq unwritten'
         /\ \A v \in Users : dm'[v] = "null" => dm[v] = "null"
         /\ \A v \in Users : dm'[v] # dm[v] => v = u /\ dm'[v] = m
         /\ u \in unwritten' \/ dm'[u] # "null"
<1>1. dm \in [Users -> {"null", "sent"} \cup Reasons] /\ unwritten \subseteq Users
  BY DEF IInv, TypeOK
<1>2. m # "null"
  BY DEF Reasons
<1>3. CASE dm' = [dm EXCEPT ![u] = m] /\ unwritten' = unwritten
  BY <1>1, <1>2, <1>3
<1>4. CASE dm' = dm /\ unwritten' = unwritten \cup {u}
  BY <1>1, <1>4
<1> QED
  BY <1>3, <1>4 DEF MarkAs

\* The steps of a boot touch neither asks nor workers.
LEMMA BootSequenceStep == ASSUME IInv, NEW r \in Replicas, BootSequence(r) PROVE IInv'
<1>1. UNCHANGED <<requests, delivered, ch, worker, breaker, crashes>>
  BY DEF BootSequence, Boot, SweepList, SweepFails, SweepMark, StartWorker
<1>2. /\ Asks' = Asks /\ Approved' = Approved /\ Carried' = Carried
      /\ Shapes' /\ OnePlace' /\ Unsent'
  BY <1>1, PlacesKept DEF requests
<1>3. ClosedWhileSending' /\ BreakerMatchesWindow'
  BY <1>1, BreakerKept
<1>4. /\ dm \in [Users -> {"null", "sent"} \cup Reasons] /\ unwritten \subseteq Users
      /\ phase \in [Replicas -> {"down", "booting", "sweeping", "draining"}]
      /\ lost \in [Replicas -> SUBSET Users]
  BY DEF IInv, TypeOK
<1>5. LostRows \subseteq Users /\ Approved \subseteq Users
  BY LenProperties DEF LostRows, Approved, Asks, IInv, TypeOK
<1> DEFINE Goal == /\ dm' \in [Users -> {"null", "sent"} \cup Reasons]
                   /\ unwritten' \subseteq Users
                   /\ phase' \in [Replicas -> {"down", "booting", "sweeping", "draining"}]
                   /\ lost' \in [Replicas -> SUBSET Users]
                   /\ \A v \in Users : dm'[v] = "sent" => dm[v] = "sent"
                   /\ NobodyForgotten'
<1>6. ASSUME Boot(r) PROVE Goal
  <2>1. UNCHANGED <<table, lost>> /\ phase' = [phase EXCEPT ![r] = "booting"]
    BY <1>6 DEF Boot
  <2>2. NobodyForgotten'
    BY <1>1, <1>2, <1>4, <2>1, RememberedKept DEF table, requests
  <2> QED
    BY <1>4, <2>1, <2>2 DEF table
<1>7. ASSUME SweepList(r) PROVE Goal
  <2>1. /\ UNCHANGED table /\ phase[r] = "booting" /\ phase' = [phase EXCEPT ![r] = "sweeping"]
        /\ lost' = [lost EXCEPT ![r] = LostRows]
    BY <1>7 DEF SweepList
  <2>2. \A q \in Replicas : \A u \in lost[q] : u \in lost'[q] \/ dm'[u] # "null" \/ q = r
    BY <1>4, <2>1
  <2>3. Goal
    <3> SUFFICES NobodyForgotten'
      BY <1>4, <1>5, <2>1 DEF table
    <3> SUFFICES ASSUME NEW u \in Approved, dm[u] = "null", u \notin unwritten \cup skipped,
                        ~Pending(u), \A q \in Replicas : phase'[q] \notin {"down", "booting"}
                 PROVE  \E q \in Replicas : u \in lost'[q]
      BY <1>1, <1>2, <2>1 DEF NobodyForgotten, table, requests, Pending
    <3>1. u \in LostRows
      BY DEF LostRows
    <3> QED
      BY <1>4, <2>1, <3>1
  <2> QED
    BY <2>3
<1>8. ASSUME SweepFails(r) PROVE Goal
  <2>1. /\ UNCHANGED <<dm, lost>> /\ phase' = [phase EXCEPT ![r] = "draining"]
        /\ unwritten' = unwritten \cup LostRows
    BY <1>8 DEF SweepFails
  <2>2. NobodyForgotten'
    BY <1>1, <1>2, <1>4, <2>1, RememberedKept DEF requests
  <2> QED
    BY <1>4, <1>5, <2>1, <2>2
<1>9. ASSUME SweepMark(r) PROVE Goal
  <2>1. PICK u \in lost[r] : MarkAs(u, "lost_on_restart") /\ lost' = [lost EXCEPT ![r] = @ \ {u}]
    BY <1>9 DEF SweepMark
  <2>2. UNCHANGED phase
    BY <1>9 DEF SweepMark
  <2>3. u \in Users /\ "lost_on_restart" \in Reasons
    BY <1>4 DEF Reasons
  <2>4. /\ dm' \in [Users -> {"null", "sent"} \cup Reasons] /\ unwritten' \subseteq Users
        /\ unwritten \subseteq unwritten'
        /\ \A v \in Users : dm'[v] = "null" => dm[v] = "null"
        /\ \A v \in Users : dm'[v] # dm[v] => v = u /\ dm'[v] = "lost_on_restart"
        /\ u \in unwritten' \/ dm'[u] # "null"
    BY <2>1, <2>3, MarkAsTyped
  <2>5. NobodyForgotten'
    <3>1. \A q \in Replicas : \A v \in lost[q] : v \in lost'[q] \cup unwritten' \/ dm'[v] # "null"
      BY <1>4, <2>1, <2>4
    <3> QED
      BY <1>1, <1>2, <2>2, <2>4, <3>1, RememberedKept DEF requests
  <2> QED
    BY <1>4, <2>1, <2>2, <2>4, <2>5
<1>10. ASSUME StartWorker(r) PROVE Goal
  <2>1. /\ UNCHANGED <<table, lost>> /\ phase[r] = "sweeping"
        /\ phase' = [phase EXCEPT ![r] = "draining"]
    BY <1>10 DEF StartWorker
  <2>2. NobodyForgotten'
    BY <1>1, <1>2, <1>4, <2>1, RememberedKept DEF table, requests
  <2> QED
    BY <1>4, <2>1, <2>2 DEF table
<1>11. Goal
  BY <1>6, <1>7, <1>8, <1>9, <1>10 DEF BootSequence
<1>12. TypeOK'
  BY <1>1, <1>2, <1>11 DEF IInv, TypeOK, requests, breaker
<1>13. SentIsTrue'
  BY <1>1, <1>2, <1>11 DEF IInv, SentIsTrue, requests
<1> QED
  BY <1>2, <1>3, <1>11, <1>12, <1>13 DEF IInv

-----------------------------------------------------------------------------
(* Requests.                                                               *)

LEMMA QueueFacts ==
  ASSUME IInv, NEW r \in Replicas
  PROVE  /\ ch[r] \in Seq(Asks) /\ Len(ch[r]) \in 0..MaxDepth
         /\ DOMAIN ch[r] = 1..Len(ch[r])
         /\ \A k \in DOMAIN ch[r] : ch[r][k] \in Asks
<1>1. ch[r] \in Seq(Asks) /\ Len(ch[r]) <= MaxDepth
  BY DEF IInv, TypeOK
<1> QED
  BY <1>1, LenProperties, ElementOfSeq, BoundsFacts

LEMMA AskFacts ==
  ASSUME IInv
  PROVE  /\ Len(asks) \in Nat /\ Asks \subseteq 1..MaxAsks /\ 0 \notin Asks
         /\ Asks = 1..Len(asks) /\ DOMAIN asks = Asks /\ \A i \in Asks : asks[i] \in Users
         /\ Carried \subseteq Asks
<1>1. asks \in Seq(Users) /\ Len(asks) <= MaxAsks
  BY DEF IInv, TypeOK
<1>2. Len(asks) \in Nat /\ DOMAIN asks = 1..Len(asks) /\ \A i \in 1..Len(asks) : asks[i] \in Users
  BY <1>1, LenProperties
<1>3. ASSUME NEW i \in Carried PROVE i \in Asks
  <2>1. CASE \E h \in Handlers : i \in rpc[h].left
    BY <2>1 DEF IInv, TypeOK
  <2>2. CASE \E r \in Replicas : \E k \in DOMAIN ch[r] : i = ch[r][k]
    BY <2>2, QueueFacts
  <2>3. CASE \E r \in Replicas : worker[r] # NoJob /\ i = worker[r].ask
    BY <2>3 DEF IInv, TypeOK, Shapes
  <2> QED
    BY <2>1, <2>2, <2>3, CarriedMeans
<1> QED
  BY <1>1, <1>2, <1>3, BoundsFacts DEF Asks

LEMMA AskStep ==
  ASSUME IInv, NEW h \in Handlers, NEW r \in Replicas,
         NEW who \in Seq(Users), Len(who) > 0, Ask(h, r, who)
  PROVE  IInv'
<1> DEFINE New == Len(asks) + 1 .. Len(asks) + Len(who)
<1> USE BoundsFacts
<1>1. /\ rpc[h] = NoRequest /\ asks' = asks \o who /\ Len(asks) + Len(who) <= MaxAsks
      /\ rpc' = [rpc EXCEPT ![h] = [at |-> r, left |-> New]]
      /\ UNCHANGED <<table, delivered, skipped, phase, lost, ch, worker, breaker, crashes>>
  BY DEF Ask
<1>2. /\ Len(asks) \in Nat /\ Len(who) \in Nat /\ asks' \in Seq(Users)
      /\ Len(asks') = Len(asks) + Len(who)
      /\ \A i \in Asks : asks'[i] = asks[i]
  <2>1. asks \in Seq(Users)
    BY DEF IInv, TypeOK
  <2>2. Len(asks) \in Nat /\ Len(who) \in Nat
    BY <2>1, LenProperties
  <2> QED
    BY <1>1, <2>1, <2>2, ConcatProperties DEF Asks
<1>3. /\ Asks' = Asks \cup New /\ Asks \cap New = {} /\ New \subseteq 1..MaxAsks
      /\ 0 \notin New /\ New # {}
  BY <1>1, <1>2 DEF Asks
<1> HIDE DEF New
<1>4. rpc \in [Handlers -> RequestType] /\ worker \in [Replicas -> JobType]
  BY DEF IInv, TypeOK, RequestType, JobType
<1>5. /\ rpc'[h].left = New /\ rpc'[h].at = r /\ rpc[h].left = {}
      /\ \A g \in Handlers \ {h} : rpc'[g] = rpc[g]
  BY <1>1, <1>4 DEF NoRequest
<1>6. /\ \A g \in Handlers : rpc[g].left \subseteq Asks
      /\ \A q \in Replicas : worker[q].ask \in Asks \cup {0}
      /\ \A q \in Replicas : \A k \in DOMAIN ch[q] : ch[q][k] \in Asks
  BY <1>4, QueueFacts DEF RequestType, JobType
<1>7. UNCHANGED <<ch, worker, delivered, dm, unwritten, skipped, phase, lost>>
  BY <1>1 DEF table
<1>8. TypeOK'
  <2>1. rpc' \in [Handlers -> [at : Replicas \cup {None}, left : SUBSET Asks']]
    BY <1>1, <1>3, <1>4 DEF RequestType
  <2>2. worker' \in [Replicas -> [ask : Asks' \cup {0}, mark : {"none", "sent"} \cup Reasons]]
    BY <1>3, <1>4, <1>7 DEF JobType
  <2>3. ch' \in [Replicas -> Seq(Asks')]
    <3>1. ch \in [Replicas -> Seq(Asks)]
      BY DEF IInv, TypeOK
    <3>2. \A q \in Replicas : ch[q] \in Seq(Asks')
      BY <1>3, <3>1, SeqMonotonic
    <3> QED
      BY <1>7, <3>1, <3>2
  <2> QED
    BY <1>1, <1>2, <1>7, <2>1, <2>2, <2>3 DEF IInv, TypeOK, breaker
<1>9. Shapes'
  BY <1>5, <1>7 DEF IInv, Shapes
<1>10. OnePlace'
  <2>1. \A f, g \in Handlers : \A i \in Asks' : i \in rpc'[f].left /\ i \in rpc'[g].left => f = g
    BY <1>3, <1>5, <1>6 DEF IInv, OnePlace
  <2>2. \A g \in Handlers, q \in Replicas : worker[q].ask \notin rpc'[g].left
    BY <1>3, <1>5, <1>6 DEF IInv, OnePlace
  <2>3. \A g \in Handlers, q \in Replicas : \A k \in DOMAIN ch[q] : ch[q][k] \notin rpc'[g].left
    BY <1>3, <1>5, <1>6 DEF IInv, OnePlace
  <2> QED
    BY <1>7, <2>1, <2>2, <2>3 DEF IInv, OnePlace
<1>11. Unsent'
  BY <1>3, <1>5, <1>7 DEF IInv, Unsent, Sending
<1>12. SentIsTrue'
  BY <1>2, <1>3, <1>7 DEF IInv, SentIsTrue
<1>13. ClosedWhileSending' /\ BreakerMatchesWindow'
  BY <1>1, BreakerKept
<1>14. NobodyForgotten'
  <2> SUFFICES ASSUME NEW u \in Approved', dm[u] = "null", u \notin unwritten \cup skipped,
                      ~\E q \in Replicas : phase[q] \in {"down", "booting"} \/ u \in lost[q]
               PROVE  Pending(u)'
    BY <1>7 DEF NobodyForgotten
  <2>1. PICK i \in Asks' : asks'[i] = u
    BY DEF Approved
  <2>2. CASE i \in New
    BY <1>5, <2>1, <2>2, CarriedMeansNext DEF Pending
  <2>3. CASE i \in Asks
    <3>1. u \in Approved
      BY <1>2, <2>1, <2>3 DEF Approved
    <3>2. PICK j \in Carried : asks[j] = u
      BY <3>1 DEF IInv, NobodyForgotten, Pending
    <3>3. j \in Asks /\ asks'[j] = u
      BY <1>2, <3>2, AskFacts
    <3>4. j \in Carried'
      BY <1>5, <1>7, <3>2, CarriedMeans, CarriedMeansNext
    <3> QED
      BY <3>3, <3>4 DEF Pending
  <2> QED
    BY <1>3, <2>2, <2>3
<1> QED
  BY <1>8, <1>9, <1>10, <1>11, <1>12, <1>13, <1>14 DEF IInv

LEMMA ApproveCommitStep ==
  ASSUME IInv, NEW h \in Handlers, NEW r \in Replicas, NEW u \in Users,
         ApproveCommit(h, r, u) \/ RetryDM(h, r, u)
  PROVE  IInv'
<1>1. <<u>> \in Seq(Users) /\ Len(<<u>>) > 0
  OBVIOUS
<1>2. Ask(h, r, <<u>>)
  BY DEF ApproveCommit, RetryDM
<1> QED
  BY <1>1, <1>2, AskStep

LEMMA RetryFailedDmsStep ==
  ASSUME IInv, NEW h \in Handlers, NEW r \in Replicas, RetryFailedDms(h, r)
  PROVE  IInv'
<1>1. FailedUsers # {} /\ FailedUsers \subseteq Users
  BY DEF RetryFailedDms, FailedUsers
<1>2. Cardinality(FailedUsers) \in Nat \ {0}
  <2>1. IsFiniteSet(FailedUsers)
    BY <1>1, BoundsFacts, FS_Subset
  <2> QED
    BY <1>1, <2>1, FS_CardinalityType, FS_EmptySet
<1>3. PICK who \in [1..Cardinality(FailedUsers) -> FailedUsers] : Ask(h, r, who)
  BY DEF RetryFailedDms
<1>4. who \in Seq(Users) /\ Len(who) > 0
  BY <1>1, <1>2
<1> QED
  BY <1>3, <1>4, AskStep

\* What a request hands over is put into the queue, or its player is told on at once.
LEMMA EnqueueStep == ASSUME IInv, NEW h \in Handlers, Enqueue(h) PROVE IInv'
<1> DEFINE r == rpc[h].at
<1>1. PICK i \in rpc[h].left :
        /\ IF HasRoom(r)
           THEN ch' = [ch EXCEPT ![r] = Append(@, i)] /\ UNCHANGED table
           ELSE Overflow(i) /\ UNCHANGED ch
        /\ rpc' = [rpc EXCEPT ![h] = Done(h, i)]
        /\ UNCHANGED <<asks, delivered, skipped, phase, lost, worker, breaker, crashes>>
  BY DEF Enqueue
<1>2. rpc \in [Handlers -> RequestType] /\ worker \in [Replicas -> JobType]
  BY DEF IInv, TypeOK, RequestType, JobType
<1>3. r \in Replicas /\ i \in Asks /\ asks[i] \in Users
  BY <1>2, AskFacts DEF IInv, Shapes, RequestType
<1>4. /\ rpc' \in [Handlers -> RequestType] /\ rpc'[h].left = rpc[h].left \ {i}
      /\ \A g \in Handlers : rpc'[g].left \subseteq rpc[g].left
      /\ \A g \in Handlers \ {h} : rpc'[g] = rpc[g]
      /\ rpc'[h].left # {} => rpc'[h].at = r
  <2>1. Done(h, i) \in RequestType /\ Done(h, i).left = rpc[h].left \ {i}
        /\ (Done(h, i).left # {} => Done(h, i).at = r)
    BY <1>2 DEF Done, NoRequest, RequestType
  <2> QED
    BY <1>1, <1>2, <2>1
<1>5. Asks' = Asks /\ Approved' = Approved
  BY <1>1 DEF Asks, Approved
<1>6. Shapes'
  BY <1>1, <1>3, <1>4 DEF IInv, Shapes
<1>7. ClosedWhileSending' /\ BreakerMatchesWindow'
  BY <1>1, BreakerKept
<1>8. CASE HasRoom(r)
  <2>1. ch' = [ch EXCEPT ![r] = Append(@, i)] /\ UNCHANGED table
    BY <1>1, <1>8
  <2>2. ch[r] \in Seq(Asks) /\ Len(ch[r]) \in Nat /\ Len(ch[r]) < MaxDepth
    BY <1>3, <1>8, QueueFacts DEF HasRoom
  <2>3. ch \in [Replicas -> Seq(Asks)]
    BY DEF IInv, TypeOK
  <2>4. /\ ch'[r] \in Seq(Asks) /\ Len(ch'[r]) = Len(ch[r]) + 1
        /\ DOMAIN ch[r] = 1..Len(ch[r]) /\ DOMAIN ch'[r] = 1..Len(ch[r]) + 1
        /\ ch'[r][Len(ch[r]) + 1] = i /\ \A k \in DOMAIN ch[r] : ch'[r][k] = ch[r][k]
        /\ \A q \in Replicas \ {r} : ch'[q] = ch[q]
    BY <1>3, <2>1, <2>2, <2>3, LenProperties
  <2>5. \A q \in Replicas : \A k \in DOMAIN ch'[q] :
          \/ k \in DOMAIN ch[q] /\ ch'[q][k] = ch[q][k]
          \/ q = r /\ k = Len(ch[r]) + 1 /\ ch'[q][k] = i /\ k \notin DOMAIN ch[q]
    BY <2>2, <2>4
  <2>6. TypeOK'
    <3>1. \A q \in Replicas : Len(ch'[q]) <= MaxDepth
      BY <2>2, <2>4, QueueFacts, BoundsFacts
    <3>2. ch' \in [Replicas -> Seq(Asks)]
      BY <2>1, <2>3, <2>4
    <3> QED
      BY <1>1, <1>4, <1>5, <2>1, <3>1, <3>2 DEF IInv, TypeOK, table, breaker, RequestType
  <2>7. OnePlace'
    <3>1. \A f, g \in Handlers : \A j \in Asks : j \in rpc'[f].left /\ j \in rpc'[g].left => f = g
      BY <1>4 DEF IInv, OnePlace
    <3>2. \A g \in Handlers, q \in Replicas : worker[q].ask \notin rpc'[g].left
      BY <1>4 DEF IInv, OnePlace
    <3>3. \A g \in Handlers : i \notin rpc'[g].left
      BY <1>3, <1>4 DEF IInv, OnePlace
    <3>4. \A g \in Handlers, q \in Replicas : \A k \in DOMAIN ch'[q] : ch'[q][k] \notin rpc'[g].left
      BY <1>4, <2>5, <3>3 DEF IInv, OnePlace
    <3>5. \A q \in Replicas : \A k \in DOMAIN ch[q] : ch[q][k] # i
      BY DEF IInv, OnePlace
    <3>6. \A p, q \in Replicas : \A j \in DOMAIN ch'[p], k \in DOMAIN ch'[q] :
            ch'[p][j] = ch'[q][k] => p = q /\ j = k
      BY <2>5, <3>5 DEF IInv, OnePlace
    <3>7. \A p, q \in Replicas : \A k \in DOMAIN ch'[q] : ch'[q][k] # worker[p].ask
      BY <2>5 DEF IInv, OnePlace
    <3> QED
      BY <1>1, <1>5, <3>1, <3>2, <3>4, <3>6, <3>7 DEF IInv, OnePlace
  <2>8. Unsent'
    <3>1. delivered[i] = 0
      BY DEF IInv, Unsent
    <3>2. \A q \in Replicas : \A k \in DOMAIN ch'[q] : delivered[ch'[q][k]] = 0
      BY <2>5, <3>1 DEF IInv, Unsent
    <3>3. \A g \in Handlers : \A j \in rpc'[g].left : delivered[j] = 0
      BY <1>4 DEF IInv, Unsent
    <3> QED
      BY <1>1, <1>5, <3>2, <3>3 DEF IInv, Unsent, Sending
  <2>9. SentIsTrue'
    BY <1>1, <1>5, <2>1 DEF IInv, SentIsTrue, table
  <2>10. NobodyForgotten'
    <3>1. i \in Carried'
      BY <1>3, <2>2, <2>4, CarriedMeansNext
    <3>2. ASSUME NEW j \in Carried, j # i PROVE j \in Carried'
      <4>1. CASE \E g \in Handlers : j \in rpc[g].left
        BY <1>4, <3>2, <4>1, CarriedMeansNext
      <4>2. CASE \E q \in Replicas : \E k \in DOMAIN ch[q] : j = ch[q][k]
        <5>1. \A q \in Replicas : \A k \in DOMAIN ch[q] : k \in DOMAIN ch'[q] /\ ch'[q][k] = ch[q][k]
          <6>1. DOMAIN ch[r] \subseteq DOMAIN ch'[r]
            BY <2>2, <2>4
          <6> QED
            BY <2>4, <6>1
        <5> QED
          BY <4>2, <5>1, CarriedMeansNext
      <4>3. CASE \E q \in Replicas : worker[q] # NoJob /\ j = worker[q].ask
        BY <1>1, <4>3, CarriedMeansNext
      <4> QED
        BY <4>1, <4>2, <4>3, CarriedMeans
    <3> QED
      BY <1>1, <2>1, <3>1, <3>2, RememberedKept DEF table
  <2> QED
    BY <1>6, <1>7, <2>6, <2>7, <2>8, <2>9, <2>10 DEF IInv
<1>9. CASE ~HasRoom(r)
  <2>1. MarkAs(asks[i], "dm_queue_overflow") /\ ch' = ch
    BY <1>1, <1>9 DEF Overflow
  <2>2. /\ dm' \in [Users -> {"null", "sent"} \cup Reasons] /\ unwritten' \subseteq Users
        /\ unwritten \subseteq unwritten'
        /\ \A v \in Users : dm'[v] = "null" => dm[v] = "null"
        /\ \A v \in Users : dm'[v] # dm[v] => v = asks[i] /\ dm'[v] = "dm_queue_overflow"
        /\ asks[i] \in unwritten' \/ dm'[asks[i]] # "null"
    <3>1. "dm_queue_overflow" \in {"sent"} \cup Reasons
      BY DEF Reasons
    <3> QED
      BY <1>3, <2>1, <3>1, MarkAsTyped
  <2>3. TypeOK'
    BY <1>1, <1>4, <1>5, <2>1, <2>2 DEF IInv, TypeOK, breaker, RequestType
  <2>4. OnePlace'
    BY <1>1, <1>4, <1>5, <2>1 DEF IInv, OnePlace
  <2>5. Unsent'
    BY <1>1, <1>4, <1>5, <2>1 DEF IInv, Unsent, Sending
  <2>6. SentIsTrue'
    BY <1>1, <1>5, <2>2 DEF IInv, SentIsTrue
  <2>7. NobodyForgotten'
    <3>1. ASSUME NEW j \in Carried, j # i PROVE j \in Carried'
      BY <1>1, <1>4, <2>1, <3>1, CarriedMeans, CarriedMeansNext
    <3> QED
      BY <1>1, <2>2, <3>1, RememberedKept
  <2> QED
    BY <1>6, <1>7, <2>3, <2>4, <2>5, <2>6, <2>7 DEF IInv
<1> QED
  BY <1>8, <1>9

LEMMA SkipStep == ASSUME IInv, NEW h \in Handlers, Skip(h) PROVE IInv'
<1>1. /\ rpc' = [rpc EXCEPT ![h] = NoRequest]
      /\ skipped' = skipped \cup {asks[i] : i \in rpc[h].left}
      /\ UNCHANGED <<table, asks, delivered, phase, lost, ch, worker, breaker, crashes>>
  BY DEF Skip
<1>2. rpc \in [Handlers -> RequestType] /\ NoRequest \in RequestType
  BY DEF IInv, TypeOK, RequestType, NoRequest
<1>3. /\ rpc' \in [Handlers -> RequestType] /\ rpc'[h].left = {}
      /\ \A g \in Handlers \ {h} : rpc'[g] = rpc[g]
  BY <1>1, <1>2 DEF NoRequest
<1>4. Asks' = Asks /\ Approved' = Approved
  BY <1>1 DEF Asks, Approved
<1>5. TypeOK'
  <2>1. skipped' \subseteq Users
    BY <1>1, <1>2, AskFacts DEF IInv, TypeOK, RequestType
  <2> QED
    BY <1>1, <1>3, <1>4, <2>1 DEF IInv, TypeOK, table, breaker, RequestType
<1>6. Shapes'
  BY <1>1, <1>3 DEF IInv, Shapes
<1>7. OnePlace'
  <2>1. \A g \in Handlers : rpc'[g].left \subseteq rpc[g].left
    BY <1>3
  <2> QED
    BY <1>1, <1>4, <2>1 DEF IInv, OnePlace
<1>8. Unsent'
  BY <1>1, <1>3, <1>4 DEF IInv, Unsent, Sending
<1>9. SentIsTrue'
  BY <1>1, <1>4 DEF IInv, SentIsTrue, table
<1>10. ClosedWhileSending' /\ BreakerMatchesWindow'
  BY <1>1, BreakerKept
<1>11. NobodyForgotten'
  <2>1. ASSUME NEW j \in Carried PROVE j \in Carried' \/ asks[j] \in skipped'
    <3>1. CASE j \in rpc[h].left
      BY <1>1, <3>1
    <3>2. CASE j \notin rpc[h].left
      BY <1>1, <1>3, <2>1, <3>2, CarriedMeans, CarriedMeansNext
    <3> QED
      BY <3>1, <3>2
  <2> QED
    BY <1>1, <2>1, RememberedKept DEF table
<1> QED
  BY <1>5, <1>6, <1>7, <1>8, <1>9, <1>10, <1>11 DEF IInv

-----------------------------------------------------------------------------
(* The worker.                                                             *)

\* The job at the head of the queue goes to the worker.
LEMMA TakeStep == ASSUME IInv, NEW r \in Replicas, Take(r) PROVE IInv'
<1> DEFINE i == Head(ch[r])
<1>1. /\ worker[r] = NoJob /\ ch[r] # <<>> /\ ch' = [ch EXCEPT ![r] = Tail(@)]
      /\ Process(r, i)
      /\ UNCHANGED <<table, requests, delivered, phase, lost, crashes>>
  BY DEF Take
<1>2. /\ ch \in [Replicas -> Seq(Asks)] /\ worker \in [Replicas -> JobType]
      /\ failures \in [Replicas -> Seq(0..TripWindow)]
      /\ opened \in [Replicas -> 0..OpenDuration \cup {None}]
  BY DEF IInv, TypeOK, JobType
<1>3. /\ ch[r] \in Seq(Asks) /\ Len(ch[r]) \in Nat /\ Len(ch[r]) # 0
      /\ DOMAIN ch[r] = 1..Len(ch[r]) /\ i = ch[r][1] /\ i \in Asks
  BY <1>1, <1>2, LenProperties, EmptySeq, HeadTailProperties
<1>4. /\ Tail(ch[r]) \in Seq(Asks) /\ Len(Tail(ch[r])) = Len(ch[r]) - 1
      /\ \A k \in 1..Len(ch[r]) - 1 : Tail(ch[r])[k] = ch[r][k + 1]
  BY <1>1, <1>3, HeadTailProperties
<1>5. /\ ch'[r] = Tail(ch[r]) /\ DOMAIN ch'[r] = 1..Len(ch[r]) - 1
      /\ \A q \in Replicas \ {r} : ch'[q] = ch[q]
      /\ ch' \in [Replicas -> Seq(Asks)]
  BY <1>1, <1>2, <1>4, LenProperties
<1>6. PICK m \in {"none", "missing_recipient", "dm_circuit_open"} :
        worker' = [worker EXCEPT ![r] = [ask |-> i, mark |-> m]]
  BY <1>1 DEF Process
<1>7. /\ worker' \in [Replicas -> JobType] /\ worker'[r] = [ask |-> i, mark |-> m]
      /\ \A q \in Replicas \ {r} : worker'[q] = worker[q]
  BY <1>2, <1>3, <1>6 DEF JobType, Reasons
<1>8. /\ worker[r].ask = 0 /\ worker'[r].ask = i /\ i # 0 /\ worker'[r] # NoJob
  BY <1>1, <1>3, <1>7, AskFacts DEF NoJob
<1>9. Asks' = Asks /\ Approved' = Approved /\ UNCHANGED <<rpc, asks>>
  BY <1>1 DEF Asks, Approved, requests
<1>10. \A q \in Replicas : \A k \in DOMAIN ch'[q] :
         IF q = r THEN k + 1 \in DOMAIN ch[r] /\ ch'[q][k] = ch[r][k + 1] /\ k \in Nat
         ELSE k \in DOMAIN ch[q] /\ ch'[q][k] = ch[q][k]
  <2>1. \A k \in DOMAIN ch'[r] : k + 1 \in DOMAIN ch[r] /\ ch'[r][k] = ch[r][k + 1] /\ k \in Nat
    BY <1>3, <1>4, <1>5
  <2> QED
    BY <1>5, <2>1
<1>11. 1 \in DOMAIN ch[r]
  BY <1>3
<1>12. Shapes'
  BY <1>7, <1>8, <1>9 DEF IInv, Shapes
<1>13. OnePlace'
  <2>1. \A g \in Handlers : i \notin rpc[g].left
    BY <1>3, <1>11 DEF IInv, OnePlace
  <2>2. \A g \in Handlers, q \in Replicas : worker'[q].ask \notin rpc[g].left
    BY <1>7, <1>8, <2>1 DEF IInv, OnePlace
  <2>3. \A g \in Handlers, q \in Replicas : \A k \in DOMAIN ch'[q] : ch'[q][k] \notin rpc[g].left
    BY <1>10 DEF IInv, OnePlace
  <2>4. \A p, q \in Replicas : \A j \in DOMAIN ch'[p], k \in DOMAIN ch'[q] :
          ch'[p][j] = ch'[q][k] => p = q /\ j = k
    <3> SUFFICES ASSUME NEW p \in Replicas, NEW q \in Replicas,
                        NEW j \in DOMAIN ch'[p], NEW k \in DOMAIN ch'[q], ch'[p][j] = ch'[q][k]
                 PROVE  p = q /\ j = k
      OBVIOUS
    <3>1. CASE p = r /\ q = r
      <4>1. j + 1 = k + 1 /\ j \in Nat /\ k \in Nat
        BY <1>10, <3>1 DEF IInv, OnePlace
      <4> QED
        BY <3>1, <4>1
    <3>2. CASE p # r \/ q # r
      BY <1>10, <3>2 DEF IInv, OnePlace
    <3> QED
      BY <3>1, <3>2
  <2>5. \A q \in Replicas : \A k \in DOMAIN ch'[q] : ch'[q][k] # i
    <3> SUFFICES ASSUME NEW q \in Replicas, NEW k \in DOMAIN ch'[q], ch'[q][k] = i
                 PROVE  FALSE
      OBVIOUS
    <3>1. CASE q = r
      <4>1. k + 1 = 1 /\ k \in Nat
        BY <1>3, <1>10, <1>11, <3>1 DEF IInv, OnePlace
      <4>2. k \in 1..Len(ch[r]) - 1
        BY <1>5, <3>1
      <4> QED
        BY <1>3, <4>1, <4>2
    <3>2. CASE q # r
      BY <1>3, <1>10, <1>11, <3>2 DEF IInv, OnePlace
    <3> QED
      BY <3>1, <3>2
  <2>6. \A p, q \in Replicas : \A k \in DOMAIN ch'[q] : ch'[q][k] # worker'[p].ask
    BY <1>7, <1>8, <1>10, <2>5 DEF IInv, OnePlace
  <2>7. \A p, q \in Replicas : worker'[p].ask = worker'[q].ask /\ worker'[q].ask # 0 => p = q
    <3>1. \A q \in Replicas : worker[q].ask # i
      BY <1>3, <1>11 DEF IInv, OnePlace
    <3> QED
      BY <1>7, <1>8, <3>1 DEF IInv, OnePlace
  <2> QED
    BY <1>9, <2>2, <2>3, <2>4, <2>6, <2>7 DEF IInv, OnePlace
<1>14. Unsent'
  <2>1. delivered[i] = 0
    BY <1>3, <1>11 DEF IInv, Unsent
  <2>2. \A q \in Replicas : \A k \in DOMAIN ch'[q] : delivered[ch'[q][k]] = 0
    BY <1>10 DEF IInv, Unsent
  <2>3. \A q \in Replicas : Sending(q)' => delivered[worker'[q].ask] = 0
    BY <1>7, <1>8, <2>1 DEF IInv, Unsent, Sending
  <2> QED
    BY <1>1, <1>9, <2>2, <2>3 DEF IInv, Unsent
<1>15. SentIsTrue'
  BY <1>1, <1>7, <1>9 DEF IInv, SentIsTrue, table
<1>16. /\ failures' \in [Replicas -> Seq(0..TripWindow)]
       /\ opened' \in [Replicas -> 0..OpenDuration \cup {None}]
       /\ \A q \in Replicas \ {r} : failures'[q] = failures[q] /\ opened'[q] = opened[q]
       /\ \/ failures'[r] = failures[r] /\ opened'[r] = opened[r]
          \/ failures'[r] = <<>> /\ opened'[r] = None
       /\ m = "none" => opened'[r] = None
  <2>1. UNCHANGED breaker \/ CloseCircuit(r)
    BY <1>1 DEF Process
  <2>2. m = "none" => opened'[r] = None
    <3> SUFFICES ASSUME m = "none" PROVE opened'[r] = None
      OBVIOUS
    <3>1. worker'[r].mark = "none"
      BY <1>7
    <3>2. asks[i] \in Reachable /\ ~StillOpen(r)
      BY <1>1, <1>2, <3>1 DEF Process
    <3>3. IF opened[r] # None THEN CloseCircuit(r) ELSE UNCHANGED breaker
      BY <1>1, <3>2 DEF Process
    <3> QED
      BY <1>2, <3>3 DEF CloseCircuit, breaker
  <2>3. <<>> \in Seq(0..TripWindow)
    BY EmptySeq
  <2> QED
    BY <1>2, <2>1, <2>2, <2>3 DEF CloseCircuit, breaker
<1>17. ClosedWhileSending' /\ BreakerMatchesWindow'
  <2>1. ClosedWhileSending'
    <3>1. ASSUME NEW q \in Replicas, worker'[q] # NoJob,
                 worker'[q].mark \in {"none", "sent", "discord_error"}
          PROVE  opened'[q] = None
      BY <1>7, <1>16, <3>1 DEF IInv, ClosedWhileSending
    <3> QED
      BY <3>1 DEF ClosedWhileSending
  <2>2. BreakerMatchesWindow'
    <3>1. ~(Len(<<>>) >= TripCount)
      BY BoundsFacts, EmptySeq
    <3> QED
      BY <1>16, <3>1 DEF IInv, BreakerMatchesWindow
  <2> QED
    BY <2>1, <2>2
<1>18. TypeOK'
  <2>1. ASSUME NEW q \in Replicas PROVE Len(ch'[q]) <= MaxDepth
    <3>1. Len(ch[q]) \in Nat /\ Len(ch[q]) <= MaxDepth
      BY QueueFacts
    <3>2. CASE q = r
      BY <1>3, <1>4, <1>5, <3>1, <3>2, BoundsFacts
    <3> QED
      BY <1>5, <3>1, <3>2
  <2> QED
    BY <1>1, <1>5, <1>7, <1>9, <1>16, <2>1 DEF IInv, TypeOK, table, requests, JobType
<1>19. NobodyForgotten'
  <2>1. ASSUME NEW j \in Carried PROVE j \in Carried'
    <3>1. CASE \E g \in Handlers : j \in rpc[g].left
      BY <1>9, <3>1, CarriedMeansNext
    <3>2. CASE \E q \in Replicas : \E k \in DOMAIN ch[q] : j = ch[q][k]
      <4>0. PICK q \in Replicas : \E k \in DOMAIN ch[q] : j = ch[q][k]
        BY <3>2
      <4>1. PICK k \in DOMAIN ch[q] : j = ch[q][k]
        BY <4>0
      <4>2. CASE q # r
        BY <1>5, <4>1, <4>2, CarriedMeansNext
      <4>3. CASE q = r /\ k = 1
        BY <1>3, <1>8, <4>1, <4>3, CarriedMeansNext
      <4>4. CASE q = r /\ k # 1
        <5>1. k - 1 \in DOMAIN ch'[r] /\ ch'[r][k - 1] = j
          BY <1>3, <1>4, <1>5, <4>1, <4>4
        <5> QED
          BY <5>1, CarriedMeansNext
      <4> QED
        BY <4>2, <4>3, <4>4
    <3>3. CASE \E q \in Replicas : worker[q] # NoJob /\ j = worker[q].ask
      BY <1>1, <1>7, <3>3, CarriedMeansNext
    <3> QED
      BY <3>1, <3>2, <3>3, CarriedMeans
  <2> QED
    BY <1>1, <1>9, <2>1, RememberedKept DEF table, requests
<1> QED
  BY <1>12, <1>13, <1>14, <1>15, <1>17, <1>18, <1>19 DEF IInv

\* Discord answers or does not, and the worker keeps the job until it has marked the row.
LEMMA SendStep == ASSUME IInv, NEW r \in Replicas, Sent(r) \/ SendError(r) PROVE IInv'
<1> DEFINE i == worker[r].ask
<1>1. /\ Sending(r)
      /\ UNCHANGED <<table, requests, phase, lost, ch, breaker, crashes>>
  BY DEF Sent, SendError, AfterSendError
<1>2. PICK n \in {0, 1}, m \in {"sent", "discord_error"} :
        /\ delivered' = [delivered EXCEPT ![i] = @ + n]
        /\ worker' = [worker EXCEPT ![r].mark = m]
        /\ m = "sent" => n = 1
  BY DEF Sent, SendError, AfterSendError
<1>3. delivered \in [1..MaxAsks -> Nat] /\ worker \in [Replicas -> JobType]
  BY DEF IInv, TypeOK, JobType
<1>4. worker[r] # NoJob /\ worker[r].mark = "none" /\ i \in Asks /\ i \in 1..MaxAsks
  BY <1>1, <1>3, AskFacts DEF IInv, Shapes, Sending, JobType
<1>5. /\ worker'[r].ask = i /\ worker'[r].mark = m /\ worker' \in [Replicas -> JobType]
      /\ \A q \in Replicas \ {r} : worker'[q] = worker[q]
      /\ \A q \in Replicas : worker'[q].ask = worker[q].ask
  <2>1. [worker[r] EXCEPT !.mark = m] \in JobType
    BY <1>2, <1>3 DEF JobType, Reasons
  <2>2. worker[r] = [ask |-> worker[r].ask, mark |-> worker[r].mark]
    BY <1>3 DEF JobType
  <2> QED
    BY <1>2, <1>3, <2>1, <2>2
<1>6. /\ delivered[i] = 0 /\ delivered'[i] = n /\ delivered' \in [1..MaxAsks -> Nat]
      /\ \A j \in 1..MaxAsks : j # i => delivered'[j] = delivered[j]
  <2>1. delivered[i] = 0
    BY <1>1 DEF IInv, Unsent
  <2> QED
    BY <1>2, <1>3, <1>4, <2>1
<1>7. Asks' = Asks /\ Approved' = Approved /\ UNCHANGED <<asks, rpc, ch, dm>>
  BY <1>1 DEF Asks, Approved, requests, table
<1>8. worker'[r] # NoJob /\ \A q \in Replicas : worker'[q] # NoJob <=> worker[q] # NoJob
  BY <1>4, <1>5, AskFacts DEF NoJob
<1>9. TypeOK'
  BY <1>1, <1>5, <1>6, <1>7 DEF IInv, TypeOK, table, requests, breaker, JobType
<1>10. Shapes'
  BY <1>4, <1>5, <1>7, AskFacts DEF IInv, Shapes
<1>11. OnePlace'
  BY <1>5, <1>7 DEF IInv, OnePlace
<1>12. Unsent'
  <2>1. \A j \in 1..MaxAsks : delivered'[j] <= 1 /\ (j \notin Asks => delivered'[j] = 0)
    BY <1>4, <1>6 DEF IInv, Unsent
  <2>2. \A h \in Handlers : \A j \in rpc[h].left : delivered'[j] = 0
    <3>1. \A h \in Handlers : rpc[h].left \subseteq 1..MaxAsks /\ i \notin rpc[h].left
      BY AskFacts DEF IInv, TypeOK, OnePlace
    <3> QED
      BY <1>6, <3>1 DEF IInv, Unsent
  <2>3. \A q \in Replicas : \A k \in DOMAIN ch[q] : delivered'[ch[q][k]] = 0
    <3>1. \A q \in Replicas : \A k \in DOMAIN ch[q] : ch[q][k] \in 1..MaxAsks /\ ch[q][k] # i
      BY AskFacts, QueueFacts DEF IInv, OnePlace
    <3> QED
      BY <1>6, <3>1 DEF IInv, Unsent
  <2>4. \A q \in Replicas : Sending(q)' => delivered'[worker'[q].ask] = 0
    <3> SUFFICES ASSUME NEW q \in Replicas, worker'[q] # NoJob, worker'[q].mark = "none"
                 PROVE  delivered'[worker'[q].ask] = 0
      BY DEF Sending
    <3>1. q # r
      BY <1>5
    <3>2. Sending(q)
      BY <1>5, <3>1 DEF Sending
    <3>3. worker[q].ask # i /\ worker[q].ask \in 1..MaxAsks
      BY <1>3, <1>4, <3>1, <3>2, AskFacts DEF IInv, OnePlace, Shapes, Sending, JobType
    <3> QED
      BY <1>5, <1>6, <3>2, <3>3 DEF IInv, Unsent
  <2> QED
    BY <1>7, <2>1, <2>2, <2>3, <2>4 DEF Unsent
<1>13. SentIsTrue'
  <2>1. \A q \in Replicas : worker'[q].mark = "sent" => delivered'[worker'[q].ask] = 1
    <3> SUFFICES ASSUME NEW q \in Replicas, worker'[q].mark = "sent", q # r
                 PROVE  delivered'[worker'[q].ask] = 1
      BY <1>2, <1>5, <1>6
    <3>1. worker[q].mark = "sent" /\ delivered[worker[q].ask] = 1
      BY <1>5 DEF IInv, SentIsTrue
    <3>2. worker[q].ask # 0
      BY <3>1 DEF IInv, Shapes, NoJob
    <3>3. worker[q].ask # i /\ worker[q].ask \in 1..MaxAsks
      BY <1>3, <1>4, <3>2, AskFacts DEF IInv, OnePlace, JobType
    <3> QED
      BY <1>5, <1>6, <3>1, <3>3
  <2>2. \A j \in Asks : delivered[j] > 0 => delivered'[j] > 0
    BY <1>6, AskFacts
  <2> QED
    BY <1>7, <2>1, <2>2 DEF IInv, SentIsTrue
<1>14. ClosedWhileSending' /\ BreakerMatchesWindow'
  BY <1>1, <1>4, <1>5, BreakerKept
<1>15. NobodyForgotten'
  <2>1. ASSUME NEW j \in Carried PROVE j \in Carried'
    BY <1>5, <1>7, <1>8, <2>1, CarriedMeans, CarriedMeansNext
  <2> QED
    BY <1>1, <1>7, <2>1, RememberedKept DEF table, requests
<1> QED
  BY <1>9, <1>10, <1>11, <1>12, <1>13, <1>14, <1>15 DEF IInv

LEMMA RecentTyped ==
  ASSUME IInv, NEW r \in Replicas
  PROVE  Recent(r) \in Seq(0..TripWindow) /\ Len(Recent(r)) \in Nat
<1> DEFINE n == Len(failures[r])
           c == Cardinality(Stale(r))
<1>1. failures[r] \in Seq(0..TripWindow)
  BY DEF IInv, TypeOK
<1>2. n \in Nat /\ DOMAIN failures[r] = 1..n
  BY <1>1, LenProperties
<1>3. c \in Nat
  <2>1. IsFiniteSet(1..n)
    BY <1>2, FS_Interval
  <2>2. IsFiniteSet(Stale(r))
    BY <1>2, <2>1, FS_Subset DEF Stale
  <2> QED
    BY <2>2, FS_CardinalityType
<1> HIDE DEF c
<1>4. \A k \in c + 1 .. n : failures[r][k] \in 0..TripWindow
  <2>1. \A k \in 1..n : failures[r][k] \in 0..TripWindow
    BY <1>1, ElementOfSeq
  <2> QED
    BY <1>2, <1>3, <2>1
<1>5. SubSeq(failures[r], c + 1, n) \in Seq(0..TripWindow)
  BY <1>2, <1>3, <1>4, SubSeqProperties
<1> QED
  BY <1>5, LenProperties DEF Recent, c

LEMMA MarkStep == ASSUME IInv, NEW r \in Replicas, Mark(r) PROVE IInv'
<1> DEFINE i == worker[r].ask
           m == worker[r].mark
<1> USE BoundsFacts
<1>1. /\ worker[r] # NoJob /\ m # "none" /\ MarkAs(asks[i], m)
      /\ CASE m = "sent" -> failures' = [failures EXCEPT ![r] = <<>>] /\ opened' = opened
           [] m = "discord_error" -> RecordFailure(r)
           [] OTHER -> UNCHANGED breaker
      /\ worker' = [worker EXCEPT ![r] = NoJob]
      /\ UNCHANGED <<requests, delivered, phase, lost, ch, crashes>>
  BY DEF Mark, Sending
<1>2. worker \in [Replicas -> JobType] /\ NoJob \in JobType
  BY DEF IInv, TypeOK, JobType, NoJob
<1>3. i \in Asks /\ asks[i] \in Users /\ m \in {"sent"} \cup Reasons
  BY <1>1, <1>2, AskFacts DEF IInv, Shapes, JobType
<1>4. /\ dm' \in [Users -> {"null", "sent"} \cup Reasons] /\ unwritten' \subseteq Users
      /\ unwritten \subseteq unwritten'
      /\ \A v \in Users : dm'[v] = "null" => dm[v] = "null"
      /\ \A v \in Users : dm'[v] # dm[v] => v = asks[i] /\ dm'[v] = m
      /\ asks[i] \in unwritten' \/ dm'[asks[i]] # "null"
  BY <1>1, <1>3, MarkAsTyped
<1>5. /\ worker' \in [Replicas -> JobType] /\ worker'[r] = NoJob
      /\ \A q \in Replicas \ {r} : worker'[q] = worker[q]
  BY <1>1, <1>2
<1>6. Asks' = Asks /\ Approved' = Approved /\ UNCHANGED <<asks, rpc, ch>>
  BY <1>1 DEF Asks, Approved, requests
<1>7. /\ failures \in [Replicas -> Seq(0..TripWindow)]
      /\ opened \in [Replicas -> 0..OpenDuration \cup {None}]
  BY DEF IInv, TypeOK
<1>8. /\ failures' \in [Replicas -> Seq(0..TripWindow)]
      /\ opened' \in [Replicas -> 0..OpenDuration \cup {None}]
      /\ \A q \in Replicas \ {r} : failures'[q] = failures[q] /\ opened'[q] = opened[q]
      /\ opened'[r] # None <=> Len(failures'[r]) >= TripCount
  <2>1. CASE m = "sent"
    <3>1. opened[r] = None
      BY <1>1, <2>1 DEF IInv, ClosedWhileSending
    <3>2. failures' = [failures EXCEPT ![r] = <<>>] /\ opened' = opened
      BY <1>1, <2>1
    <3>3. <<>> \in Seq(0..TripWindow) /\ ~(Len(<<>>) >= TripCount)
      BY EmptySeq
    <3> QED
      BY <1>7, <3>1, <3>2, <3>3
  <2>2. CASE m = "discord_error"
    <3>1. opened[r] = None
      BY <1>1, <2>2 DEF IInv, ClosedWhileSending
    <3>2. /\ failures' = [failures EXCEPT ![r] = Append(Recent(r), 0)]
          /\ opened' = IF Len(Recent(r)) + 1 >= TripCount THEN [opened EXCEPT ![r] = 0] ELSE opened
      BY <1>1, <2>2, <3>1 DEF RecordFailure
    <3>3. Append(Recent(r), 0) \in Seq(0..TripWindow) /\ Len(Append(Recent(r), 0)) = Len(Recent(r)) + 1
      BY RecentTyped
    <3>4. 0 # None /\ 0 \in 0..OpenDuration
      OBVIOUS
    <3>5. CASE Len(Recent(r)) + 1 >= TripCount
      BY <1>7, <3>2, <3>3, <3>4, <3>5
    <3>6. CASE ~(Len(Recent(r)) + 1 >= TripCount)
      BY <1>7, <3>1, <3>2, <3>3, <3>6
    <3> QED
      BY <3>5, <3>6
  <2>3. CASE m \notin {"sent", "discord_error"}
    BY <1>1, <1>7, <2>3 DEF IInv, BreakerMatchesWindow, breaker
  <2> QED
    BY <2>1, <2>2, <2>3
<1>9. ClosedWhileSending' /\ BreakerMatchesWindow'
  <2>1. ClosedWhileSending'
    BY <1>5, <1>8 DEF IInv, ClosedWhileSending
  <2>2. BreakerMatchesWindow'
    BY <1>8 DEF IInv, BreakerMatchesWindow
  <2> QED
    BY <2>1, <2>2
<1>10. TypeOK'
  BY <1>1, <1>4, <1>5, <1>6, <1>8 DEF IInv, TypeOK, requests, JobType
<1>11. Shapes'
  BY <1>5, <1>6 DEF IInv, Shapes
<1>12. worker'[r].ask = 0 /\ worker'[r].mark = "none"
  BY <1>5 DEF NoJob
<1>13. OnePlace'
  <2>1. \A h \in Handlers : 0 \notin rpc[h].left
    BY AskFacts DEF IInv, TypeOK
  <2>2. \A q \in Replicas : \A k \in DOMAIN ch[q] : ch[q][k] # 0
    BY AskFacts, QueueFacts
  <2>3. \A h \in Handlers, q \in Replicas : worker'[q].ask \notin rpc[h].left
    BY <1>5, <1>12, <2>1 DEF IInv, OnePlace
  <2>4. \A p, q \in Replicas : \A k \in DOMAIN ch[q] : ch[q][k] # worker'[p].ask
    BY <1>5, <1>12, <2>2 DEF IInv, OnePlace
  <2>5. \A p, q \in Replicas : worker'[p].ask = worker'[q].ask /\ worker'[q].ask # 0 => p = q
    BY <1>5, <1>12 DEF IInv, OnePlace
  <2> QED
    BY <1>6, <2>3, <2>4, <2>5 DEF IInv, OnePlace
<1>14. Unsent'
  BY <1>1, <1>5, <1>6 DEF IInv, Unsent, Sending
<1>15. SentIsTrue'
  <2>1. m = "sent" => delivered[i] > 0
    BY DEF IInv, SentIsTrue
  <2>2. \A u \in Users : dm'[u] = "sent" => \E j \in Asks : asks[j] = u /\ delivered[j] > 0
    BY <1>3, <1>4, <2>1 DEF IInv, SentIsTrue
  <2> QED
    BY <1>1, <1>5, <1>6, <1>12, <2>2 DEF IInv, SentIsTrue
<1>16. NobodyForgotten'
  <2>1. ASSUME NEW j \in Carried, j # i PROVE j \in Carried'
    BY <1>5, <1>6, <2>1, CarriedMeans, CarriedMeansNext
  <2> QED
    BY <1>1, <1>4, <1>6, <2>1, RememberedKept DEF requests
<1> QED
  BY <1>9, <1>10, <1>11, <1>13, <1>14, <1>15, <1>16 DEF IInv

-----------------------------------------------------------------------------
(* The death of a replica.                                                 *)

LEMMA CrashStep == ASSUME IInv, NEW r \in Replicas, Crash(r) PROVE IInv'
<1> USE BoundsFacts
<1>1. /\ crashes < MaxCrashes /\ crashes' = crashes + 1
      /\ phase' = [phase EXCEPT ![r] = "down"]
      /\ lost' = [lost EXCEPT ![r] = {}]
      /\ ch' = [ch EXCEPT ![r] = <<>>]
      /\ worker' = [worker EXCEPT ![r] = NoJob]
      /\ failures' = [failures EXCEPT ![r] = <<>>]
      /\ opened' = [opened EXCEPT ![r] = None]
      /\ rpc' = [h \in Handlers |-> IF rpc[h].at = r THEN NoRequest ELSE rpc[h]]
      /\ UNCHANGED <<table, asks, skipped, delivered>>
  BY DEF Crash
<1>2. /\ rpc \in [Handlers -> RequestType] /\ worker \in [Replicas -> JobType]
      /\ phase \in [Replicas -> {"down", "booting", "sweeping", "draining"}]
      /\ lost \in [Replicas -> SUBSET Users] /\ ch \in [Replicas -> Seq(Asks)]
      /\ failures \in [Replicas -> Seq(0..TripWindow)]
      /\ opened \in [Replicas -> 0..OpenDuration \cup {None}]
      /\ crashes \in 0..MaxCrashes
  BY DEF IInv, TypeOK, RequestType, JobType
<1>3. Asks' = Asks /\ Approved' = Approved
  BY <1>1 DEF Asks, Approved
<1>4. /\ ch'[r] = <<>> /\ DOMAIN ch'[r] = {} /\ Len(ch'[r]) = 0
      /\ \A q \in Replicas \ {r} : ch'[q] = ch[q]
  BY <1>1, <1>2, EmptySeq
<1>5. /\ worker'[r] = NoJob /\ worker'[r].ask = 0 /\ worker'[r].mark = "none"
      /\ \A q \in Replicas \ {r} : worker'[q] = worker[q]
  BY <1>1, <1>2 DEF NoJob
<1>6. /\ rpc' \in [Handlers -> RequestType]
      /\ \A h \in Handlers : rpc'[h].left = {} \/ rpc'[h] = rpc[h]
  BY <1>1, <1>2 DEF RequestType, NoRequest
<1>7. TypeOK'
  <2>1. ch' \in [Replicas -> Seq(Asks)] /\ failures' \in [Replicas -> Seq(0..TripWindow)]
    <3>1. <<>> \in Seq(Asks) /\ <<>> \in Seq(0..TripWindow)
      BY EmptySeq
    <3> QED
      BY <1>1, <1>2, <3>1
  <2>2. \A q \in Replicas : Len(ch'[q]) <= MaxDepth
    BY <1>4 DEF IInv, TypeOK
  <2>3. worker' \in [Replicas -> JobType]
    BY <1>1, <1>2 DEF NoJob, JobType
  <2>4. /\ phase' \in [Replicas -> {"down", "booting", "sweeping", "draining"}]
        /\ lost' \in [Replicas -> SUBSET Users]
        /\ opened' \in [Replicas -> 0..OpenDuration \cup {None}]
        /\ crashes' \in 0..MaxCrashes
    BY <1>1, <1>2
  <2> QED
    BY <1>1, <1>3, <1>6, <2>1, <2>2, <2>3, <2>4
       DEF IInv, TypeOK, table, RequestType, JobType
<1>8. Shapes'
  BY <1>5, <1>6 DEF IInv, Shapes
<1>9. OnePlace'
  <2>1. \A h \in Handlers : rpc'[h].left \subseteq rpc[h].left /\ 0 \notin rpc[h].left
    BY <1>6, AskFacts DEF IInv, TypeOK
  <2>2. \A q \in Replicas : \A k \in DOMAIN ch'[q] :
          q # r /\ k \in DOMAIN ch[q] /\ ch'[q][k] = ch[q][k] /\ ch[q][k] # 0
    BY <1>4, AskFacts, QueueFacts
  <2>3. \A h \in Handlers, q \in Replicas : worker'[q].ask \notin rpc'[h].left
    BY <1>5, <2>1 DEF IInv, OnePlace
  <2>4. \A h \in Handlers, q \in Replicas : \A k \in DOMAIN ch'[q] : ch'[q][k] \notin rpc'[h].left
    BY <2>1, <2>2 DEF IInv, OnePlace
  <2>5. \A p, q \in Replicas : \A k \in DOMAIN ch'[q] : ch'[q][k] # worker'[p].ask
    BY <1>5, <2>2 DEF IInv, OnePlace
  <2>6. \A p, q \in Replicas : \A j \in DOMAIN ch'[p], k \in DOMAIN ch'[q] :
          ch'[p][j] = ch'[q][k] => p = q /\ j = k
    BY <2>2 DEF IInv, OnePlace
  <2>7. \A p, q \in Replicas : worker'[p].ask = worker'[q].ask /\ worker'[q].ask # 0 => p = q
    BY <1>5 DEF IInv, OnePlace
  <2>8. \A g, h \in Handlers : \A i \in Asks : i \in rpc'[g].left /\ i \in rpc'[h].left => g = h
    BY <2>1 DEF IInv, OnePlace
  <2> QED
    BY <1>3, <2>3, <2>4, <2>5, <2>6, <2>7, <2>8 DEF OnePlace
<1>10. Unsent'
  <2>1. \A h \in Handlers : \A i \in rpc'[h].left : delivered[i] = 0
    BY <1>6 DEF IInv, Unsent
  <2>2. \A q \in Replicas : \A k \in DOMAIN ch'[q] : delivered[ch'[q][k]] = 0
    BY <1>4 DEF IInv, Unsent
  <2>3. \A q \in Replicas : Sending(q)' => delivered[worker'[q].ask] = 0
    BY <1>5 DEF IInv, Unsent, Sending
  <2> QED
    BY <1>1, <1>3, <2>1, <2>2, <2>3 DEF IInv, Unsent
<1>11. SentIsTrue'
  BY <1>1, <1>3, <1>5 DEF IInv, SentIsTrue, table
<1>12. ClosedWhileSending' /\ BreakerMatchesWindow'
  <2>1. /\ opened'[r] = None /\ failures'[r] = <<>> /\ ~(Len(failures'[r]) >= TripCount)
        /\ \A q \in Replicas \ {r} : opened'[q] = opened[q] /\ failures'[q] = failures[q]
    BY <1>1, <1>2, EmptySeq
  <2>2. ClosedWhileSending'
    BY <1>5, <2>1 DEF IInv, ClosedWhileSending
  <2>3. BreakerMatchesWindow'
    BY <2>1 DEF IInv, BreakerMatchesWindow
  <2> QED
    BY <2>2, <2>3
<1>13. NobodyForgotten'
  BY <1>1, <1>2 DEF NobodyForgotten
<1> QED
  BY <1>7, <1>8, <1>9, <1>10, <1>11, <1>12, <1>13 DEF IInv

-----------------------------------------------------------------------------
LEMMA NextIInv == IInv /\ [Next]_vars => IInv'
<1> SUFFICES ASSUME IInv, [Next]_vars PROVE IInv'
  OBVIOUS
<1>1. ASSUME NEW h \in Handlers, NEW r \in Replicas,
             \/ \E u \in Users : ApproveCommit(h, r, u) \/ RetryDM(h, r, u)
             \/ RetryFailedDms(h, r)
      PROVE  IInv'
  BY <1>1, ApproveCommitStep, RetryFailedDmsStep
<1>2. ASSUME NEW h \in Handlers, Enqueue(h) \/ Skip(h) PROVE IInv'
  BY <1>2, EnqueueStep, SkipStep
<1>3. ASSUME NEW r \in Replicas, Drain(r) PROVE IInv'
  BY <1>3, TakeStep, SendStep, MarkStep DEF Drain
<1>4. ASSUME NEW r \in Replicas, BootSequence(r) \/ Crash(r) PROVE IInv'
  BY <1>4, BootSequenceStep, CrashStep
<1>5. CASE UNCHANGED vars
  <2>1. /\ Asks' = Asks /\ Approved' = Approved /\ Carried' = Carried
        /\ Shapes' /\ OnePlace' /\ Unsent'
    BY <1>5, PlacesKept DEF vars
  <2>2. TypeOK' /\ SentIsTrue' /\ ClosedWhileSending' /\ BreakerMatchesWindow'
    BY <1>5, <2>1 DEF vars, IInv, TypeOK, SentIsTrue, ClosedWhileSending, BreakerMatchesWindow
  <2>3. NobodyForgotten'
    BY <1>5, <2>1, RememberedKept DEF vars
  <2> QED
    BY <2>1, <2>2, <2>3 DEF IInv
<1> QED
  BY <1>1, <1>2, <1>3, <1>4, <1>5, TickStep DEF Next

-----------------------------------------------------------------------------
(* The boot sweep.  Its list is there only while no worker of the replica  *)
(* runs, and only a worker writes "sent".                                  *)

PhaseOK ==
  /\ \A r \in Replicas : lost[r] # {} => phase[r] = "sweeping"
  /\ \A r \in Replicas : worker[r] # NoJob => phase[r] = "draining"

QueueInv == IInv /\ PhaseOK /\ SweepSparesTheSent

LEMMA InitQueueInv == Init => QueueInv
<1> SUFFICES ASSUME Init PROVE QueueInv
  OBVIOUS
<1>1. PhaseOK /\ SweepSparesTheSent
  BY DEF Init, PhaseOK, SweepSparesTheSent
<1> QED
  BY <1>1, InitIInv DEF QueueInv

\* A step that leaves phases, scans and workers alone, and makes nobody's row say sent.
LEMMA SweepKept ==
  ASSUME QueueInv, UNCHANGED <<phase, lost, worker>>,
         \A u \in Users : dm'[u] = "sent" => dm[u] = "sent"
  PROVE  PhaseOK' /\ SweepSparesTheSent'
<1>1. \A r \in Replicas : lost[r] \subseteq Users
  BY DEF QueueInv, IInv, TypeOK
<1> QED
  BY <1>1 DEF QueueInv, PhaseOK, SweepSparesTheSent

LEMMA EnqueueSpares ==
  ASSUME QueueInv, NEW h \in Handlers, Enqueue(h) PROVE PhaseOK' /\ SweepSparesTheSent'
<1>1. IInv /\ UNCHANGED <<phase, lost, worker>>
  BY DEF QueueInv, Enqueue
<1>2. PICK i \in rpc[h].left : UNCHANGED table \/ Overflow(i)
  BY DEF Enqueue
<1>3. i \in Asks /\ asks[i] \in Users
  BY <1>1, <1>2, AskFacts DEF IInv, TypeOK
<1>4. "dm_queue_overflow" \in {"sent"} \cup Reasons
  BY DEF Reasons
<1>5. \A u \in Users : dm'[u] = "sent" => dm[u] = "sent"
  <2>1. CASE UNCHANGED table
    BY <2>1 DEF table
  <2>2. CASE Overflow(i)
    BY <1>1, <1>3, <1>4, <2>2, MarkAsTyped DEF Overflow
  <2> QED
    BY <1>2, <2>1, <2>2
<1> QED
  BY <1>1, <1>5, SweepKept

\* While a worker runs the only replica has no scan.
LEMMA DrainSpares ==
  ASSUME QueueInv, NEW r \in Replicas, Drain(r) PROVE PhaseOK' /\ SweepSparesTheSent'
<1>1. UNCHANGED <<phase, lost>>
  BY DEF Drain, Take, Sent, SendError, Mark
<1>2. phase[r] = "draining" /\ lost[r] = {}
  BY DEF QueueInv, PhaseOK, Drain, Take, WorkerRuns, Sent, SendError, Mark, Sending
<1>3. \A q \in Replicas \ {r} : worker'[q] = worker[q]
  BY DEF QueueInv, IInv, TypeOK, Drain, Take, Process, Sent, SendError, AfterSendError, Mark
<1>4. PhaseOK'
  BY <1>1, <1>2, <1>3 DEF QueueInv, PhaseOK
<1>5. SweepSparesTheSent'
  BY <1>1, <1>2 DEF SweepSparesTheSent
<1> QED
  BY <1>4, <1>5

LEMMA BootSequenceSpares ==
  ASSUME QueueInv, NEW r \in Replicas, BootSequence(r)
  PROVE  PhaseOK' /\ SweepSparesTheSent'
<1>1. /\ phase \in [Replicas -> {"down", "booting", "sweeping", "draining"}]
      /\ lost \in [Replicas -> SUBSET Users]
      /\ UNCHANGED worker /\ IInv
  BY DEF QueueInv, IInv, TypeOK, BootSequence, Boot, SweepList, SweepFails, SweepMark,
         StartWorker
<1>2. CASE Boot(r) \/ SweepFails(r) \/ StartWorker(r)
  <2>1. UNCHANGED <<dm, lost>> /\ lost[r] = {} /\ phase[r] # "draining"
    BY <1>2 DEF QueueInv, PhaseOK, Boot, SweepFails, StartWorker, table
  <2>2. \A q \in Replicas \ {r} : phase'[q] = phase[q]
    BY <1>1, <1>2 DEF Boot, SweepFails, StartWorker
  <2> QED
    BY <1>1, <2>1, <2>2 DEF QueueInv, PhaseOK, SweepSparesTheSent
<1>3. CASE SweepList(r)
  <2>1. /\ UNCHANGED dm /\ phase[r] = "booting" /\ phase' = [phase EXCEPT ![r] = "sweeping"]
        /\ lost' = [lost EXCEPT ![r] = LostRows]
    BY <1>3 DEF SweepList, table
  <2>2. \A u \in LostRows : dm[u] # "sent"
    BY DEF LostRows
  <2> QED
    BY <1>1, <2>1, <2>2 DEF QueueInv, PhaseOK, SweepSparesTheSent
<1>4. CASE SweepMark(r)
  <2>1. PICK u \in lost[r] : /\ MarkAs(u, "lost_on_restart")
                             /\ lost' = [lost EXCEPT ![r] = @ \ {u}]
    BY <1>4 DEF SweepMark
  <2>2. u \in Users /\ "lost_on_restart" \in {"sent"} \cup Reasons /\ UNCHANGED phase
    BY <1>1, <1>4, <2>1 DEF SweepMark, Reasons
  <2>3. \A v \in Users : dm'[v] = "sent" => dm[v] = "sent"
    BY <1>1, <2>1, <2>2, MarkAsTyped
  <2>4. \A q \in Replicas : lost'[q] \subseteq lost[q] /\ lost[q] \subseteq Users
    BY <1>1, <2>1
  <2> QED
    BY <1>1, <2>2, <2>3, <2>4 DEF QueueInv, PhaseOK, SweepSparesTheSent
<1> QED
  BY <1>2, <1>3, <1>4 DEF BootSequence

LEMMA CrashSpares ==
  ASSUME QueueInv, NEW r \in Replicas, Crash(r) PROVE PhaseOK' /\ SweepSparesTheSent'
<1>1. /\ lost'[r] = {} /\ worker'[r] = NoJob /\ UNCHANGED dm
      /\ \A q \in Replicas \ {r} : /\ lost'[q] = lost[q] /\ worker'[q] = worker[q]
                                   /\ phase'[q] = phase[q]
  BY DEF QueueInv, IInv, TypeOK, Crash, table
<1> QED
  BY <1>1 DEF QueueInv, PhaseOK, SweepSparesTheSent

LEMMA NextQueueInv == QueueInv /\ [Next]_vars => QueueInv'
<1> SUFFICES ASSUME QueueInv, [Next]_vars PROVE QueueInv'
  OBVIOUS
<1>1. IInv'
  BY NextIInv DEF QueueInv
<1>2. PhaseOK' /\ SweepSparesTheSent'
  <2>1. ASSUME NEW h \in Handlers, NEW r \in Replicas,
               \/ \E u \in Users : ApproveCommit(h, r, u) \/ RetryDM(h, r, u)
               \/ RetryFailedDms(h, r)
        PROVE  PhaseOK' /\ SweepSparesTheSent'
    BY <2>1, SweepKept DEF ApproveCommit, RetryDM, RetryFailedDms, Ask, table
  <2>2. ASSUME NEW h \in Handlers, Skip(h) PROVE PhaseOK' /\ SweepSparesTheSent'
    BY <2>2, SweepKept DEF Skip, table
  <2>3. CASE Tick \/ UNCHANGED vars
    BY <2>3, SweepKept DEF Tick, vars, table
  <2> QED
    BY <2>1, <2>2, <2>3, EnqueueSpares, DrainSpares, BootSequenceSpares, CrashSpares DEF Next
<1> QED
  BY <1>1, <1>2 DEF QueueInv

-----------------------------------------------------------------------------
(* The theorems.                                                           *)

\* The inductive invariant holds throughout: every ask is in one place, and a worker sends
\* only for an ask that nothing was delivered for.
THEOREM SpecIInv == Spec => []QueueInv
<1>1. Init => QueueInv
  BY InitQueueInv
<1>2. QueueInv /\ [Next]_vars => QueueInv'
  BY NextQueueInv
<1> QED
  BY <1>1, <1>2, PTL DEF Spec

\* Type correctness, with the bound on the FIFO.
THEOREM TypeCorrect == Spec => []TypeOK
<1>1. QueueInv => TypeOK
  BY DEF QueueInv, IInv
<1> QED
  BY <1>1, SpecIInv, PTL

\* The breaker trips at the threshold and closes with an empty window.
THEOREM BreakerCorrect == Spec => []BreakerMatchesWindow
<1>1. QueueInv => BreakerMatchesWindow
  BY DEF QueueInv, IInv
<1> QED
  BY <1>1, SpecIInv, PTL

\* No DM is sent twice for one ask, a row says sent only of a DM that was delivered, and the
\* boot sweep of the only replica has no such row on its list.
THEOREM SendsHonest == Spec => []SendsAreHonest
<1>1. QueueInv => SendsAreHonest
  <2> SUFFICES ASSUME QueueInv PROVE SendsAreHonest
    OBVIOUS
  <2>1. ASSUME NEW i \in Carried, delivered[i] = 1
        PROVE  \E r \in Replicas : worker[r].ask = i /\ ~Sending(r)
    <3>1. PICK r \in Replicas : worker[r] # NoJob /\ i = worker[r].ask
      BY <2>1, CarriedMeans DEF QueueInv, IInv, Unsent
    <3>2. ~Sending(r)
      BY <2>1, <3>1 DEF QueueInv, IInv, Unsent
    <3> QED
      BY <3>1, <3>2
  <2> QED
    BY <2>1 DEF QueueInv, IInv, Unsent, SentIsTrue, SendsAreHonest
<1> QED
  BY <1>1, SpecIInv, PTL

\* No approved player without a word on their DM drops out of requests, queues, workers and
\* restart scans.
THEOREM NobodyIsForgotten == Spec => []NobodyForgotten
<1>1. QueueInv => NobodyForgotten
  BY DEF QueueInv, IInv
<1> QED
  BY <1>1, SpecIInv, PTL
=============================================================================
