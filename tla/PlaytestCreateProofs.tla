------------------------ MODULE PlaytestCreateProofs ------------------------
(***************************************************************************)
(* Theorems about PlaytestCreate for every set of requests and slugs, any  *)
(* limits and batch sizes, and any number of restarts.                     *)
(***************************************************************************)
EXTENDS PlaytestCreate, FiniteSetTheorems, TLAPS

-----------------------------------------------------------------------------
(* The inductive invariant.                                                *)

Jobs == [pc : Places, left : 0..Quantity, knows : SUBSET {"campaign", "item"},
         clean : BOOLEAN, rolledBack : BOOLEAN]

\* The types, with those of the requests apart; that of the history variable comes below.
TypesButJob ==
  /\ rows \subseteq Creates
  /\ campaign \in [Creates -> {"none", "active", "inactive"}]
  /\ item \in [Creates -> {"none", "there", "gone"}]
  /\ linked \in [Creates -> BOOLEAN]
  /\ setup \subseteq Needed
  /\ audit \in [Creates -> [attempted : BOOLEAN, success : BOOLEAN] \cup {None}]
  /\ ready \in BOOLEAN
  /\ boot \in [holder : Creates \cup {None}, step : 1..4]
  /\ lost \in [Creates -> SUBSET {"campaign", "item", "row"}]
  /\ crashes \in 0..MaxCrashes
Types == TypesButJob /\ job \in [Creates -> Jobs]

\* What a request knows at each place, and what of it is in AGS.
Begins == {"idle", "boot", "campaign", "refused"}
Provisions == {"link", "codes", "commit"}
Leaves == {"audit", "failed"}

JobOK(c) ==
  LET j == job[c] IN
  /\ j.pc = "insert" => c \notin AgsCreates
  /\ j.pc \in Begins => campaign[c] = "none" /\ item[c] = "none"
  /\ j.pc \in Begins \cup {"item"} \cup Provisions \cup {"undo_campaign"} => j.clean
  /\ j.pc \in Begins => j.knows = {}
  /\ j.pc = "item" => j.knows = {"campaign"} /\ campaign[c] = "active" /\ item[c] = "none"
  /\ j.pc \in Provisions => /\ j.knows = {"campaign", "item"}
                            /\ campaign[c] = "active" /\ item[c] = "there"
  /\ j.pc \in {"codes", "commit"} => linked[c]
  /\ j.pc \in {"undo_campaign", "undo_item"} => "campaign" \in j.knows
  /\ j.pc \in {"undo_campaign", "undo_item"} /\ item[c] = "there" =>
       "item" \in j.knows \cup lost[c]
  /\ j.pc = "undo_item" => "item" \in j.knows /\ (j.clean => campaign[c] = "inactive")

\* What a request leaves behind when it fails, before and after the audit.
LeavesOK(c) ==
  LET j == job[c] IN
  c \in AgsCreates /\ j.pc \in Leaves /\ j.clean =>
    /\ campaign[c] = "active" => "campaign" \in lost[c]
    /\ item[c] = "there" => "item" \in lost[c]
    /\ j.knows # {} => campaign[c] = "inactive"

AuditOK(c) ==
  audit[c] # None => /\ job[c].pc = "failed"
                     /\ audit[c].success => job[c].clean /\ job[c].knows # {}

\* A row of an AGS playtest whose request was told so stays with what it was built on.
RowOK(c) ==
  c \in rows \cap AgsCreates /\ "row" \notin lost[c] =>
    job[c].pc = "done" /\ campaign[c] = "active" /\ item[c] = "there" /\ linked[c]

RequestOK(c) == JobOK(c) /\ LeavesOK(c) /\ AuditOK(c) /\ RowOK(c)

\* Whoever holds the lock is at the bootstrap, and has done the steps before its own.
BootOK ==
  /\ boot.holder # None => job[boot.holder].pc = "boot"
  /\ ready => boot.holder = None
  /\ boot.holder # None => \A i \in 1..3 : i < boot.step => Steps[i] \in setup

IInv ==
  /\ Types
  /\ \A c \in Creates : RequestOK(c)
  /\ BootOK
  /\ ReadyMeansSetUp

-----------------------------------------------------------------------------

LEMMA StepsAreThree ==
  /\ Len(Steps) = 3
  /\ Needed = {Steps[1], Steps[2], Steps[3]}
  BY DEF Steps, Needed

LEMMA InitIInv == Init => IInv
<1> SUFFICES ASSUME Init PROVE IInv
  OBVIOUS
<1>1. Types
  <2>1. NotStarted \in Jobs
    BY NumbersArePositive DEF NotStarted, Jobs, Places, Ended
  <2>2. job \in [Creates -> Jobs]
    BY <2>1 DEF Init
  <2>3. crashes \in 0..MaxCrashes
    BY CrashesAreBounded DEF Init
  <2>4. boot \in [holder : Creates \cup {None}, step : 1..4]
    BY DEF Init
  <2>5. /\ campaign \in [Creates -> {"none", "active", "inactive"}]
        /\ item \in [Creates -> {"none", "there", "gone"}]
        /\ linked \in [Creates -> BOOLEAN]
        /\ audit \in [Creates -> [attempted : BOOLEAN, success : BOOLEAN] \cup {None}]
        /\ lost \in [Creates -> SUBSET {"campaign", "item", "row"}]
    BY DEF Init
  <2>6. rows \subseteq Creates /\ setup \subseteq Needed /\ ready \in BOOLEAN
    BY PreparedIsSetup DEF Init
  <2> QED
    BY <2>2, <2>3, <2>4, <2>5, <2>6 DEF Types, TypesButJob, Jobs
<1>2. \A c \in Creates : RequestOK(c)
  BY DEF Init, NotStarted, RequestOK, JobOK, LeavesOK, AuditOK, RowOK, Begins, Provisions,
         Leaves
<1>3. BootOK /\ ReadyMeansSetUp
  BY DEF Init, BootOK, ReadyMeansSetUp
<1> QED
  BY <1>1, <1>2, <1>3 DEF IInv

LEMMA TypesApart == Types <=> TypesButJob /\ job \in [Creates -> Jobs]
  BY DEF Types, TypesButJob

LEMMA TypesApartNext == Types' <=> TypesButJob' /\ job' \in [Creates -> Jobs]
  BY DEF Types, TypesButJob

LEMMA JobIsTyped == ASSUME Types, NEW c \in Creates PROVE job[c] \in Jobs
  BY TypesApart

LEMMA MoveTyped ==
  ASSUME Types, NEW c \in Creates, NEW r \in Jobs, job' = [job EXCEPT ![c] = r]
  PROVE  job' \in [Creates -> Jobs]
  BY TypesApart

LEMMA GotoTyped ==
  ASSUME Types, NEW c \in Creates, NEW p \in Places, Goto(c, p)
  PROVE  /\ job' \in [Creates -> Jobs]
         /\ /\ job'[c].pc = p /\ job'[c].knows = job[c].knows
            /\ job'[c].clean = job[c].clean /\ job'[c].rolledBack = job[c].rolledBack
         /\ \A d \in Creates \ {c} : job'[d] = job[d]
<1>1. [job[c] EXCEPT !.pc = p] \in Jobs
  BY JobIsTyped DEF Jobs
<1>2. job' = [job EXCEPT ![c] = [job[c] EXCEPT !.pc = p]]
  BY DEF Goto
<1> QED
  BY <1>1, <1>2, MoveTyped, TypesApart, JobIsTyped DEF Jobs

\* A request is not disturbed by what leaves its own objects alone.
LEMMA OthersKeep ==
  ASSUME NEW c \in Creates, RequestOK(c),
         job'[c] = job[c], campaign'[c] = campaign[c], item'[c] = item[c],
         linked'[c] = linked[c], audit'[c] = audit[c], lost'[c] = lost[c],
         c \in rows' => c \in rows
  PROVE  RequestOK(c)'
  BY DEF RequestOK, JobOK, LeavesOK, AuditOK, RowOK

\* The objects that belong to a request; a step of c leaves those of the others alone.
Keeps(d) == /\ job'[d] = job[d] /\ campaign'[d] = campaign[d] /\ item'[d] = item[d]
            /\ linked'[d] = linked[d] /\ audit'[d] = audit[d] /\ lost'[d] = lost[d]
            /\ d \in rows' => d \in rows

LEMMA OneMoves ==
  ASSUME IInv, Types', BootOK', ReadyMeansSetUp',
         NEW c \in Creates, \A d \in Creates \ {c} : Keeps(d), RequestOK(c)'
  PROVE  IInv'
<1>1. \A d \in Creates : RequestOK(d)'
  BY OthersKeep DEF IInv, Keeps
<1> QED
  BY <1>1 DEF IInv

\* A step of a request that is not at the bootstrap and does not touch it.
LEMMA BootKept ==
  ASSUME IInv, NEW c \in Creates, ~At(c, "boot"), UNCHANGED <<process, setup>>,
         \A d \in Creates \ {c} : job'[d] = job[d]
  PROVE  BootOK' /\ ReadyMeansSetUp'
<1>1. boot.holder # None => boot.holder \in Creates \ {c}
  BY DEF IInv, Types, TypesButJob, BootOK, At
<1> QED
  BY <1>1 DEF IInv, BootOK, ReadyMeansSetUp, process

LEMMA CreatePlaytestStep ==
  ASSUME IInv, NEW c \in Creates, CreatePlaytest(c) PROVE IInv'
<1>1. Types'
  <2>1. PICK p \in {"refused", "boot", "insert"} : Goto(c, p)
    BY DEF CreatePlaytest
  <2>2. Types /\ p \in Places
    BY DEF IInv, Places, Ended
  <2>3. TypesButJob'
    BY <2>2 DEF Types, TypesButJob, CreatePlaytest, platform, tables, process
  <2> QED
    BY <2>1, <2>2, <2>3, GotoTyped, TypesApartNext
<1>2. BootOK' /\ ReadyMeansSetUp'
  BY BootKept DEF IInv, Types, TypesButJob, CreatePlaytest, At, Goto, platform
<1>3. RequestOK(c)'
  BY DEF IInv, Types, TypesButJob, CreatePlaytest, At, Goto, platform, tables, RequestOK, JobOK, LeavesOK,
         AuditOK, RowOK, Begins, Provisions, Leaves
<1>4. \A d \in Creates \ {c} : Keeps(d)
  BY DEF IInv, Types, TypesButJob, CreatePlaytest, Goto, platform, tables, Keeps
<1> QED
  BY <1>1, <1>2, <1>3, <1>4, OneMoves

LEMMA InsertPlainStep ==
  ASSUME IInv, NEW c \in Creates, NEW o \in Outcomes, InsertPlain(c, o) PROVE IInv'
<1> USE DEF InsertPlain, At, NoteLost, platform, process
<1>1. PICK p \in {"done", "failed"} : Goto(c, p)
  OBVIOUS
<1>2. Types /\ p \in Places
  BY <1>1 DEF IInv, Places, Ended
<1>3. TypesButJob'
  BY TypesApart DEF IInv, TypesButJob
<1>4. Types'
  BY <1>1, <1>2, <1>3, GotoTyped, TypesApartNext
<1>5. BootOK' /\ ReadyMeansSetUp'
  BY <1>1, <1>2, GotoTyped, BootKept
<1>6. RequestOK(c)'
  BY <1>1, <1>2, GotoTyped, JobIsTyped
     DEF IInv, Types, TypesButJob, Jobs, RequestOK, JobOK, LeavesOK, AuditOK, RowOK, Begins, Provisions, Leaves
<1>7. \A d \in Creates \ {c} : Keeps(d)
  BY <1>1, <1>2, GotoTyped DEF IInv, Types, TypesButJob, Keeps
<1> QED
  BY <1>4, <1>5, <1>6, <1>7, OneMoves

-----------------------------------------------------------------------------
(* The bootstrap.                                                          *)

LEMMA AlreadyBootstrappedStep ==
  ASSUME IInv, NEW c \in Creates, AlreadyBootstrapped(c) PROVE IInv'
<1> USE DEF AlreadyBootstrapped, At, platform, process, tables
<1>1. Types /\ Goto(c, "campaign") /\ "campaign" \in Places
  BY DEF IInv, Places
<1>2. TypesButJob'
  BY <1>1, TypesApart DEF TypesButJob
<1>3. Types'
  BY <1>1, <1>2, GotoTyped, TypesApartNext
<1>4. BootOK' /\ ReadyMeansSetUp'
  BY DEF IInv, BootOK, ReadyMeansSetUp
<1>5. RequestOK(c)'
  BY <1>1, GotoTyped, JobIsTyped
     DEF IInv, Types, TypesButJob, Jobs, RequestOK, JobOK, LeavesOK, AuditOK, RowOK, Begins, Provisions, Leaves
<1>6. \A d \in Creates \ {c} : Keeps(d)
  BY <1>1, GotoTyped DEF Keeps
<1> QED
  BY <1>3, <1>4, <1>5, <1>6, OneMoves

LEMMA LockBootstrapStep ==
  ASSUME IInv, NEW c \in Creates, LockBootstrap(c) PROVE IInv'
<1> USE DEF LockBootstrap, At, platform, tables
<1>1. TypesButJob'
  BY TypesApart DEF IInv, TypesButJob
<1>2. Types'
  BY <1>1, TypesApart, TypesApartNext DEF IInv
<1>3. BootOK' /\ ReadyMeansSetUp'
  BY DEF IInv, BootOK, ReadyMeansSetUp
<1>4. RequestOK(c)' /\ \A d \in Creates \ {c} : Keeps(d)
  BY OthersKeep DEF IInv, Keeps
<1> QED
  BY <1>2, <1>3, <1>4, OneMoves

LEMMA EnsureStep ==
  ASSUME IInv, NEW c \in Creates, NEW o \in Outcomes, NEW n \in 1..3, Ensure(c, n, o)
  PROVE  IInv'
<1> USE DEF Ensure, tables
<1>1. n <= Len(Steps) /\ Steps[n] \in Needed /\ At(c, "boot")
  BY NoneIsNoCreate DEF IInv, BootOK, At, Steps, Needed
<1>2. Types /\ "audit" \in Places
  BY DEF IInv, Places
<1>3. setup' \subseteq Needed /\ setup \subseteq setup'
  BY <1>1, <1>2 DEF Types, TypesButJob
<1>4. CASE Answered(o)
  <2>1. boot' = [boot EXCEPT !.step = n + 1] /\ UNCHANGED job
    BY <1>4
  <2>2. TypesButJob'
    BY <1>2, <1>3, <2>1, TypesApart DEF TypesButJob
  <2>3. Types'
    BY <1>2, <2>1, <2>2, TypesApart, TypesApartNext
  <2>4. Steps[n] \in setup'
    BY <1>4 DEF Answered, TakesEffect
  <2>5. BootOK' /\ ReadyMeansSetUp'
    BY <1>2, <1>3, <2>1, <2>4 DEF IInv, Types, TypesButJob, BootOK, ReadyMeansSetUp
  <2>6. \A d \in Creates : Keeps(d)
    BY <2>1 DEF Keeps
  <2>7. RequestOK(c)'
    BY <2>6, OthersKeep DEF Keeps, IInv
  <2> QED
    BY <2>3, <2>5, <2>6, <2>7, OneMoves
<1>5. CASE ~Answered(o)
  <2>1. boot' = [holder |-> None, step |-> 1] /\ Goto(c, "audit")
    BY <1>5 DEF LockAfterFailure, Unlocked
  <2>2. TypesButJob'
    BY <1>2, <1>3, <2>1, TypesApart DEF TypesButJob
  <2>3. Types'
    BY <1>2, <2>1, <2>2, GotoTyped, TypesApartNext
  <2>4. BootOK' /\ ReadyMeansSetUp'
    BY <1>2, <1>3, <2>1, <2>3 DEF IInv, Types, TypesButJob, BootOK, ReadyMeansSetUp
  <2>5. RequestOK(c)'
    BY <1>1, <1>2, <2>1, GotoTyped, JobIsTyped
       DEF IInv, At, Jobs, RequestOK, JobOK, LeavesOK, AuditOK, RowOK, Begins, Provisions,
           Leaves
  <2>6. \A d \in Creates \ {c} : Keeps(d)
    BY <1>2, <2>1, GotoTyped DEF Keeps
  <2> QED
    BY <2>3, <2>4, <2>5, <2>6, OneMoves
<1> QED
  BY <1>4, <1>5

LEMMA BootstrapDoneStep ==
  ASSUME IInv, NEW c \in Creates, BootstrapDone(c) PROVE IInv'
<1> USE DEF BootstrapDone, Unlocked, platform, tables
<1>1. At(c, "boot")
  BY NoneIsNoCreate DEF IInv, BootOK, At
<1>2. Types /\ Goto(c, "campaign") /\ "campaign" \in Places
  BY DEF IInv, Places
<1>3. TypesButJob'
  BY <1>2, TypesApart DEF TypesButJob
<1>4. Types'
  BY <1>2, <1>3, GotoTyped, TypesApartNext
<1>5. setup = Needed
  BY NoneIsNoCreate, StepsAreThree DEF IInv, Types, TypesButJob, BootOK
<1>6. BootOK' /\ ReadyMeansSetUp'
  BY <1>5 DEF BootOK, ReadyMeansSetUp
<1>7. RequestOK(c)'
  BY <1>1, <1>2, GotoTyped, JobIsTyped
     DEF IInv, At, Jobs, RequestOK, JobOK, LeavesOK, AuditOK, RowOK, Begins, Provisions, Leaves
<1>8. \A d \in Creates \ {c} : Keeps(d)
  BY <1>2, GotoTyped DEF Keeps
<1> QED
  BY <1>4, <1>6, <1>7, <1>8, OneMoves

-----------------------------------------------------------------------------
(* The provisioning.                                                       *)

\* The record of c becomes r: what is typed and what is where afterwards.
LEMMA MoveTo ==
  ASSUME Types, NEW c \in Creates, NEW p \in Places, NEW l \in 0..Quantity,
         NEW k \in SUBSET {"campaign", "item"}, NEW b \in BOOLEAN, NEW x \in BOOLEAN,
         job' = [job EXCEPT ![c] = [pc |-> p, left |-> l, knows |-> k, clean |-> b,
                                    rolledBack |-> x]]
  PROVE  /\ job' \in [Creates -> Jobs]
         /\ job'[c].pc = p /\ job'[c].knows = k /\ job'[c].clean = b
         /\ \A d \in Creates \ {c} : job'[d] = job[d]
<1>1. [pc |-> p, left |-> l, knows |-> k, clean |-> b, rolledBack |-> x] \in Jobs
  BY DEF Jobs
<1> QED
  BY <1>1, MoveTyped, TypesApart

LEMMA GiveUpTyped ==
  ASSUME Types, NEW c \in Creates, NEW k \in SUBSET {"campaign", "item"}, GiveUp(c, k)
  PROVE  /\ job' \in [Creates -> Jobs]
         /\ job'[c].pc = IF k = {} THEN "audit" ELSE "undo_campaign"
         /\ job'[c].knows = k /\ job'[c].clean = job[c].clean
         /\ \A d \in Creates \ {c} : job'[d] = job[d]
<1> DEFINE p == IF k = {} THEN "audit" ELSE "undo_campaign"
<1>1. job[c] \in Jobs /\ p \in Places /\ 0 \in 0..Quantity
  BY JobIsTyped, NumbersArePositive DEF Places
<1>2. job' = [job EXCEPT ![c].pc = p, ![c].left = 0, ![c].knows = k]
  BY DEF GiveUp
<1> HIDE DEF p
<1>3. job' = [job EXCEPT ![c] = [pc |-> p, left |-> 0, knows |-> k, clean |-> job[c].clean,
                                 rolledBack |-> job[c].rolledBack]]
  <2> DEFINE r1 == [job[c] EXCEPT !.pc = p]
             r2 == [r1 EXCEPT !.left = 0]
  <2>1. r1 = [pc |-> p, left |-> job[c].left, knows |-> job[c].knows,
              clean |-> job[c].clean, rolledBack |-> job[c].rolledBack]
    BY <1>1 DEF Jobs
  <2>2. r2 = [pc |-> p, left |-> 0, knows |-> job[c].knows,
              clean |-> job[c].clean, rolledBack |-> job[c].rolledBack]
    <3> HIDE DEF r1
    <3> QED BY <2>1
  <2>3. job' = [job EXCEPT ![c] = [r2 EXCEPT !.knows = k]]
    BY <1>2, TypesApart
  <2> HIDE DEF r2
  <2>4. [r2 EXCEPT !.knows = k] = [pc |-> p, left |-> 0, knows |-> k,
              clean |-> job[c].clean, rolledBack |-> job[c].rolledBack]
    BY <2>2
  <2> QED
    BY <2>3, <2>4
<1>5. job[c].clean \in BOOLEAN /\ job[c].rolledBack \in BOOLEAN
  BY <1>1 DEF Jobs
<1>4. /\ job' \in [Creates -> Jobs]
      /\ job'[c].pc = p /\ job'[c].knows = k /\ job'[c].clean = job[c].clean
      /\ \A d \in Creates \ {c} : job'[d] = job[d]
  BY <1>1, <1>3, <1>5, MoveTo
<1> QED
  BY <1>4 DEF p

\* What a call of the provisioning or of the cleanup leaves alone.
ByAlone(c) ==
  /\ UNCHANGED <<rows, setup, tables, process, crashes>>
  /\ \A d \in Creates \ {c} :
       /\ job'[d] = job[d] /\ campaign'[d] = campaign[d] /\ item'[d] = item[d]
       /\ linked'[d] = linked[d] /\ lost'[d] = lost[d]

LEMMA CallStep ==
  ASSUME IInv, NEW c \in Creates, ~At(c, "boot"), ByAlone(c),
         job' \in [Creates -> Jobs], TypesButJob', RequestOK(c)'
  PROVE  IInv'
<1>1. Types'
  BY TypesApartNext
<1>2. BootOK' /\ ReadyMeansSetUp'
  BY BootKept DEF ByAlone
<1>3. \A d \in Creates \ {c} : Keeps(d)
  BY DEF ByAlone, tables, Keeps
<1> QED
  BY <1>1, <1>2, <1>3, OneMoves

LEMMA CreateCampaignStep ==
  ASSUME IInv, NEW c \in Creates, NEW o \in Outcomes, CreateCampaign(c, o) PROVE IInv'
<1> USE DEF CreateCampaign, At, NoteLost
<1>1. Types /\ RequestOK(c) /\ job[c] \in Jobs
  BY JobIsTyped DEF IInv
<1>2. TypesButJob'
  BY <1>1, TypesApart DEF TypesButJob, tables, process
<1>3. /\ job' \in [Creates -> Jobs]
      /\ \A d \in Creates \ {c} : job'[d] = job[d]
      /\ job'[c].clean = job[c].clean
      /\ Answered(o) => job'[c].pc = "item" /\ job'[c].knows = {"campaign"}
      /\ ~Answered(o) => job'[c].pc = "audit" /\ job'[c].knows = {}
  <2>1. CASE Answered(o)
    <3>1. job' = [job EXCEPT ![c] = [pc |-> "item", left |-> job[c].left,
                    knows |-> {"campaign"}, clean |-> job[c].clean,
                    rolledBack |-> job[c].rolledBack]]
      BY <1>1, <2>1, TypesApart DEF Jobs
    <3>2. "item" \in Places /\ job[c].left \in 0..Quantity /\ job[c].clean \in BOOLEAN
          /\ job[c].rolledBack \in BOOLEAN /\ {"campaign"} \in SUBSET {"campaign", "item"}
      BY <1>1 DEF Jobs, Places
    <3> QED
      BY <1>1, <2>1, <3>1, <3>2, MoveTo
  <2>2. CASE ~Answered(o)
    BY <1>1, <2>2, GiveUpTyped
  <2> QED
    BY <2>1, <2>2
<1>4. RequestOK(c)'
  BY <1>1, <1>2, <1>3
     DEF Types, TypesButJob, Outcomes, Answered, TakesEffect, tables, RequestOK, JobOK, LeavesOK, AuditOK,
         RowOK, Begins, Provisions, Leaves
<1>5. ByAlone(c)
  BY <1>1, <1>3 DEF Types, TypesButJob, ByAlone, tables
<1> QED
  BY <1>2, <1>3, <1>4, <1>5, CallStep

LEMMA CreateItemStep ==
  ASSUME IInv, NEW c \in Creates, NEW o \in Outcomes, CreateItem(c, o) PROVE IInv'
<1> USE DEF CreateItem, At, NoteLost
<1>1. Types /\ RequestOK(c) /\ job[c] \in Jobs
  BY JobIsTyped DEF IInv
<1>2. TypesButJob'
  BY <1>1, TypesApart DEF TypesButJob, tables, process
<1>3. /\ job' \in [Creates -> Jobs]
      /\ \A d \in Creates \ {c} : job'[d] = job[d]
      /\ job'[c].clean = job[c].clean
      /\ Answered(o) => job'[c].pc = "link" /\ job'[c].knows = {"campaign", "item"}
      /\ ~Answered(o) => job'[c].pc = "undo_campaign" /\ job'[c].knows = {"campaign"}
  <2>1. CASE Answered(o)
    <3>1. job' = [job EXCEPT ![c] = [pc |-> "link", left |-> job[c].left,
                    knows |-> {"campaign", "item"}, clean |-> job[c].clean,
                    rolledBack |-> job[c].rolledBack]]
      BY <1>1, <2>1, TypesApart DEF Jobs
    <3>2. "link" \in Places /\ job[c].left \in 0..Quantity /\ job[c].clean \in BOOLEAN
          /\ job[c].rolledBack \in BOOLEAN
          /\ {"campaign", "item"} \in SUBSET {"campaign", "item"}
      BY <1>1 DEF Jobs, Places
    <3> QED
      BY <1>1, <2>1, <3>1, <3>2, MoveTo
  <2>2. CASE ~Answered(o)
    BY <1>1, <2>2, GiveUpTyped
  <2> QED
    BY <2>1, <2>2
<1>4. RequestOK(c)'
  BY <1>1, <1>2, <1>3
     DEF Types, TypesButJob, Outcomes, Answered, TakesEffect, tables, RequestOK, JobOK, LeavesOK, AuditOK,
         RowOK, Begins, Provisions, Leaves
<1>5. ByAlone(c)
  BY <1>1, <1>3 DEF Types, TypesButJob, ByAlone, tables
<1> QED
  BY <1>2, <1>3, <1>4, <1>5, CallStep

LEMMA LinkItemToCampaignStep ==
  ASSUME IInv, NEW c \in Creates, NEW o \in Outcomes, LinkItemToCampaign(c, o) PROVE IInv'
<1> USE DEF LinkItemToCampaign, AfterLink, At
<1>1. Types /\ RequestOK(c) /\ job[c] \in Jobs /\ "codes" \in Places
  BY JobIsTyped DEF IInv, Places
<1>2. job[c].knows = {"campaign", "item"}
  BY <1>1 DEF RequestOK, JobOK, Provisions
<1>3. TypesButJob'
  BY <1>1, TypesApart DEF TypesButJob, tables, process
<1>4. /\ job' \in [Creates -> Jobs]
      /\ \A d \in Creates \ {c} : job'[d] = job[d]
      /\ job'[c].clean = job[c].clean /\ job'[c].knows = job[c].knows
      /\ job'[c].pc = IF Answered(o) THEN "codes" ELSE "undo_campaign"
  <2>1. CASE Answered(o)
    BY <1>1, <2>1, GotoTyped
  <2>2. CASE ~Answered(o)
    BY <1>1, <1>2, <2>2, GiveUpTyped
  <2> QED
    BY <2>1, <2>2
<1>5. RequestOK(c)'
  BY <1>1, <1>2, <1>3, <1>4
     DEF Types, TypesButJob, Outcomes, Answered, TakesEffect, tables, RequestOK, JobOK, LeavesOK, AuditOK,
         RowOK, Begins, Provisions, Leaves
<1>6. ByAlone(c)
  BY <1>1, <1>4 DEF Types, TypesButJob, ByAlone, tables
<1> QED
  BY <1>3, <1>4, <1>5, <1>6, CallStep

\* The same for an update of two fields of the record.
LEMMA LeftTyped ==
  ASSUME Types, NEW c \in Creates, NEW p \in Places, NEW l \in 0..Quantity,
         job' = [job EXCEPT ![c].pc = p, ![c].left = l]
  PROVE  /\ job' \in [Creates -> Jobs]
         /\ \A d \in Creates \ {c} : job'[d] = job[d]
         /\ job'[c].clean = job[c].clean /\ job'[c].knows = job[c].knows /\ job'[c].pc = p
<1> DEFINE r1 == [job[c] EXCEPT !.pc = p]
           r2 == [r1 EXCEPT !.left = l]
<1>1. job[c] \in Jobs
  BY JobIsTyped
<1>2. r1 \in Jobs /\ r1.pc = p /\ r1.knows = job[c].knows /\ r1.clean = job[c].clean
  BY <1>1 DEF Jobs
<1>3. r2 \in Jobs /\ r2.pc = p /\ r2.knows = job[c].knows /\ r2.clean = job[c].clean
  <2> HIDE DEF r1
  <2> QED BY <1>2 DEF Jobs
<1>4. job' = [job EXCEPT ![c] = r2]
  BY TypesApart
<1> HIDE DEF r2
<1> QED
  BY <1>3, <1>4, MoveTyped, TypesApart

LEMMA RolledBackTyped ==
  ASSUME Types, NEW c \in Creates, NEW p \in Places, NEW x \in BOOLEAN,
         job' = [job EXCEPT ![c].pc = p, ![c].rolledBack = x]
  PROVE  /\ job' \in [Creates -> Jobs]
         /\ \A d \in Creates \ {c} : job'[d] = job[d]
         /\ job'[c].clean = job[c].clean /\ job'[c].knows = job[c].knows /\ job'[c].pc = p
<1> DEFINE r1 == [job[c] EXCEPT !.pc = p]
           r2 == [r1 EXCEPT !.rolledBack = x]
<1>1. job[c] \in Jobs
  BY JobIsTyped
<1>2. r1 \in Jobs /\ r1.pc = p /\ r1.knows = job[c].knows /\ r1.clean = job[c].clean
  BY <1>1 DEF Jobs
<1>3. r2 \in Jobs /\ r2.pc = p /\ r2.knows = job[c].knows /\ r2.clean = job[c].clean
  <2> HIDE DEF r1
  <2> QED BY <1>2 DEF Jobs
<1>4. job' = [job EXCEPT ![c] = r2]
  BY TypesApart
<1> HIDE DEF r2
<1> QED
  BY <1>3, <1>4, MoveTyped, TypesApart

LEMMA CreateCodesStep ==
  ASSUME IInv, NEW c \in Creates, NEW o \in Outcomes, NEW n \in 0..BatchSize,
         CreateCodes(c, n, o)
  PROVE  IInv'
<1> DEFINE want == IF job[c].left < BatchSize THEN job[c].left ELSE BatchSize
           over == n < want \/ job[c].left = n
           p == IF over THEN "commit" ELSE "codes"
           l == IF over THEN 0 ELSE job[c].left - n
<1>1. /\ Types /\ RequestOK(c) /\ job[c] \in Jobs /\ At(c, "codes") /\ n <= want
      /\ UNCHANGED <<platform, tables, process, lost, crashes>>
  BY JobIsTyped DEF IInv, CreateCodes
<1>2. job[c].knows = {"campaign", "item"}
  BY <1>1 DEF At, RequestOK, JobOK, Provisions
<1>3. TypesButJob'
  BY <1>1, TypesApart DEF TypesButJob, platform, tables, process
<1>4. p \in {"codes", "commit"} /\ p \in Places
  BY DEF Places
<1>5. l \in 0..Quantity
  BY <1>1, NumbersArePositive DEF Jobs
<1>6. /\ job' \in [Creates -> Jobs]
      /\ \A d \in Creates \ {c} : job'[d] = job[d]
      /\ job'[c].clean = job[c].clean /\ job'[c].knows = job[c].knows
      /\ job'[c].pc \in {"codes", "commit", "undo_campaign"}
  <2>1. CASE Answered(o)
    <3>1. job' = [job EXCEPT ![c].pc = p, ![c].left = l]
      BY <1>1, <2>1, TypesApart DEF CreateCodes
    <3> HIDE DEF p, l
    <3> QED
      BY <1>1, <1>4, <1>5, <3>1, LeftTyped
  <2>2. CASE ~Answered(o)
    <3>1. GiveUp(c, job[c].knows)
      BY <2>2 DEF CreateCodes
    <3> QED
      BY <1>1, <1>2, <3>1, GiveUpTyped
  <2> QED
    BY <2>1, <2>2
<1>7. RequestOK(c)'
  BY <1>1, <1>2, <1>6
     DEF At, platform, tables, RequestOK, JobOK, LeavesOK, AuditOK, RowOK, Begins, Provisions,
         Leaves
<1>8. ByAlone(c)
  BY <1>1, <1>6 DEF ByAlone, platform, tables
<1> QED
  BY <1>1, <1>3, <1>6, <1>7, <1>8, CallStep DEF At

LEMMA CommitRowStep ==
  ASSUME IInv, NEW c \in Creates, NEW o \in Outcomes, CommitRow(c, o) PROVE IInv'
<1> USE DEF CommitRow, At, NoteLost, platform, process
<1>1. Types /\ RequestOK(c) /\ job[c] \in Jobs /\ "done" \in Places
  BY JobIsTyped DEF IInv, Places, Ended
<1>2. TypesButJob'
  BY <1>1, TypesApart DEF TypesButJob
<1>3. /\ job' \in [Creates -> Jobs]
      /\ \A d \in Creates \ {c} : job'[d] = job[d]
      /\ job'[c].clean = job[c].clean /\ job'[c].knows = job[c].knows
      /\ job'[c].pc = IF SlugFree(c) /\ Answered(o) THEN "done" ELSE "undo_campaign"
  <2>1. CASE SlugFree(c) /\ Answered(o)
    <3>1. Goto(c, "done")
      BY <2>1 DEF Goto
    <3> QED
      BY <1>1, <2>1, <3>1, GotoTyped
  <2>2. CASE ~(SlugFree(c) /\ Answered(o))
    <3>1. job' = [job EXCEPT ![c].pc = "undo_campaign", ![c].rolledBack = TRUE]
      BY <2>2
    <3>2. "undo_campaign" \in Places
      BY DEF Places
    <3> QED
      BY <1>1, <2>2, <3>1, <3>2, RolledBackTyped
  <2> QED
    BY <2>1, <2>2
<1>4. c \in rows' /\ "row" \notin lost'[c] =>
        c \in rows \/ job'[c].pc = "done"
  BY <1>1, <1>3 DEF Types, TypesButJob, Outcomes, Answered, TakesEffect
<1>5. RequestOK(c)'
  BY <1>1, <1>2, <1>3, <1>4
     DEF Types, TypesButJob, RequestOK, JobOK, LeavesOK, AuditOK, RowOK, Begins, Provisions, Leaves
<1>6. \A d \in Creates \ {c} : Keeps(d)
  BY <1>1, <1>3 DEF Types, TypesButJob, Keeps
<1>7. BootOK' /\ ReadyMeansSetUp'
  BY <1>3, BootKept
<1> QED
  BY <1>2, <1>3, <1>5, <1>6, <1>7, OneMoves, TypesApartNext

-----------------------------------------------------------------------------
(* The cleanup and its audit.                                              *)

LEMMA CleanTyped ==
  ASSUME Types, NEW c \in Creates, NEW p \in Places, NEW b \in BOOLEAN,
         job' = [job EXCEPT ![c].pc = p, ![c].clean = b]
  PROVE  /\ job' \in [Creates -> Jobs]
         /\ \A d \in Creates \ {c} : job'[d] = job[d]
         /\ job'[c].clean = b /\ job'[c].knows = job[c].knows /\ job'[c].pc = p
<1> DEFINE r1 == [job[c] EXCEPT !.pc = p]
           r2 == [r1 EXCEPT !.clean = b]
<1>1. job[c] \in Jobs
  BY JobIsTyped
<1>2. r1 \in Jobs /\ r1.pc = p /\ r1.knows = job[c].knows
  BY <1>1 DEF Jobs
<1>3. r2 \in Jobs /\ r2.pc = p /\ r2.knows = job[c].knows /\ r2.clean = b
  <2> HIDE DEF r1
  <2> QED BY <1>2 DEF Jobs
<1>4. job' = [job EXCEPT ![c] = r2]
  BY TypesApart
<1> HIDE DEF r2
<1> QED
  BY <1>3, <1>4, MoveTyped, TypesApart

LEMMA DeleteCampaignStep ==
  ASSUME IInv, NEW c \in Creates, NEW o \in Outcomes, DeleteCampaign(c, o) PROVE IInv'
<1> DEFINE p == IF "item" \in job[c].knows THEN "undo_item" ELSE "audit"
<1> USE DEF DeleteCampaign, At
<1>1. Types /\ RequestOK(c) /\ job[c] \in Jobs /\ p \in Places
  BY JobIsTyped DEF IInv, Places
<1>2. TypesButJob'
  BY <1>1, TypesApart DEF TypesButJob, tables, process
<1>3. Answered(o) \in BOOLEAN
  BY DEF Answered
<1>4. /\ job' \in [Creates -> Jobs]
      /\ \A d \in Creates \ {c} : job'[d] = job[d]
      /\ job'[c].clean = Answered(o) /\ job'[c].knows = job[c].knows
      /\ job'[c].pc = p
  <2>1. job' = [job EXCEPT ![c].pc = p, ![c].clean = Answered(o)]
    OBVIOUS
  <2> HIDE DEF p, DeleteCampaign
  <2> QED
    BY <1>1, <1>3, <2>1, CleanTyped
<1>5. RequestOK(c)'
  <2>1. /\ item[c] = item'[c] /\ lost'[c] = lost[c] /\ rows' = rows /\ audit'[c] = audit[c]
        /\ linked'[c] = linked[c]
        /\ job'[c].clean => campaign'[c] = "inactive"
        /\ ~job'[c].clean => campaign'[c] \in {campaign[c], "inactive"}
    BY <1>1, <1>4 DEF Types, TypesButJob, Answered, TakesEffect, tables
  <2> HIDE DEF DeleteCampaign
  <2>2. At(c, "undo_campaign")
    BY DEF DeleteCampaign
  <2> QED
    BY <1>1, <1>4, <2>1, <2>2
       DEF RequestOK, JobOK, LeavesOK, AuditOK, RowOK, Begins, Provisions, Leaves
<1>6. ByAlone(c)
  BY <1>1, <1>4 DEF Types, TypesButJob, ByAlone, tables
<1> QED
  BY <1>2, <1>4, <1>5, <1>6, CallStep

LEMMA DeleteItemStep ==
  ASSUME IInv, NEW c \in Creates, NEW o \in Outcomes, DeleteItem(c, o) PROVE IInv'
<1> DEFINE b == job[c].clean /\ Answered(o)
<1> USE DEF DeleteItem, At
<1>1. Types /\ RequestOK(c) /\ job[c] \in Jobs /\ "audit" \in Places /\ b \in BOOLEAN
  BY JobIsTyped DEF IInv, Places
<1>2. TypesButJob'
  BY <1>1, TypesApart DEF TypesButJob, tables, process
<1>3. /\ job' \in [Creates -> Jobs]
      /\ \A d \in Creates \ {c} : job'[d] = job[d]
      /\ job'[c].clean = b /\ job'[c].knows = job[c].knows /\ job'[c].pc = "audit"
  <2>1. job' = [job EXCEPT ![c].pc = "audit", ![c].clean = b]
    BY <1>1, TypesApart
  <2> HIDE DEF b, DeleteItem
  <2> QED
    BY <1>1, <2>1, CleanTyped
<1>4. RequestOK(c)'
  BY <1>1, <1>3
     DEF Types, TypesButJob, Answered, TakesEffect, tables, RequestOK, JobOK, LeavesOK, AuditOK, RowOK,
         Begins, Provisions, Leaves
<1>5. ByAlone(c)
  BY <1>1, <1>3 DEF Types, TypesButJob, ByAlone, tables
<1> QED
  BY <1>2, <1>3, <1>4, <1>5, CallStep

LEMMA AuditFailureStep ==
  ASSUME IInv, NEW c \in Creates, NEW o \in Outcomes, AuditFailure(c, o) PROVE IInv'
<1> USE DEF AuditFailure, At, platform
<1>1. Types /\ RequestOK(c) /\ job[c] \in Jobs /\ "failed" \in Places
  BY JobIsTyped DEF IInv, Places, Ended
<1>2. FailureRow(c) \in [attempted : BOOLEAN, success : BOOLEAN]
  BY <1>1 DEF FailureRow, Jobs
<1>3. /\ job' \in [Creates -> Jobs]
      /\ \A d \in Creates \ {c} : job'[d] = job[d]
      /\ job'[c].clean = job[c].clean /\ job'[c].knows = job[c].knows
      /\ job'[c].pc = "failed"
  BY <1>1, GotoTyped
<1>4. TypesButJob'
  BY <1>1, <1>2, TypesApart DEF TypesButJob, process
<1>5. RequestOK(c)'
  BY <1>1, <1>3, <1>4
     DEF Types, TypesButJob, FailureRow, RequestOK, JobOK, LeavesOK, AuditOK, RowOK, Begins, Provisions,
         Leaves
<1>6. \A d \in Creates \ {c} : Keeps(d)
  BY <1>1, <1>3 DEF Types, TypesButJob, Keeps
<1>7. BootOK' /\ ReadyMeansSetUp'
  BY <1>3, BootKept
<1> QED
  BY <1>3, <1>4, <1>5, <1>6, <1>7, OneMoves, TypesApartNext

LEMMA CrashStep == ASSUME IInv, Crash PROVE IInv'
<1> USE DEF Crash, platform, tables, Unlocked
<1>1. Types
  BY DEF IInv
<1>2. \A c \in Creates : /\ job'[c] \in Jobs
                         /\ job'[c] # job[c] => /\ job'[c].pc = "dead"
                                                /\ job[c].pc \notin Ended
  <2> TAKE c \in Creates
  <2>1. job[c] \in Jobs /\ "dead" \in Places
    BY <1>1, JobIsTyped DEF Places, Ended
  <2>2. [job[c] EXCEPT !.pc = "dead"] \in Jobs /\ [job[c] EXCEPT !.pc = "dead"].pc = "dead"
    BY <2>1 DEF Jobs
  <2> QED
    BY <2>1, <2>2
<1>3. job' \in [Creates -> Jobs]
  <2>1. job' = [c \in Creates |-> job'[c]]
    OBVIOUS
  <2> QED
    BY <1>2, <2>1
<1>4. TypesButJob'
  <2>1. crashes' \in 0..MaxCrashes
    BY <1>1, CrashesAreBounded DEF Types, TypesButJob
  <2>2. boot' \in [holder : Creates \cup {None}, step : 1..4]
    OBVIOUS
  <2> QED
    BY <1>1, <2>1, <2>2, TypesApart DEF TypesButJob
<1>5. Types'
  BY <1>3, <1>4, TypesApartNext
<1>6. \A c \in Creates : RequestOK(c)'
  <2> SUFFICES ASSUME NEW c \in Creates PROVE RequestOK(c)'
    OBVIOUS
  <2>1. RequestOK(c)
    BY DEF IInv
  <2>2. CASE job'[c] = job[c]
    BY <2>1, <2>2, OthersKeep
  <2>3. CASE job'[c] # job[c]
    BY <1>2, <2>1, <2>3
       DEF RequestOK, JobOK, LeavesOK, AuditOK, RowOK, Begins, Provisions, Leaves, Ended
  <2> QED
    BY <2>2, <2>3
<1>7. BootOK' /\ ReadyMeansSetUp'
  BY DEF BootOK, ReadyMeansSetUp
<1> QED
  BY <1>5, <1>6, <1>7 DEF IInv

LEMMA NextIInv == IInv /\ [Next]_vars => IInv'
<1> SUFFICES ASSUME IInv, [Next]_vars PROVE IInv'
  OBVIOUS
<1>1. CASE Crash
  BY <1>1, CrashStep
<1>2. ASSUME NEW c \in Creates, CreatePlaytest(c) PROVE IInv'
  BY <1>2, CreatePlaytestStep
<1>3. ASSUME NEW c \in Creates, Step(c) PROVE IInv'
  <2>1. CASE AlreadyBootstrapped(c) \/ LockBootstrap(c) \/ BootstrapDone(c)
    BY <2>1, AlreadyBootstrappedStep, LockBootstrapStep, BootstrapDoneStep
  <2>2. ASSUME NEW o \in Outcomes,
               \/ BootstrapStore(c, o) \/ BootstrapCategory(c, o) \/ BootstrapCurrency(c, o)
        PROVE  IInv'
    BY <2>2, EnsureStep DEF BootstrapStore, BootstrapCategory, BootstrapCurrency
  <2>3. ASSUME NEW o \in Outcomes,
               \/ InsertPlain(c, o) \/ CreateCampaign(c, o) \/ CreateItem(c, o)
               \/ LinkItemToCampaign(c, o) \/ CommitRow(c, o) \/ DeleteCampaign(c, o)
               \/ DeleteItem(c, o) \/ AuditFailure(c, o)
        PROVE  IInv'
    BY <2>3, InsertPlainStep, CreateCampaignStep, CreateItemStep, LinkItemToCampaignStep,
       CommitRowStep, DeleteCampaignStep, DeleteItemStep, AuditFailureStep
  <2>4. ASSUME NEW o \in Outcomes, NEW n \in 0..BatchSize, CreateCodes(c, n, o) PROVE IInv'
    BY <2>4, CreateCodesStep
  <2> QED
    BY <1>3, <2>1, <2>2, <2>3, <2>4 DEF Step
<1>4. CASE UNCHANGED vars
  <2>1. Types' /\ BootOK' /\ ReadyMeansSetUp'
    BY <1>4 DEF vars, platform, tables, process, IInv, Types, TypesButJob, BootOK, ReadyMeansSetUp
  <2>2. \A c \in Creates : RequestOK(c)'
    BY <1>4, OthersKeep DEF vars, platform, tables, IInv
  <2> QED
    BY <2>1, <2>2 DEF IInv
<1> QED
  BY <1>1, <1>2, <1>3, <1>4 DEF Next

-----------------------------------------------------------------------------
(* The limit.  A request that passed the check and has not inserted yet is *)
(* as good as a row: rows and such requests together stay within the limit *)
(* and the overlap.                                                        *)

Inserting == {"insert", "boot", "campaign", "item", "link", "codes", "commit"}
MayInsert == {c \in Creates : job[c].pc \in Inserting}

OverlapOK ==
  /\ busiest \in 0..Cardinality(Creates)
  /\ Cardinality(UnderWay) <= busiest
  /\ Cardinality(rows) + Cardinality(MayInsert) < MaxRows + busiest

CreateInv == IInv /\ OverlapOK

\* The sets that are counted are finite, and so are their successors.
LEMMA SetsAreFinite ==
  /\ IsFiniteSet(MayInsert) /\ IsFiniteSet(UnderWay)
  /\ Cardinality(MayInsert) \in Nat /\ Cardinality(UnderWay) \in Nat
  /\ Cardinality(UnderWay) <= Cardinality(Creates)
  /\ Cardinality(Creates) \in Nat
<1>1. MayInsert \in SUBSET Creates /\ UnderWay \in SUBSET Creates
  BY DEF MayInsert, UnderWay
<1> QED
  BY <1>1, AgsCreatesAreCreates, FS_Subset, FS_CardinalityType

LEMMA SetsAreFiniteNext ==
  /\ IsFiniteSet(MayInsert') /\ IsFiniteSet(UnderWay')
  /\ Cardinality(MayInsert') \in Nat /\ Cardinality(UnderWay') \in Nat
  /\ Cardinality(UnderWay') <= Cardinality(Creates)
<1>1. MayInsert' \in SUBSET Creates /\ UnderWay' \in SUBSET Creates
  BY DEF MayInsert, UnderWay
<1> QED
  BY <1>1, AgsCreatesAreCreates, FS_Subset, FS_CardinalityType

LEMMA RowsAreFinite ==
  ASSUME Types PROVE IsFiniteSet(rows) /\ Cardinality(rows) \in Nat
<1>1. rows \in SUBSET Creates
  BY DEF Types, TypesButJob
<1> QED
  BY <1>1, AgsCreatesAreCreates, FS_Subset, FS_CardinalityType

\* What a step of a request that is under way can do to what is counted: it inserts its own
\* row only when it may, and may no more afterwards.
Advances(c) ==
  /\ job[c].pc \notin Ended \cup {"idle"}
  /\ \A d \in Creates \ {c} : job'[d] = job[d]
  /\ job'[c].pc \in Inserting => job[c].pc \in Inserting /\ rows' = rows
  /\ rows' = rows \/ (rows' = rows \cup {c} /\ job[c].pc \in Inserting)

LEMMA AdvanceOK ==
  ASSUME CreateInv, NEW c \in Creates, Advances(c), UNCHANGED busiest
  PROVE  OverlapOK'
<1>1. MayInsert' \in SUBSET MayInsert /\ UnderWay' \in SUBSET UnderWay
  BY DEF Advances, MayInsert, UnderWay, Inserting, Ended
<1>2. /\ Cardinality(MayInsert') <= Cardinality(MayInsert)
      /\ Cardinality(UnderWay') <= Cardinality(UnderWay)
  BY <1>1, SetsAreFinite, FS_Subset
<1>3. IsFiniteSet(rows) /\ Cardinality(rows) \in Nat
  BY RowsAreFinite DEF CreateInv, IInv
<1>4. CASE rows' = rows
  BY <1>2, <1>3, <1>4, SetsAreFinite, SetsAreFiniteNext, NumbersArePositive
     DEF CreateInv, OverlapOK
<1>5. CASE rows' # rows
  <2>1. Cardinality(rows') <= Cardinality(rows) + 1 /\ Cardinality(rows') \in Nat
    <3>1. rows' = rows \cup {c}
      BY <1>5 DEF Advances
    <3> QED
      BY <1>3, <3>1, FS_AddElement
  <2>2. MayInsert' \in SUBSET (MayInsert \ {c}) /\ c \in MayInsert
    BY <1>1, <1>5 DEF Advances, MayInsert
  <2>3. /\ IsFiniteSet(MayInsert \ {c})
        /\ Cardinality(MayInsert \ {c}) = Cardinality(MayInsert) - 1
    BY <2>2, SetsAreFinite, FS_RemoveElement
  <2>4. Cardinality(MayInsert') <= Cardinality(MayInsert) - 1
    BY <2>2, <2>3, FS_Subset
  <2> QED
    BY <1>2, <1>3, <2>1, <2>4, SetsAreFinite, SetsAreFiniteNext, NumbersArePositive
       DEF CreateInv, OverlapOK
<1> QED
  BY <1>4, <1>5

\* Every step of a request is such a step.
LEMMA StepAdvances == ASSUME IInv, NEW c \in Creates, Step(c) PROVE Advances(c)
<1>1. Types /\ RequestOK(c) /\ job[c] \in Jobs
  BY JobIsTyped DEF IInv
<1> USE DEF Advances, Inserting, Ended, At, tables
<1>2. CASE AlreadyBootstrapped(c)
  BY <1>1, <1>2, GotoTyped DEF AlreadyBootstrapped, Places
<1>3. CASE LockBootstrap(c)
  BY <1>3 DEF LockBootstrap
<1>4. boot.holder = c => job[c].pc = "boot"
  BY NoneIsNoCreate DEF IInv, BootOK
<1>5. CASE BootstrapDone(c)
  BY <1>1, <1>4, <1>5, GotoTyped DEF BootstrapDone, Places
<1>6. ASSUME NEW o \in Outcomes, NEW n \in 1..3, Ensure(c, n, o) PROVE Advances(c)
  <2>1. CASE Answered(o)
    BY <1>4, <1>6, <2>1 DEF Ensure
  <2>2. CASE ~Answered(o)
    BY <1>1, <1>4, <1>6, <2>2, GotoTyped DEF Ensure, Places
  <2> QED
    BY <2>1, <2>2
<1>7. ASSUME NEW o \in Outcomes, InsertPlain(c, o) PROVE Advances(c)
  <2>1. PICK p \in {"done", "failed"} : Goto(c, p)
    BY <1>7 DEF InsertPlain
  <2> QED
    BY <1>1, <1>7, <2>1, GotoTyped DEF InsertPlain, Places
<1>8. ASSUME NEW o \in Outcomes, CreateCampaign(c, o) PROVE Advances(c)
  <2>1. CASE Answered(o)
    <3>1. job' = [job EXCEPT ![c] = [pc |-> "item", left |-> job[c].left,
                    knows |-> {"campaign"}, clean |-> job[c].clean,
                    rolledBack |-> job[c].rolledBack]]
      BY <1>1, <1>8, <2>1, TypesApart DEF CreateCampaign, Jobs
    <3> QED
      BY <1>1, <1>8, <3>1, TypesApart DEF CreateCampaign
  <2>2. CASE ~Answered(o)
    BY <1>1, <1>8, <2>2, GiveUpTyped DEF CreateCampaign
  <2> QED
    BY <2>1, <2>2
<1>9. ASSUME NEW o \in Outcomes, CreateItem(c, o) PROVE Advances(c)
  <2>1. CASE Answered(o)
    <3>1. job' = [job EXCEPT ![c] = [pc |-> "link", left |-> job[c].left,
                    knows |-> {"campaign", "item"}, clean |-> job[c].clean,
                    rolledBack |-> job[c].rolledBack]]
      BY <1>1, <1>9, <2>1, TypesApart DEF CreateItem, Jobs
    <3> QED
      BY <1>1, <1>9, <3>1, TypesApart DEF CreateItem
  <2>2. CASE ~Answered(o)
    BY <1>1, <1>9, <2>2, GiveUpTyped DEF CreateItem
  <2> QED
    BY <2>1, <2>2
<1>10. job[c].knows \in SUBSET {"campaign", "item"}
  BY <1>1 DEF Jobs
<1>11. ASSUME NEW o \in Outcomes, LinkItemToCampaign(c, o) PROVE Advances(c)
  <2>1. CASE Answered(o)
    BY <1>1, <1>11, <2>1, GotoTyped DEF LinkItemToCampaign, AfterLink, Places
  <2>2. CASE ~Answered(o)
    BY <1>1, <1>10, <1>11, <2>2, GiveUpTyped DEF LinkItemToCampaign, AfterLink
  <2> QED
    BY <2>1, <2>2
<1>12. ASSUME NEW o \in Outcomes, NEW n \in 0..BatchSize, CreateCodes(c, n, o)
       PROVE  Advances(c)
  <2>1. CASE Answered(o)
    <3>1. PICK p \in {"codes", "commit"}, l \in 0..Quantity :
            job' = [job EXCEPT ![c].pc = p, ![c].left = l]
      <4> DEFINE want == IF job[c].left < BatchSize THEN job[c].left ELSE BatchSize
                 over == n < want \/ job[c].left = n
                 q == IF over THEN "commit" ELSE "codes"
                 m == IF over THEN 0 ELSE job[c].left - n
      <4>1. job' = [job EXCEPT ![c].pc = q, ![c].left = m]
        BY <1>1, <1>12, <2>1, TypesApart DEF CreateCodes
      <4>2. n <= want
        BY <1>12 DEF CreateCodes
      <4>3. q \in {"codes", "commit"} /\ m \in 0..Quantity
        BY <1>1, <4>2, NumbersArePositive DEF Jobs
      <4> HIDE DEF q, m
      <4> QED
        BY <4>1, <4>3
    <3> QED
      BY <1>1, <1>12, <3>1, LeftTyped DEF CreateCodes, Places
  <2>2. CASE ~Answered(o)
    BY <1>1, <1>10, <1>12, <2>2, GiveUpTyped DEF CreateCodes
  <2> QED
    BY <2>1, <2>2
<1>13. ASSUME NEW o \in Outcomes, CommitRow(c, o) PROVE Advances(c)
  <2>1. /\ \A d \in Creates \ {c} : job'[d] = job[d]
        /\ job'[c].pc \in {"done", "undo_campaign"}
    <3>1. CASE SlugFree(c) /\ Answered(o)
      BY <1>1, <1>13, <3>1, GotoTyped DEF CommitRow, Goto, Places
    <3>2. CASE ~(SlugFree(c) /\ Answered(o))
      BY <1>1, <1>13, <3>2, RolledBackTyped DEF CommitRow, Places
    <3> QED
      BY <3>1, <3>2
  <2> QED
    BY <1>13, <2>1 DEF CommitRow
<1>14. ASSUME NEW o \in Outcomes, DeleteCampaign(c, o) PROVE Advances(c)
  <2>1. PICK p \in {"undo_item", "audit"}, b \in BOOLEAN :
          job' = [job EXCEPT ![c].pc = p, ![c].clean = b]
    BY <1>14 DEF DeleteCampaign, Answered
  <2> QED
    BY <1>1, <1>14, <2>1, CleanTyped DEF DeleteCampaign, Places
<1>15. ASSUME NEW o \in Outcomes, DeleteItem(c, o) PROVE Advances(c)
  <2>1. PICK b \in BOOLEAN : job' = [job EXCEPT ![c].pc = "audit", ![c].clean = b]
    BY <1>1, <1>15, TypesApart DEF DeleteItem, Answered
  <2>2. "audit" \in Places
    BY DEF Places
  <2>3. job'[c].pc = "audit" /\ \A d \in Creates \ {c} : job'[d] = job[d]
    BY <1>1, <2>1, <2>2, CleanTyped
  <2> QED
    BY <1>15, <2>3 DEF DeleteItem
<1>16. ASSUME NEW o \in Outcomes, AuditFailure(c, o) PROVE Advances(c)
  BY <1>1, <1>16, GotoTyped DEF AuditFailure, Places
<1> HIDE DEF Advances, Inserting, Ended, At, tables
<1> QED
  BY <1>2, <1>3, <1>5, <1>6, <1>7, <1>8, <1>9, <1>11, <1>12, <1>13, <1>14, <1>15, <1>16
     DEF Step, BootstrapStore, BootstrapCategory, BootstrapCurrency

\* A request that starts counts the rows first; one that is turned away counts no more.
LEMMA CreatePlaytestOverlap ==
  ASSUME CreateInv, NEW c \in Creates, CreatePlaytest(c) PROVE OverlapOK'
<1>1. IInv /\ Types /\ rows' = rows /\ IsFiniteSet(rows) /\ Cardinality(rows) \in Nat
  BY RowsAreFinite DEF CreateInv, IInv, CreatePlaytest, tables
<1>2. PICK p \in {"refused", "boot", "insert"} :
        Goto(c, p) /\ (p # "refused" => Cardinality(rows) < MaxRows)
  <2>1. CASE AtLimit
    <3>1. Goto(c, "refused")
      BY <2>1 DEF CreatePlaytest
    <3> QED
      BY <3>1
  <2>2. CASE ~AtLimit
    <3>1. Cardinality(rows) < MaxRows
      BY <1>1, <2>2, NumbersArePositive DEF AtLimit
    <3>2. Goto(c, "boot") \/ Goto(c, "insert")
      BY <2>2 DEF CreatePlaytest
    <3> QED
      BY <3>1, <3>2
  <2> QED
    BY <2>1, <2>2
<1>3. p \in Places
  BY DEF Places, Ended
<1>4. \A d \in Creates \ {c} : job'[d] = job[d]
  BY <1>1, <1>2, <1>3, GotoTyped
<1>5. job[c].pc = "idle" /\ job'[c].pc = p
  BY <1>1, <1>2, <1>3, GotoTyped DEF CreatePlaytest, At
<1>6. /\ busiest \in Nat /\ busiest' \in Nat /\ busiest' >= busiest
      /\ busiest' >= Cardinality(UnderWay') /\ busiest' \in 0..Cardinality(Creates)
  BY SetsAreFinite, SetsAreFiniteNext DEF CreatePlaytest, CreateInv, OverlapOK
<1>7. CASE p = "refused"
  <2>1. MayInsert' \in SUBSET MayInsert
    BY <1>4, <1>5, <1>7 DEF MayInsert, Inserting
  <2>2. Cardinality(MayInsert') <= Cardinality(MayInsert)
    BY <2>1, SetsAreFinite, FS_Subset
  <2> QED
    BY <1>1, <1>6, <2>2, SetsAreFinite, SetsAreFiniteNext, NumbersArePositive
       DEF CreateInv, OverlapOK
<1>8. CASE p # "refused"
  <2>1. MayInsert' \in SUBSET UnderWay'
    BY DEF MayInsert, UnderWay, Inserting, Ended
  <2>2. Cardinality(MayInsert') <= Cardinality(UnderWay')
    BY <2>1, SetsAreFiniteNext, FS_Subset
  <2> QED
    BY <1>1, <1>2, <1>6, <1>8, <2>2, SetsAreFinite, SetsAreFiniteNext, NumbersArePositive
       DEF OverlapOK
<1> QED
  BY <1>7, <1>8

LEMMA CrashOverlap == ASSUME CreateInv, Crash PROVE OverlapOK'
<1>1. \A c \in Creates : job'[c] = job[c] \/ job'[c].pc = "dead"
  <2> TAKE c \in Creates
  <2>1. job[c] \in Jobs
    BY JobIsTyped DEF CreateInv, IInv
  <2> QED
    BY <2>1 DEF Crash, Jobs
<1>2. MayInsert' \in SUBSET MayInsert /\ UnderWay' \in SUBSET UnderWay
  BY <1>1 DEF MayInsert, UnderWay, Inserting, Ended
<1>3. /\ Cardinality(MayInsert') <= Cardinality(MayInsert)
      /\ Cardinality(UnderWay') <= Cardinality(UnderWay)
  BY <1>2, SetsAreFinite, FS_Subset
<1>4. Cardinality(rows) \in Nat
  BY RowsAreFinite DEF CreateInv, IInv
<1> QED
  BY <1>3, <1>4, SetsAreFinite, SetsAreFiniteNext, NumbersArePositive
     DEF CreateInv, OverlapOK, Crash, tables

LEMMA InitCreateInv == Init => CreateInv
<1> SUFFICES ASSUME Init PROVE CreateInv
  OBVIOUS
<1>1. MayInsert = {} /\ UnderWay = {} /\ rows = {} /\ busiest = 0
  BY DEF Init, NotStarted, MayInsert, UnderWay, Inserting, Ended
<1>2. Cardinality({}) = 0
  BY FS_EmptySet
<1>3. OverlapOK
  BY <1>1, <1>2, SetsAreFinite, NumbersArePositive DEF OverlapOK
<1> QED
  BY <1>3, InitIInv DEF CreateInv

LEMMA NextCreateInv == CreateInv /\ [Next]_vars => CreateInv'
<1> SUFFICES ASSUME CreateInv, [Next]_vars PROVE CreateInv'
  OBVIOUS
<1>1. IInv /\ IInv'
  BY NextIInv DEF CreateInv
<1>2. ASSUME Crash PROVE OverlapOK'
  BY <1>2, CrashOverlap
<1>3. ASSUME NEW c \in Creates, CreatePlaytest(c) PROVE OverlapOK'
  BY <1>3, CreatePlaytestOverlap
<1>4. ASSUME NEW c \in Creates, Step(c) PROVE OverlapOK'
  BY <1>1, <1>4, StepAdvances, AdvanceOK DEF Step
<1>5. ASSUME UNCHANGED vars PROVE OverlapOK'
  BY <1>5 DEF vars, tables, CreateInv, OverlapOK, MayInsert, UnderWay
<1> QED
  BY <1>1, <1>2, <1>3, <1>4, <1>5 DEF Next, CreateInv

THEOREM SpecIInv == Spec => []CreateInv
  BY InitCreateInv, NextCreateInv, PTL DEF Spec

-----------------------------------------------------------------------------
(* The theorems.                                                           *)

\* Every column, AGS object and local of CreatePlaytest has its type in every reachable
\* state.
THEOREM TypeCorrect == Spec => []TypeOK
<1>1. CreateInv => TypeOK
  BY DEF CreateInv, OverlapOK, IInv, Types, TypesButJob, Jobs, TypeOK
<1> QED
  BY <1>1, SpecIInv, PTL

\* However many requests race for a slug, fail and clean up, an AGS playtest whose creation
\* was answered keeps an active campaign with a linked item (createAGSCampaignPlaytest).
THEOREM LiveRedeemable == Spec => []LiveIsRedeemable
<1>1. CreateInv => LiveIsRedeemable
  BY AgsCreatesAreCreates DEF CreateInv, IInv, RequestOK, RowOK, LiveIsRedeemable
<1> QED
  BY <1>1, SpecIInv, PTL

\* A failed request leaves in AGS only what it never learned of, unless a deletion failed;
\* and its audit row claims a successful cleanup only over that
\* (cleanupAfterCampaignCreateFailure).
THEOREM LeftoversAccounted == Spec => []LeftoversAreAccountedFor
<1>1. CreateInv => LeftoversAreAccountedFor
  <2> SUFFICES ASSUME CreateInv, NEW c \in AgsCreates
               PROVE  /\ job[c].pc = "failed" /\ job[c].clean =>
                           /\ campaign[c] = "active" => "campaign" \in lost[c]
                           /\ item[c] = "there" => "item" \in lost[c]
                      /\ audit[c] # None /\ audit[c].success =>
                           /\ campaign[c] = "inactive"
                           /\ item[c] = "there" => "item" \in lost[c]
    BY DEF LeftoversAreAccountedFor
  <2>1. RequestOK(c)
    BY AgsCreatesAreCreates DEF CreateInv, IInv
  <2> QED
    BY <2>1 DEF RequestOK, LeavesOK, AuditOK, Leaves
<1> QED
  BY <1>1, SpecIInv, PTL

\* agsBootstrap.done is set only over a namespace that has a store, a category and a
\* currency, whichever requests and processes did the steps (ensureAGSBootstrap).
THEOREM ReadySetUp == Spec => []ReadyMeansSetUp
<1>1. CreateInv => ReadyMeansSetUp
  BY DEF CreateInv, IInv
<1> QED
  BY <1>1, SpecIInv, PTL

\* The namespace limit of 100 playtests, checked long before the insert, is passed only by
\* requests that overlap: by at most one row less than the most that ever did, whatever
\* failed, was rolled back or restarted in between (CreatePlaytest, maxNamespacePlayt).
THEOREM BoundedOvershoot == Spec => []OvershootNeedsOverlap
<1>1. CreateInv => OvershootNeedsOverlap
  <2> SUFFICES ASSUME CreateInv, Cardinality(rows) > MaxRows
               PROVE  Cardinality(rows) - MaxRows < busiest
    BY DEF OvershootNeedsOverlap
  <2>1. Cardinality(rows) \in Nat
    BY RowsAreFinite DEF CreateInv, IInv
  <2> QED
    BY <2>1, SetsAreFinite, NumbersArePositive DEF CreateInv, OverlapOK
<1> QED
  BY <1>1, SpecIInv, PTL
=============================================================================
