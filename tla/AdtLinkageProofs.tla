-------------------------- MODULE AdtLinkageProofs --------------------------
(***************************************************************************)
(* Theorems about AdtLinkage for every set of calls, states and builds, in *)
(* any overlap.                                                            *)
(***************************************************************************)
EXTENDS AdtLinkage, FiniteSetTheorems, FunctionTheorems, SequenceTheorems, TLAPS

-----------------------------------------------------------------------------
(* The inductive invariant.                                                *)

Inserters == Completes \cup Recovers
RowType == [state : States \cup {None}, by : Inserters, deletedBy : Unlinks \cup {None}]
CallType == [pc : Places, state : States \cup {None}, row : 0..MaxRows, seen : Nat,
             told : {"no", "yes", "failed"}, build : Builds \cup {None},
             verdict : Builds \cup {None, "OK", "UNAVAILABLE"}]

Types ==
  /\ nonce \in [States -> {"unused", "open", "expired", "gone"}]
  /\ visited \subseteq States
  /\ flag \in BOOLEAN /\ mark \in [by : Unlinks \cup {None}, at : 0..MaxRows]
  /\ rows \in Seq(RowType) /\ Len(rows) <= MaxRows
  /\ build \in Builds /\ health \in {None, "OK", "UNAVAILABLE"}
  /\ gone \subseteq Builds /\ used \subseteq Builds /\ build \in used
  /\ call \in [Calls -> CallType]

\* ADT has had the flag, and whoever cleared it is known.
Flagged == flag \/ mark.by \in Unlinks

RowsOK ==
  /\ \A q, r \in DOMAIN rows : IsLive(q) /\ IsLive(r) => q = r
  /\ \A q, r \in DOMAIN rows : rows[q].by = rows[r].by => q = r
  /\ StateLinksOnce
  /\ \A r \in DOMAIN rows : rows[r].state # None => nonce[rows[r].state] = "gone"
  /\ visited # {} => Flagged
  /\ \A r \in DOMAIN rows : rows[r].state = None => Flagged
  /\ Flagged \/ mark.at = 0

\* A call that may still insert holds a state of its own, or saw the flag.
InserterOK(c) ==
  /\ call[c].pc \in {"idle", "probe", "insert"} => \A r \in DOMAIN rows : rows[r].by # c
  /\ c \in Completes /\ call[c].pc = "insert" =>
       /\ call[c].state \in States /\ nonce[call[c].state] = "gone"
       /\ \A r \in DOMAIN rows : rows[r].state # call[c].state
       /\ \A d \in Completes \ {c} : call[d].pc = "insert" => call[d].state # call[c].state
  /\ c \in Recovers => call[c].state = None
  /\ c \in Recovers /\ call[c].pc = "insert" => Flagged

\* What an unlink has read, what it was told, and which rows it has deleted.
UnlinkOK(c) ==
  /\ call[c].row <= Len(rows) /\ call[c].seen <= Len(rows)
  /\ call[c].pc \in {"idle", "drop", "soft", "audit", "done", "failed"}
  /\ call[c].pc = "idle" => call[c].told = "no" /\ mark.by # c
  /\ call[c].pc = "drop" \/ mark.by = c =>
       /\ call[c].row \in DOMAIN rows
       /\ \A r \in DOMAIN rows : r <= call[c].seen /\ r # call[c].row => ~IsLive(r)
  /\ call[c].pc = "soft" => call[c].told # "no" /\ call[c].row \in DOMAIN rows
  /\ call[c].pc \in {"audit", "done"} => call[c].row \in DOMAIN rows /\ ~IsLive(call[c].row)
  /\ call[c].told = "yes" /\ flag => mark.at >= call[c].row
  /\ \A r \in DOMAIN rows : rows[r].deletedBy = c =>
       call[c].row = r /\ call[c].told # "no" /\ call[c].pc \notin {"idle", "drop"}

ChangeOK(c) == call[c].pc = "update" => call[c].verdict \in Builds

ProbeOK(c) ==
  /\ call[c].pc \in {"issue", "record"} => call[c].build \in used
  /\ call[c].pc = "record" => /\ call[c].verdict \in {"OK", "UNAVAILABLE"}
                              /\ call[c].verdict = "UNAVAILABLE" => call[c].build \in gone

CallOK(c) ==
  /\ c \in Inserters => InserterOK(c)
  /\ c \in Unlinks => UnlinkOK(c)
  /\ c \in Changes => ChangeOK(c)
  /\ c \in Probes => ProbeOK(c)

IInv == Types /\ RowsOK /\ UnavailableMeansGone /\ \A c \in Calls : CallOK(c)

-----------------------------------------------------------------------------
(* How many rows there can be.                                             *)

LEMMA InsertersCounted ==
  /\ IsFiniteSet(Inserters) /\ Cardinality(Inserters) = MaxRows
  /\ MaxRows \in Nat
<1>1. IsFiniteSet(Completes) /\ IsFiniteSet(Recovers)
  <2>1. Completes \in SUBSET Calls /\ Recovers \in SUBSET Calls
    BY DEF Calls
  <2> QED
    BY <2>1, CallsAreDistinct, FS_Subset
<1>2. Completes \cap Recovers = {}
  BY CallsAreDistinct
<1>3. Cardinality({}) = 0
  BY FS_EmptySet
<1>4. Cardinality(Completes) \in Nat /\ Cardinality(Recovers) \in Nat
  BY <1>1, FS_CardinalityType
<1>5. /\ IsFiniteSet(Completes \cup Recovers)
      /\ Cardinality(Completes \cup Recovers) =
           Cardinality(Completes) + Cardinality(Recovers) - Cardinality(Completes \cap Recovers)
  BY <1>1, FS_Union
<1>6. Cardinality(Completes \cup Recovers) = Cardinality(Completes) + Cardinality(Recovers)
  <2>1. Cardinality(Completes \cap Recovers) = 0
    BY <1>2, <1>3
  <2> QED
    BY <1>4, <1>5, <2>1
<1> QED
  BY <1>4, <1>5, <1>6 DEF Inserters, MaxRows

\* An insertion by a call that has no row yet finds room for it.
LEMMA RoomToInsert ==
  ASSUME Types, RowsOK, NEW c \in Inserters, \A r \in DOMAIN rows : rows[r].by # c
  PROVE  Len(rows) + 1 <= MaxRows
<1> DEFINE D == 1..Len(rows)
           T == Inserters \ {c}
           f == [r \in D |-> rows[r].by]
<1>1. Len(rows) \in Nat /\ DOMAIN rows = D /\ \A r \in D : rows[r] \in RowType
  BY DEF Types
<1>2. f \in Injection(D, T)
  <2>1. \A r \in D : rows[r].by \in T
    BY <1>1 DEF RowType
  <2>2. f \in [D -> T]
    BY <2>1
  <2>3. \A q, r \in D : f[q] = f[r] => q = r
    BY <1>1 DEF RowsOK
  <2> HIDE DEF f, D, T
  <2> QED
    BY <2>2, <2>3 DEF Injection, IsInjective
<1>3. IsFiniteSet(T) /\ Cardinality(T) = MaxRows - 1
  BY InsertersCounted, FS_RemoveElement
<1>4. Cardinality(D) = Len(rows)
  <2>1. Cardinality(1..Len(rows)) = IF 1 > Len(rows) THEN 0 ELSE Len(rows) - 1 + 1
    BY <1>1, FS_Interval
  <2> QED
    BY <1>1, <2>1
<1>5. Cardinality(D) <= Cardinality(T)
  <2> HIDE DEF f, D, T
  <2> QED BY <1>2, <1>3, FS_Injection
<1> QED
  BY <1>1, <1>3, <1>4, <1>5, InsertersCounted

-----------------------------------------------------------------------------

LEMMA InitIInv == Init => IInv
<1> SUFFICES ASSUME Init PROVE IInv
  OBVIOUS
<1>1. MaxRows \in Nat
  BY InsertersCounted
<1>2. NotStarted \in CallType /\ [NotStarted EXCEPT !.pc = "failed"] \in CallType
  BY <1>1 DEF NotStarted, CallType, Places
<1>3. call \in [Calls -> CallType]
  <2>1. PICK load \in Loads : call = [c \in Calls |-> IF c \in load THEN NotStarted
                                       ELSE [NotStarted EXCEPT !.pc = "failed"]]
    BY DEF Init
  <2> QED
    BY <1>2, <2>1
<1>4. \A c \in Calls : /\ call[c].pc \in {"idle", "failed"} /\ call[c].state = None
                       /\ call[c].row = 0 /\ call[c].seen = 0 /\ call[c].told = "no"
  BY DEF Init, NotStarted
<1>5. rows \in Seq(RowType) /\ Len(rows) = 0 /\ DOMAIN rows = {}
  BY DEF Init
<1>6. Types
  BY <1>1, <1>3, <1>5, FirstIsABuild DEF Init, Types
<1>7. UnavailableMeansGone
  BY CallsAreDistinct DEF Init, UnavailableMeansGone
<1>8. RowsOK
  BY <1>5 DEF Init, RowsOK, StateLinksOnce
<1>9. ASSUME NEW c \in Calls PROVE CallOK(c)
  <2>1. InserterOK(c)
    BY <1>4, <1>5 DEF InserterOK
  <2>2. UnlinkOK(c)
    <3>1. mark.by # c
      BY CallsAreDistinct DEF Init
    <3> QED
      BY <1>4, <1>5, <3>1 DEF UnlinkOK
  <2>3. ChangeOK(c) /\ ProbeOK(c)
    BY <1>4 DEF ChangeOK, ProbeOK
  <2> QED
    BY <2>1, <2>2, <2>3 DEF CallOK
<1> QED
  BY <1>6, <1>7, <1>8, <1>9 DEF IInv

\* A call moves; the others stay.
Moves(c) == \A d \in Calls \ {c} : call'[d] = call[d]

LEMMA MoveTyped ==
  ASSUME Types, NEW c \in Calls, NEW r \in CallType, call' = [call EXCEPT ![c] = r]
  PROVE  call' \in [Calls -> CallType] /\ call'[c] = r /\ Moves(c)
  BY DEF Types, Moves

\* Everything of a call but its place.
SameButPc(r, q) == /\ r.state = q.state /\ r.row = q.row /\ r.seen = q.seen
                   /\ r.told = q.told /\ r.build = q.build /\ r.verdict = q.verdict

LEMMA GotoTyped ==
  ASSUME Types, NEW c \in Calls, NEW p \in Places, Goto(c, p)
  PROVE  /\ call' \in [Calls -> CallType] /\ call'[c].pc = p /\ SameButPc(call'[c], call[c])
         /\ Moves(c)
<1> DEFINE r == [call[c] EXCEPT !.pc = p]
<1>1. call[c] \in CallType
  BY DEF Types
<1>2. r \in CallType /\ r.pc = p /\ SameButPc(r, call[c])
  BY <1>1 DEF CallType, SameButPc
<1>3. call' = [call EXCEPT ![c] = r]
  BY DEF Goto
<1> HIDE DEF r
<1> QED
  BY <1>2, <1>3, MoveTyped

\* A step that changes nothing but one call, and does not bring it to an insertion.
LEMMA CallStep ==
  ASSUME IInv, NEW c \in Calls, UNCHANGED <<atADT, linking, playtest>>,
         call' \in [Calls -> CallType], Moves(c),
         call'[c].pc # "insert" \/ c \notin Completes, CallOK(c)'
  PROVE  IInv'
<1> USE DEF atADT, linking, playtest
<1>1. Types'
  BY DEF IInv, Types
<1>2. RowsOK' /\ UnavailableMeansGone'
  BY DEF IInv, RowsOK, IsLive, StateLinksOnce, Flagged, UnavailableMeansGone
<1>3. ASSUME NEW d \in Calls \ {c} PROVE CallOK(d)'
  <2>1. CallOK(d) /\ call'[d] = call[d]
    BY DEF IInv, Moves
  <2>2. d \in Inserters => InserterOK(d)'
    <3>1. \A e \in Completes : call'[e] = call[e] \/ call'[e].pc # "insert"
      BY DEF Moves, Calls
    <3> QED
      BY <2>1, <3>1 DEF CallOK, InserterOK, Flagged
  <2>3. d \in Unlinks => UnlinkOK(d)'
    BY <2>1 DEF CallOK, UnlinkOK, IsLive
  <2>4. (d \in Changes => ChangeOK(d)') /\ (d \in Probes => ProbeOK(d)')
    BY <2>1 DEF CallOK, ChangeOK, ProbeOK
  <2> QED
    BY <2>2, <2>3, <2>4 DEF CallOK
<1> QED
  BY <1>1, <1>2, <1>3 DEF IInv

LEMMA ClassesApart ==
  /\ \A c \in Inserters : c \notin Unlinks \cup Changes \cup Probes
  /\ \A c \in Unlinks : c \notin Inserters \cup Changes \cup Probes
  /\ \A c \in Changes : c \notin Inserters \cup Unlinks \cup Probes
  /\ \A c \in Probes : c \notin Inserters \cup Unlinks \cup Changes
  /\ \A c \in Completes : c \notin Recovers
  /\ Inserters \cup Unlinks \cup Changes \cup Probes = Calls
  /\ None \notin Calls \cup States \cup Builds
  BY CallsAreDistinct DEF Inserters, Calls

-----------------------------------------------------------------------------
(* Steps of a single call.                                                 *)

LEMMA GetExistingStep ==
  ASSUME IInv, NEW c \in Completes, NEW o \in Outcomes, GetExisting(c, o) PROVE IInv'
<1>1. PICK p \in {"failed", "done"} : Goto(c, p)
  BY DEF GetExisting, OnAnswer
<1>2. c \in Calls /\ p \in Places /\ Types
  BY <1>1 DEF Calls, Places, IInv
<1>3. /\ call' \in [Calls -> CallType] /\ call'[c].pc = p /\ SameButPc(call'[c], call[c])
      /\ Moves(c)
  BY <1>1, <1>2, GotoTyped
<1>4. CallOK(c)'
  BY <1>1, <1>2, <1>3, ClassesApart DEF Inserters, CallOK, InserterOK
<1> QED
  BY <1>1, <1>2, <1>3, <1>4, CallStep DEF GetExisting

LEMMA AppendAuditStep ==
  ASSUME IInv, NEW c \in Completes \cup Recovers \cup Unlinks, NEW o \in Outcomes,
         AppendAudit(c, o)
  PROVE  IInv'
<1>1. c \in Calls /\ "done" \in Places /\ Types /\ CallOK(c)
  BY DEF Calls, Places, IInv
<1>2. /\ call' \in [Calls -> CallType] /\ call'[c].pc = "done" /\ SameButPc(call'[c], call[c])
      /\ Moves(c)
  BY <1>1, GotoTyped DEF AppendAudit
<1>3. UNCHANGED <<atADT, linking, playtest>> /\ call[c].pc = "audit"
  BY DEF AppendAudit, At
<1>4. c \in Inserters => InserterOK(c)'
  BY <1>1, <1>2, <1>3 DEF CallOK, InserterOK, SameButPc
<1>5. c \in Unlinks => UnlinkOK(c)'
  BY <1>1, <1>2, <1>3
     DEF CallOK, UnlinkOK, SameButPc, IsLive, atADT, linking
<1>6. CallOK(c)'
  BY <1>4, <1>5, ClassesApart DEF CallOK, Inserters
<1> QED
  BY <1>1, <1>2, <1>3, <1>6, CallStep

LEMMA UnlinkADTStep ==
  ASSUME IInv, NEW c \in Unlinks, NEW r \in DOMAIN rows, UnlinkADT(c, r) PROVE IInv'
<1> DEFINE p == AfterRead(r)
           r1 == [call[c] EXCEPT !.pc = p]
           r2 == [r1 EXCEPT !.row = r]
           r3 == [r2 EXCEPT !.seen = Len(rows)]
<1>1. /\ c \in Calls /\ Types /\ CallOK(c) /\ UnlinkOK(c) /\ call[c] \in CallType
      /\ Len(rows) \in Nat /\ DOMAIN rows = 1..Len(rows) /\ MaxRows \in Nat
  BY InsertersCounted DEF Calls, IInv, Types, CallOK
<1>2. p = (IF IsLive(r) THEN "drop" ELSE "done") /\ p \in Places
  BY DEF AfterRead, Places
<1>3. call' = [call EXCEPT ![c] = r3]
  BY <1>1 DEF UnlinkADT, Types
<1>4. UNCHANGED <<atADT, linking, playtest>> /\ call[c].pc = "idle"
  BY DEF UnlinkADT, At
<1> HIDE DEF p
<1>5. r1 \in CallType /\ r1.pc = p /\ r1.told = call[c].told
  BY <1>1, <1>2 DEF CallType
<1>6. r2 \in CallType /\ r2.pc = p /\ r2.told = call[c].told /\ r2.row = r
  <2>1. r \in 0..MaxRows
    BY <1>1 DEF Types
  <2> HIDE DEF r1
  <2> QED BY <1>5, <2>1 DEF CallType
<1>7. r3 \in CallType /\ r3.pc = p /\ r3.told = call[c].told /\ r3.row = r /\ r3.seen = Len(rows)
  <2> HIDE DEF r2
  <2> QED BY <1>1, <1>6 DEF CallType
<1> HIDE DEF r3
<1>8. call' \in [Calls -> CallType] /\ call'[c] = r3 /\ Moves(c)
  BY <1>1, <1>3, <1>7, MoveTyped
<1>9. UnlinkOK(c)'
  <2>1. call[c].told = "no" /\ mark.by # c /\ \A q \in DOMAIN rows : rows[q].deletedBy # c
    BY <1>1, <1>4 DEF UnlinkOK
  <2>2. IsLive(r) => \A q \in DOMAIN rows : q # r => ~IsLive(q)
    BY DEF IInv, RowsOK
  <2> QED
    BY <1>1, <1>2, <1>4, <1>7, <1>8, <2>1, <2>2
       DEF UnlinkOK, IsLive, atADT, linking
<1>10. CallOK(c)'
  BY <1>9, ClassesApart DEF CallOK
<1>11. call'[c].pc # "insert"
  BY <1>2, <1>7, <1>8
<1> QED
  BY <1>1, <1>4, <1>8, <1>10, <1>11, CallStep

LEMMA RecoverStep ==
  ASSUME IInv, NEW c \in Recovers, RecoverADTLinkage(c) PROVE IInv'
<1>1. PICK p \in {"failed", "probe"} : Goto(c, p)
  BY DEF RecoverADTLinkage
<1>2. c \in Calls /\ p \in Places /\ Types /\ CallOK(c) /\ c \in Inserters
  BY <1>1 DEF Calls, Places, IInv, Inserters
<1>3. /\ call' \in [Calls -> CallType] /\ call'[c].pc = p /\ SameButPc(call'[c], call[c])
      /\ Moves(c)
  BY <1>1, <1>2, GotoTyped
<1>4. UNCHANGED <<atADT, linking, playtest>> /\ call[c].pc = "idle"
  BY DEF RecoverADTLinkage, At
<1>5. InserterOK(c)'
  BY <1>1, <1>2, <1>3, <1>4, ClassesApart DEF CallOK, InserterOK, SameButPc, linking
<1>6. CallOK(c)'
  BY <1>2, <1>5, ClassesApart DEF CallOK
<1> QED
  BY <1>1, <1>2, <1>3, <1>4, <1>6, CallStep

LEMMA ListGamesStep ==
  ASSUME IInv, NEW c \in Recovers, NEW o \in Outcomes, ListGames(c, o) PROVE IInv'
<1>1. PICK p \in {"failed", "insert"} : Goto(c, p) /\ (p = "insert" => flag)
  BY DEF ListGames
<1>2. c \in Calls /\ p \in Places /\ Types /\ CallOK(c) /\ c \in Inserters
  BY <1>1 DEF Calls, Places, IInv, Inserters
<1>3. /\ call' \in [Calls -> CallType] /\ call'[c].pc = p /\ SameButPc(call'[c], call[c])
      /\ Moves(c)
  BY <1>1, <1>2, GotoTyped
<1>4. UNCHANGED <<atADT, linking, playtest>> /\ call[c].pc = "probe"
  BY DEF ListGames, At
<1>5. InserterOK(c)'
  BY <1>1, <1>2, <1>3, <1>4, ClassesApart
     DEF CallOK, InserterOK, SameButPc, linking, atADT, Flagged
<1>6. CallOK(c)'
  BY <1>2, <1>5, ClassesApart DEF CallOK
<1>7. c \notin Completes
  BY ClassesApart
<1> QED
  BY <1>1, <1>2, <1>3, <1>4, <1>6, <1>7, CallStep

LEMMA ChangeADTBuildStep ==
  ASSUME IInv, NEW c \in Changes, ChangeADTBuild(c) PROVE IInv'
<1> DEFINE r1 == [call[c] EXCEPT !.pc = "linkage"]
           r2 == [r1 EXCEPT !.build = build]
<1>1. c \in Calls /\ Types /\ call[c] \in CallType
  BY DEF Calls, IInv, Types
<1>2. call' = [call EXCEPT ![c] = r2] /\ UNCHANGED <<atADT, linking, playtest>>
  BY <1>1 DEF ChangeADTBuild, Types
<1>3. r1 \in CallType /\ r1.pc = "linkage"
  BY <1>1 DEF CallType, Places
<1>4. r2 \in CallType /\ r2.pc = "linkage" /\ r2.build = build
  <2>1. build \in Builds
    BY <1>1 DEF Types
  <2> HIDE DEF r1
  <2> QED BY <1>3, <2>1 DEF CallType
<1> HIDE DEF r2
<1>5. call' \in [Calls -> CallType] /\ call'[c] = r2 /\ Moves(c)
  BY <1>1, <1>2, <1>4, MoveTyped
<1>6. ChangeOK(c)'
  BY <1>1, <1>2, <1>4, <1>5 DEF ChangeOK, playtest, Types
<1>7. CallOK(c)'
  BY <1>6, ClassesApart DEF CallOK
<1> QED
  BY <1>1, <1>2, <1>4, <1>5, <1>7, CallStep

LEMMA ReadBuildStep ==
  ASSUME IInv, NEW c \in Probes, ReadBuild(c) PROVE IInv'
<1> DEFINE r1 == [call[c] EXCEPT !.pc = "issue"]
           r2 == [r1 EXCEPT !.build = build]
<1>1. c \in Calls /\ Types /\ call[c] \in CallType
  BY DEF Calls, IInv, Types
<1>2. call' = [call EXCEPT ![c] = r2] /\ UNCHANGED <<atADT, linking, playtest>>
  BY <1>1 DEF ReadBuild, Types
<1>3. r1 \in CallType /\ r1.pc = "issue"
  BY <1>1 DEF CallType, Places
<1>4. r2 \in CallType /\ r2.pc = "issue" /\ r2.build = build
  <2>1. build \in Builds
    BY <1>1 DEF Types
  <2> HIDE DEF r1
  <2> QED BY <1>3, <2>1 DEF CallType
<1> HIDE DEF r2
<1>5. call' \in [Calls -> CallType] /\ call'[c] = r2 /\ Moves(c)
  BY <1>1, <1>2, <1>4, MoveTyped
<1>6. ProbeOK(c)'
  BY <1>1, <1>2, <1>4, <1>5 DEF ProbeOK, playtest, Types
<1>7. CallOK(c)'
  BY <1>6, ClassesApart DEF CallOK
<1> QED
  BY <1>1, <1>2, <1>4, <1>5, <1>7, CallStep

LEMMA FindLinkageStep ==
  ASSUME IInv, NEW c \in Changes, NEW o \in Outcomes, FindLinkage(c, o) PROVE IInv'
<1>1. PICK p \in {"failed", "list"} : Goto(c, p)
  BY DEF FindLinkage, OnAnswer
<1>2. c \in Calls /\ p \in Places /\ Types
  BY <1>1 DEF Calls, Places, IInv
<1>3. /\ call' \in [Calls -> CallType] /\ call'[c].pc = p /\ SameButPc(call'[c], call[c])
      /\ Moves(c)
  BY <1>1, <1>2, GotoTyped
<1>4. CallOK(c)'
  BY <1>1, <1>3, ClassesApart DEF CallOK, ChangeOK
<1> QED
  BY <1>1, <1>2, <1>3, <1>4, CallStep DEF FindLinkage

LEMMA AuditBuildChangeStep ==
  ASSUME IInv, NEW c \in Changes, NEW o \in Outcomes, AuditBuildChange(c, o) PROVE IInv'
<1>1. c \in Calls /\ "done" \in Places /\ Types
  BY DEF Calls, Places, IInv
<1>2. /\ call' \in [Calls -> CallType] /\ call'[c].pc = "done" /\ SameButPc(call'[c], call[c])
      /\ Moves(c)
  BY <1>1, GotoTyped DEF AuditBuildChange
<1>3. CallOK(c)'
  BY <1>2, ClassesApart DEF CallOK, ChangeOK
<1> QED
  BY <1>1, <1>2, <1>3, CallStep DEF AuditBuildChange

\* A verdict of ADT is noted, about a build or on one.
LEMMA VerdictTyped ==
  ASSUME Types, NEW c \in Calls, NEW p \in Places,
         NEW v \in Builds \cup {None, "OK", "UNAVAILABLE"},
         call' = [call EXCEPT ![c].pc = p, ![c].verdict = v]
  PROVE  /\ call' \in [Calls -> CallType] /\ Moves(c)
         /\ call'[c].pc = p /\ call'[c].verdict = v /\ call'[c].build = call[c].build
<1> DEFINE r1 == [call[c] EXCEPT !.pc = p]
           r2 == [r1 EXCEPT !.verdict = v]
<1>1. call[c] \in CallType
  BY DEF Types
<1>2. r1 \in CallType /\ r1.pc = p /\ r1.build = call[c].build
  BY <1>1 DEF CallType
<1>3. r2 \in CallType /\ r2.pc = p /\ r2.build = call[c].build /\ r2.verdict = v
  <2> HIDE DEF r1
  <2> QED BY <1>2 DEF CallType
<1>4. call' = [call EXCEPT ![c] = r2]
  BY DEF Types
<1> HIDE DEF r2
<1> QED
  BY <1>3, <1>4, MoveTyped

LEMMA ListBuildsStep ==
  ASSUME IInv, NEW c \in Changes, NEW b \in Builds, NEW o \in Outcomes, ListBuilds(c, b, o)
  PROVE  IInv'
<1>1. PICK p \in {"failed", "update"} : call' = [call EXCEPT ![c].pc = p, ![c].verdict = b]
  BY DEF ListBuilds
<1>2. c \in Calls /\ p \in Places /\ Types
  BY <1>1 DEF Calls, Places, IInv
<1>3. /\ call' \in [Calls -> CallType] /\ Moves(c)
      /\ call'[c].pc = p /\ call'[c].verdict = b /\ call'[c].build = call[c].build
  BY <1>1, <1>2, VerdictTyped
<1>4. CallOK(c)'
  BY <1>3, ClassesApart DEF CallOK, ChangeOK
<1> QED
  BY <1>1, <1>2, <1>3, <1>4, CallStep DEF ListBuilds

LEMMA IssueDownloadURLStep ==
  ASSUME IInv, NEW c \in Probes, NEW o \in Outcomes, IssueDownloadURL(c, o) PROVE IInv'
<1> DEFINE v == Verdict(call[c].build, o)
<1>1. /\ v \in {None, "OK", "UNAVAILABLE"}
      /\ v = "UNAVAILABLE" => call[c].build \in gone
  BY CallsAreDistinct DEF Verdict
<1>2. PICK p \in {"failed", "record"} :
        call' = [call EXCEPT ![c].pc = p, ![c].verdict = v] /\ (p = "record" => v # None)
  BY DEF IssueDownloadURL
<1>3. c \in Calls /\ p \in Places /\ Types /\ ProbeOK(c) /\ call[c].pc = "issue"
      /\ UNCHANGED <<atADT, linking, playtest>>
  BY <1>2 DEF Calls, Places, IInv, CallOK, IssueDownloadURL, At
<1> HIDE DEF v
<1>4. /\ call' \in [Calls -> CallType] /\ Moves(c)
      /\ call'[c].pc = p /\ call'[c].verdict = v /\ call'[c].build = call[c].build
  BY <1>1, <1>2, <1>3, VerdictTyped
<1>5. ProbeOK(c)'
  BY <1>1, <1>2, <1>3, <1>4 DEF ProbeOK, atADT, playtest
<1>6. CallOK(c)'
  BY <1>5, ClassesApart DEF CallOK
<1> QED
  BY <1>2, <1>3, <1>4, <1>6, CallStep

-----------------------------------------------------------------------------
(* Steps of the environment.                                               *)

\* Nothing a call relies on gets worse.
LEMMA CallsKeep ==
  ASSUME IInv, UNCHANGED <<rows, call>>, visited \subseteq visited', used \subseteq used',
         gone \subseteq gone', mark'.by \in Unlinks => mark' = mark,
         \A s \in States : nonce[s] = "gone" => nonce'[s] = "gone",
         Flagged => Flagged',
         \A c \in Unlinks : call[c].told = "yes" =>
           (flag' => mark'.at >= call[c].row)
  PROVE  \A c \in Calls : CallOK(c)'
<1> SUFFICES ASSUME NEW c \in Calls PROVE CallOK(c)'
  OBVIOUS
<1>1. CallOK(c)
  BY DEF IInv
<1>2. c \in Inserters => InserterOK(c)'
  BY <1>1 DEF IInv, Types, CallType, CallOK, InserterOK, Calls
<1>3. c \in Unlinks => UnlinkOK(c)'
  BY <1>1 DEF CallOK, UnlinkOK, IsLive
<1>4. (c \in Changes => ChangeOK(c)') /\ (c \in Probes => ProbeOK(c)')
  BY <1>1 DEF CallOK, ChangeOK, ProbeOK
<1> QED
  BY <1>2, <1>3, <1>4 DEF CallOK

LEMMA RowsTyped ==
  ASSUME Types
  PROVE  /\ Len(rows) \in Nat /\ DOMAIN rows = 1..Len(rows)
         /\ \A r \in DOMAIN rows : rows[r] \in RowType
  BY DEF Types

LEMMA StartADTLinkStep ==
  ASSUME IInv, NEW s \in States, StartADTLink(s) \/ Expire(s) PROVE IInv'
<1> USE DEF StartADTLink, Expire, atADT, playtest
<1>1. /\ nonce' \in [States -> {"unused", "open", "expired", "gone"}]
      /\ \A t \in States : nonce[t] = "gone" => nonce'[t] = "gone"
      /\ UNCHANGED <<flag, mark, gone, visited, rows, call, build, health, used>>
  BY DEF IInv, Types
<1> HIDE DEF StartADTLink, Expire
<1>2. Types'
  BY <1>1 DEF IInv, Types
<1>3. Flagged' = Flagged
  BY <1>1 DEF Flagged
<1>4. \A r \in DOMAIN rows : rows[r].state \in States \cup {None}
  BY RowsTyped DEF IInv, RowType
<1>5. RowsOK' /\ UnavailableMeansGone'
  BY <1>1, <1>3, <1>4 DEF IInv, RowsOK, IsLive, StateLinksOnce, UnavailableMeansGone
<1>6. \A c \in Calls : CallOK(c)'
  BY <1>1, <1>3, CallsKeep DEF IInv, CallOK, UnlinkOK, Calls
<1> QED
  BY <1>2, <1>5, <1>6 DEF IInv

LEMMA VisitADTStep ==
  ASSUME IInv, NEW s \in States, VisitADT(s) PROVE IInv'
<1> USE DEF VisitADT
<1>1. Types /\ Len(rows) \in Nat /\ MaxRows \in Nat
  BY InsertersCounted DEF IInv, Types
<1>2. Types'
  BY <1>1 DEF Types, playtest
<1>3. Flagged'
  BY DEF Flagged
<1>4. RowsOK' /\ UnavailableMeansGone'
  BY <1>3 DEF IInv, RowsOK, IsLive, StateLinksOnce, UnavailableMeansGone, playtest
<1>5. mark'.by \notin Unlinks
  BY ClassesApart
<1>6. \A c \in Unlinks : mark'.at >= call[c].row
  BY <1>1 DEF IInv, CallOK, UnlinkOK, Calls
<1>7. \A c \in Calls : CallOK(c)'
  BY <1>3, <1>5, <1>6, CallsKeep DEF playtest
<1> QED
  BY <1>2, <1>4, <1>7 DEF IInv

LEMMA LoseBuildStep ==
  ASSUME IInv, NEW b \in Builds, LoseBuild(b) PROVE IInv'
<1> USE DEF LoseBuild, linking, playtest
<1>1. Types'
  BY DEF IInv, Types
<1>2. RowsOK' /\ UnavailableMeansGone'
  BY DEF IInv, RowsOK, IsLive, StateLinksOnce, UnavailableMeansGone, Flagged
<1>3. Flagged' = Flagged
  BY DEF Flagged
<1>4. \A c \in Calls : CallOK(c)'
  BY <1>3, CallsKeep DEF IInv, CallOK, UnlinkOK, Calls
<1> QED
  BY <1>1, <1>2, <1>4 DEF IInv

-----------------------------------------------------------------------------
(* Steps of a call on what it shares.                                      *)

\* The others, when the rows stay and nothing they rely on gets worse.
LEMMA OthersKeep ==
  ASSUME IInv, NEW c \in Calls, Moves(c), UNCHANGED rows, visited \subseteq visited',
         used \subseteq used', gone \subseteq gone',
         mark' = mark \/ mark'.by = c,
         \A s \in States : nonce[s] = "gone" => nonce'[s] = "gone",
         Flagged => Flagged',
         \A d \in Unlinks \ {c} : call[d].told = "yes" => (flag' => mark'.at >= call[d].row),
         \A d \in Completes \ {c} : call[d].pc = "insert" =>
           call'[c].pc # "insert" \/ call'[c].state # call[d].state \/ c \notin Completes
  PROVE  \A d \in Calls \ {c} : CallOK(d)'
<1> SUFFICES ASSUME NEW d \in Calls \ {c} PROVE CallOK(d)'
  OBVIOUS
<1>1. CallOK(d) /\ call'[d] = call[d]
  BY DEF IInv, Moves
<1>2. ASSUME d \in Inserters PROVE InserterOK(d)'
  <2>1. InserterOK(d) /\ call[d].state \in States \cup {None}
    BY <1>1, <1>2 DEF CallOK, IInv, Types, CallType
  <2>2. \A e \in Completes \ {c} : call'[e] = call[e]
    BY DEF Moves, Calls
  <2>3. ASSUME d \in Completes, call[d].pc = "insert"
        PROVE  \A e \in Completes \ {d} : call'[e].pc = "insert" => call'[e].state # call[d].state
    BY <2>1, <2>2, <2>3 DEF InserterOK
  <2>4. d \in Completes /\ call[d].pc = "insert" =>
          call[d].state \in States /\ nonce'[call[d].state] = "gone"
    BY <2>1 DEF InserterOK, IInv, Types
  <2> QED
    BY <1>1, <2>1, <2>3, <2>4 DEF InserterOK
<1>3. d \in Unlinks => UnlinkOK(d)'
  BY <1>1 DEF CallOK, UnlinkOK, IsLive
<1>4. (d \in Changes => ChangeOK(d)') /\ (d \in Probes => ProbeOK(d)')
  BY <1>1 DEF CallOK, ChangeOK, ProbeOK
<1> QED
  BY <1>2, <1>3, <1>4 DEF CallOK

LEMMA CompleteADTLinkStep ==
  ASSUME IInv, NEW c \in Completes, NEW s \in States, NEW o \in Outcomes,
         CompleteADTLink(c, s, o)
  PROVE  IInv'
<1> DEFINE p == IF Answered(o) /\ nonce[s] = "open" THEN "insert" ELSE "failed"
           r1 == [call[c] EXCEPT !.pc = p]
           r2 == IF p = "insert" THEN [r1 EXCEPT !.state = s] ELSE r1
<1>1. /\ c \in Calls /\ c \in Inserters /\ Types /\ call[c] \in CallType /\ InserterOK(c)
      /\ call[c].pc = "idle"
      /\ UNCHANGED <<atADT, visited, rows, playtest>>
  BY DEF Calls, Inserters, IInv, Types, CallOK, CompleteADTLink, At
<1>2. p \in {"insert", "failed"} /\ p \in Places
      /\ (p = "insert" => Answered(o) /\ nonce[s] = "open")
  BY DEF Places
<1>3. call' = [call EXCEPT ![c] = r2]
  BY <1>1 DEF CompleteADTLink, Goto, Types
<1> HIDE DEF p
<1>4. r1 \in CallType /\ r1.pc = p
  BY <1>1, <1>2 DEF CallType
<1>5. r2 \in CallType /\ r2.pc = p /\ (p = "insert" => r2.state = s)
  <2> HIDE DEF r1
  <2> QED BY <1>4 DEF CallType
<1> HIDE DEF r2
<1>6. call' \in [Calls -> CallType] /\ call'[c] = r2 /\ Moves(c)
  BY <1>1, <1>3, <1>5, MoveTyped
<1>7. /\ nonce' \in [States -> {"unused", "open", "expired", "gone"}]
      /\ \A t \in States : nonce[t] = "gone" => nonce'[t] = "gone"
      /\ p = "insert" => nonce'[s] = "gone"
  <2>1. CASE TakesEffect(o)
    <3>1. nonce' = [t \in States |-> IF t = s \/ nonce[t] = "expired" THEN
                     IF nonce[t] = "unused" THEN "unused" ELSE "gone" ELSE nonce[t]]
      BY <2>1 DEF CompleteADTLink, ConsumePending
    <3>2. \A t \in States : nonce'[t] \in {"unused", "open", "expired", "gone"}
      BY <1>1, <3>1 DEF Types
    <3> QED
      BY <1>2, <3>1, <3>2
  <2>2. CASE ~TakesEffect(o)
    BY <1>1, <1>2, <2>2 DEF CompleteADTLink, Types, Answered, TakesEffect
  <2> QED
    BY <2>1, <2>2
<1>8. Types'
  BY <1>1, <1>6, <1>7 DEF Types, atADT, playtest
<1>9. \A r \in DOMAIN rows : rows[r].state \in States \cup {None}
  BY <1>1, RowsTyped DEF RowType
<1>10. Flagged' = Flagged
  BY <1>1 DEF Flagged, atADT
<1>11. RowsOK' /\ UnavailableMeansGone'
  BY <1>1, <1>7, <1>9, <1>10
     DEF IInv, RowsOK, IsLive, StateLinksOnce, UnavailableMeansGone, atADT, playtest
<1>12. p = "insert" => /\ \A r \in DOMAIN rows : rows[r].state # s
                       /\ \A d \in Completes \ {c} : call[d].pc = "insert" => call[d].state # s
  <2> SUFFICES ASSUME p = "insert"
               PROVE  /\ \A r \in DOMAIN rows : rows[r].state # s
                      /\ \A d \in Completes \ {c} : call[d].pc = "insert" => call[d].state # s
    OBVIOUS
  <2>1. nonce[s] = "open" /\ s # None
    BY <1>2, ClassesApart
  <2>2. \A d \in Completes : d \in Calls /\ d \in Inserters
    BY DEF Calls, Inserters
  <2> QED
    BY <2>1, <2>2 DEF IInv, RowsOK, CallOK, InserterOK
<1>13. InserterOK(c)'
  <2>1. \A d \in Completes \ {c} : call'[d] = call[d]
    BY <1>6 DEF Moves, Calls
  <2>2. c \notin Recovers
    BY ClassesApart
  <2> QED
    BY <1>1, <1>2, <1>5, <1>6, <1>7, <1>12, <2>1, <2>2 DEF InserterOK
<1>14. CallOK(c)'
  BY <1>13, ClassesApart DEF CallOK, Inserters
<1>15. \A d \in Calls \ {c} : CallOK(d)'
  <2>1. \A d \in Unlinks \ {c} : call[d].told = "yes" => (flag' => mark'.at >= call[d].row)
    BY <1>1 DEF IInv, CallOK, UnlinkOK, Calls, atADT
  <2> QED
    BY <1>1, <1>5, <1>6, <1>7, <1>10, <1>12, <2>1, OthersKeep DEF atADT, playtest
<1> QED
  BY <1>8, <1>11, <1>14, <1>15 DEF IInv

LEMMA DeleteLinkageStep ==
  ASSUME IInv, NEW c \in Unlinks, NEW o \in Outcomes, DeleteLinkage(c, o) PROVE IInv'
<1> DEFINE t == IF TakesEffect(o) THEN "yes" ELSE IF call[c].told = "no" THEN "failed"
                ELSE call[c].told
<1>1. /\ c \in Calls /\ Types /\ call[c] \in CallType /\ UnlinkOK(c) /\ call[c].pc = "drop"
      /\ UNCHANGED <<gone, linking, playtest>>
      /\ MaxRows \in Nat /\ Len(rows) \in Nat
  BY InsertersCounted DEF Calls, IInv, Types, CallOK, DeleteLinkage, At
<1>2. PICK p \in {"drop", "soft"} :
        call' = [call EXCEPT ![c].pc = p,
                             ![c].told = IF TakesEffect(o) THEN "yes"
                                         ELSE IF @ = "no" THEN "failed" ELSE @]
  BY DEF DeleteLinkage
<1> DEFINE r1 == [call[c] EXCEPT !.pc = p]
           r2 == [r1 EXCEPT !.told = t]
<1>3. call' = [call EXCEPT ![c] = r2]
  BY <1>1, <1>2 DEF Types, CallType
<1>4. t \in {"yes", "failed"} /\ (t = "yes" => TakesEffect(o) \/ call[c].told = "yes")
  BY <1>1 DEF CallType
<1> HIDE DEF t
<1>5. r1 \in CallType /\ r1.pc = p /\ r1.row = call[c].row /\ r1.seen = call[c].seen
  BY <1>1, <1>2 DEF CallType, Places
<1>6. r2 \in CallType /\ r2.pc = p /\ r2.told = t /\ r2.row = call[c].row
      /\ r2.seen = call[c].seen
  <2> HIDE DEF r1
  <2> QED BY <1>4, <1>5 DEF CallType
<1> HIDE DEF r2
<1>7. call' \in [Calls -> CallType] /\ call'[c] = r2 /\ Moves(c)
  BY <1>1, <1>3, <1>6, MoveTyped
<1>8. \/ flag' = FALSE /\ mark' = [by |-> c, at |-> Len(rows)]
      \/ UNCHANGED <<flag, mark>> /\ (TakesEffect(o) => ~flag)
  BY DEF DeleteLinkage
<1>9. Types'
  <2>1. flag' \in BOOLEAN /\ mark' \in [by : Unlinks \cup {None}, at : 0..MaxRows]
    <3>1. Len(rows) \in 0..MaxRows
      BY <1>1 DEF Types
    <3>2. CASE flag' = FALSE /\ mark' = [by |-> c, at |-> Len(rows)]
      BY <3>1, <3>2
    <3>3. CASE UNCHANGED <<flag, mark>>
      BY <1>1, <3>3 DEF Types
    <3> QED
      BY <1>8, <3>2, <3>3
  <2> QED
    BY <1>1, <1>7, <2>1 DEF Types, linking, playtest
<1>10. Flagged => Flagged'
  BY <1>8 DEF Flagged
<1>11. RowsOK' /\ UnavailableMeansGone'
  <2>1. Flagged' \/ mark'.at = 0
    BY <1>8 DEF Flagged, IInv, RowsOK
  <2> QED
    BY <1>1, <1>10, <2>1
       DEF IInv, RowsOK, IsLive, StateLinksOnce, UnavailableMeansGone, linking, playtest
<1>12. UnlinkOK(c)'
  BY <1>1, <1>2, <1>4, <1>6, <1>7, <1>8 DEF UnlinkOK, IsLive, linking
<1>13. CallOK(c)'
  BY <1>12, ClassesApart DEF CallOK
<1>14. \A d \in Calls \ {c} : CallOK(d)'
  <2>1. \A d \in Unlinks \ {c} : call[d].told = "yes" => (flag' => mark'.at >= call[d].row)
    BY <1>8 DEF IInv, CallOK, UnlinkOK, Calls
  <2>2. c \notin Completes
    BY ClassesApart DEF Inserters
  <2>3. mark' = mark \/ mark'.by = c
    BY <1>8
  <2> QED
    BY <1>1, <1>7, <1>10, <2>1, <2>2, <2>3, OthersKeep DEF linking, playtest
<1> QED
  BY <1>9, <1>11, <1>13, <1>14 DEF IInv

LEMMA SoftDeleteStep ==
  ASSUME IInv, NEW c \in Unlinks, NEW o \in Outcomes, SoftDelete(c, o) PROVE IInv'
<1> DEFINE i == call[c].row
           x == IF rows[i].deletedBy = None THEN c ELSE rows[i].deletedBy
           e == [rows[i] EXCEPT !.deletedBy = x]
<1>1. /\ c \in Calls /\ Types /\ call[c] \in CallType /\ UnlinkOK(c) /\ call[c].pc = "soft"
      /\ UNCHANGED <<atADT, nonce, visited, playtest>>
  BY DEF Calls, IInv, Types, CallOK, SoftDelete, At
<1>2. /\ Len(rows) \in Nat /\ DOMAIN rows = 1..Len(rows) /\ i \in DOMAIN rows
      /\ \A r \in DOMAIN rows : rows[r] \in RowType
  BY <1>1, RowsTyped DEF UnlinkOK
<1>3. PICK p \in {"audit", "failed"} : Goto(c, p) /\ (p = "audit" => TakesEffect(o))
  BY DEF SoftDelete, OnAnswer, Answered, TakesEffect
<1>4. p \in Places
  BY <1>3 DEF Places
<1>5. /\ call' \in [Calls -> CallType] /\ call'[c].pc = p /\ SameButPc(call'[c], call[c])
      /\ Moves(c)
  BY <1>1, <1>3, <1>4, GotoTyped
<1>6. /\ e \in RowType /\ e.state = rows[i].state /\ e.by = rows[i].by /\ e.deletedBy = x
      /\ x # None
  BY <1>1, <1>2, ClassesApart DEF RowType
<1>7. /\ rows' \in Seq(RowType) /\ Len(rows') = Len(rows) /\ DOMAIN rows' = DOMAIN rows
      /\ \A r \in DOMAIN rows :
           /\ rows'[r].state = rows[r].state /\ rows'[r].by = rows[r].by
           /\ rows'[r].deletedBy = rows[r].deletedBy \/ r = i
           /\ rows[r].deletedBy # None => rows'[r].deletedBy = rows[r].deletedBy
      /\ rows'[i].deletedBy # None \/ ~TakesEffect(o)
      /\ rows'[i].deletedBy \in {rows[i].deletedBy, c}
  <2>1. CASE TakesEffect(o)
    <3>1. rows' = [rows EXCEPT ![i] = e]
      BY <1>2, <2>1 DEF SoftDelete, Deleted
    <3>2. x \in {rows[i].deletedBy, c} /\ (rows[i].deletedBy # None => x = rows[i].deletedBy)
      OBVIOUS
    <3>3. rows \in Seq(RowType) /\ i \in 1..Len(rows)
      BY <1>1, <1>2 DEF Types
    <3> HIDE DEF e, x, i
    <3>4. /\ rows' \in Seq(RowType) /\ Len(rows') = Len(rows)
          /\ \A r \in 1..Len(rows) : rows'[r] = IF r = i THEN e ELSE rows[r]
      BY <1>6, <3>1, <3>3, ExceptSeq
    <3> QED
      BY <1>2, <1>6, <3>2, <3>4
  <2>2. CASE ~TakesEffect(o)
    BY <1>1, <2>2 DEF SoftDelete, Types
  <2> QED
    BY <2>1, <2>2
<1> HIDE DEF e, x
<1>8. Types'
  BY <1>1, <1>5, <1>7 DEF Types, atADT, playtest
<1>9. \A r \in DOMAIN rows : ~IsLive(r) => ~IsLive(r)'
  BY <1>7 DEF IsLive
<1>10. Flagged' = Flagged
  BY <1>1 DEF Flagged, atADT
<1>11. StateLinksOnce'
  BY <1>7 DEF IInv, RowsOK, StateLinksOnce
<1>12. RowsOK'
  <2>1. \A q, r \in DOMAIN rows' : IsLive(q)' /\ IsLive(r)' => q = r
    BY <1>7, <1>9 DEF IInv, RowsOK
  <2>2. \A q, r \in DOMAIN rows' : rows'[q].by = rows'[r].by => q = r
    BY <1>7 DEF IInv, RowsOK
  <2>3. \A r \in DOMAIN rows' : rows'[r].state # None => nonce'[rows'[r].state] = "gone"
    BY <1>1, <1>7 DEF IInv, RowsOK
  <2>4. /\ visited' # {} => Flagged'
        /\ \A r \in DOMAIN rows' : rows'[r].state = None => Flagged'
        /\ Flagged' \/ mark'.at = 0
    BY <1>1, <1>7, <1>10 DEF IInv, RowsOK, atADT
  <2> QED
    BY <1>11, <2>1, <2>2, <2>3, <2>4 DEF RowsOK
<1>13. UnavailableMeansGone'
  BY <1>1 DEF IInv, UnavailableMeansGone, atADT, playtest
<1>14. UnlinkOK(c)'
  <2>1. /\ call'[c].row = i /\ call'[c].seen = call[c].seen /\ call'[c].told = call[c].told
        /\ call'[c].pc = p
    BY <1>5 DEF SameButPc
  <2>2. i <= Len(rows) /\ call[c].seen <= Len(rows) /\ call[c].told # "no"
        /\ (call[c].told = "yes" /\ flag => mark.at >= i)
    BY <1>1 DEF UnlinkOK
  <2>3. mark.by = c => \A r \in DOMAIN rows : r <= call[c].seen /\ r # i => ~IsLive(r)
    BY <1>1 DEF UnlinkOK
  <2>4. p = "audit" => rows'[i].deletedBy # None
    BY <1>3, <1>7
  <2>5. \A r \in DOMAIN rows : rows'[r].deletedBy = c => r = i
    BY <1>1, <1>7 DEF UnlinkOK
  <2> QED
    BY <1>1, <1>2, <1>3, <1>7, <1>9, <2>1, <2>2, <2>3, <2>4, <2>5
       DEF UnlinkOK, IsLive, atADT
<1>15. CallOK(c)'
  BY <1>14, ClassesApart DEF CallOK
<1>16. ASSUME NEW d \in Calls \ {c} PROVE CallOK(d)'
  <2>1. CallOK(d) /\ call'[d] = call[d]
    BY <1>5 DEF IInv, Moves
  <2>2. ASSUME d \in Inserters PROVE InserterOK(d)'
    <3>1. \A q \in Completes : call'[q] = call[q]
      BY <1>5, ClassesApart DEF Moves, Calls, Inserters
    <3> QED
      BY <1>1, <1>7, <1>10, <2>1, <2>2, <3>1 DEF CallOK, InserterOK
  <2>3. ASSUME d \in Unlinks PROVE UnlinkOK(d)'
    <3>1. \A r \in DOMAIN rows : rows'[r].deletedBy = d => rows[r].deletedBy = d
      BY <1>7
    <3> QED
      BY <1>1, <1>7, <1>9, <2>1, <2>3, <3>1 DEF CallOK, UnlinkOK, atADT
  <2>4. (d \in Changes => ChangeOK(d)') /\ (d \in Probes => ProbeOK(d)')
    BY <1>1, <2>1 DEF CallOK, ChangeOK, ProbeOK, atADT, playtest
  <2> QED
    BY <2>2, <2>3, <2>4 DEF CallOK
<1> QED
  BY <1>8, <1>12, <1>13, <1>15, <1>16 DEF IInv

LEMMA UpdateADTBuildStep ==
  ASSUME IInv, NEW c \in Changes, NEW o \in Outcomes, UpdateADTBuild(c, o) PROVE IInv'
<1>1. PICK p \in {"audit", "failed"} : Goto(c, p)
  BY DEF UpdateADTBuild, OnAnswer
<1>2. /\ c \in Calls /\ p \in Places /\ Types /\ call[c].verdict \in Builds
      /\ UNCHANGED <<atADT, linking, health>>
  BY <1>1 DEF Calls, Places, IInv, CallOK, ChangeOK, UpdateADTBuild, At
<1>3. /\ call' \in [Calls -> CallType] /\ call'[c].pc = p /\ SameButPc(call'[c], call[c])
      /\ Moves(c)
  BY <1>1, <1>2, GotoTyped
<1>4. build' \in Builds /\ build' \in used' /\ used' \subseteq Builds /\ used \subseteq used'
  BY <1>2 DEF UpdateADTBuild, Types
<1>5. Types'
  BY <1>2, <1>3, <1>4 DEF Types, atADT, linking
<1>6. RowsOK' /\ UnavailableMeansGone' /\ Flagged' = Flagged
  BY <1>2, <1>4
     DEF IInv, RowsOK, IsLive, StateLinksOnce, UnavailableMeansGone, Flagged, atADT, linking
<1>7. CallOK(c)'
  BY <1>1, <1>3, ClassesApart DEF CallOK, ChangeOK
<1>8. \A d \in Calls \ {c} : CallOK(d)'
  <2>1. \A d \in Unlinks \ {c} : call[d].told = "yes" => (flag' => mark'.at >= call[d].row)
    BY <1>2 DEF IInv, CallOK, UnlinkOK, Calls, atADT
  <2>2. c \notin Completes
    BY ClassesApart DEF Inserters
  <2> QED
    BY <1>2, <1>3, <1>4, <1>6, <2>1, <2>2, OthersKeep DEF atADT, linking
<1> QED
  BY <1>5, <1>6, <1>7, <1>8 DEF IInv

LEMMA SetADTBuildHealthStep ==
  ASSUME IInv, NEW c \in Probes, NEW o \in Outcomes, SetADTBuildHealth(c, o) PROVE IInv'
<1>1. PICK p \in {"done", "failed"} : Goto(c, p)
  BY DEF SetADTBuildHealth, OnAnswer
<1>2. /\ c \in Calls /\ p \in Places /\ Types /\ ProbeOK(c) /\ call[c].pc = "record"
      /\ UNCHANGED <<atADT, linking, build, used>>
  BY <1>1 DEF Calls, Places, IInv, CallOK, SetADTBuildHealth, At
<1>3. /\ call' \in [Calls -> CallType] /\ call'[c].pc = p /\ SameButPc(call'[c], call[c])
      /\ Moves(c)
  BY <1>1, <1>2, GotoTyped
<1>4. health' \in {health, call[c].verdict}
  BY DEF SetADTBuildHealth
<1>5. Types' /\ UnavailableMeansGone'
  BY <1>2, <1>3, <1>4 DEF IInv, Types, ProbeOK, UnavailableMeansGone, atADT, linking
<1>6. RowsOK' /\ Flagged' = Flagged
  BY <1>2 DEF IInv, RowsOK, IsLive, StateLinksOnce, Flagged, atADT, linking
<1>7. CallOK(c)'
  BY <1>1, <1>3, ClassesApart DEF CallOK, ProbeOK
<1>8. \A d \in Calls \ {c} : CallOK(d)'
  <2>1. \A d \in Unlinks \ {c} : call[d].told = "yes" => (flag' => mark'.at >= call[d].row)
    BY <1>2 DEF IInv, CallOK, UnlinkOK, Calls, atADT
  <2>2. c \notin Completes
    BY ClassesApart DEF Inserters
  <2> QED
    BY <1>2, <1>3, <1>6, <2>1, <2>2, OthersKeep DEF atADT, linking
<1> QED
  BY <1>5, <1>6, <1>7, <1>8 DEF IInv

LEMMA InsertStep ==
  ASSUME IInv, NEW c \in Completes \cup Recovers, NEW o \in Outcomes, Insert(c, o) PROVE IInv'
<1> USE DEF Insert, At
<1>1. /\ c \in Calls /\ c \in Inserters /\ Types /\ call[c] \in CallType /\ InserterOK(c)
      /\ call[c].pc = "insert" /\ UNCHANGED <<atADT, nonce, visited, playtest>>
  BY DEF Calls, Inserters, IInv, Types, CallOK
<1>2. /\ Len(rows) \in Nat /\ DOMAIN rows = 1..Len(rows) /\ MaxRows \in Nat
      /\ \A r \in DOMAIN rows : rows[r] \in RowType
  BY <1>1, RowsTyped, InsertersCounted
<1>3. Len(rows) + 1 <= MaxRows /\ \A r \in DOMAIN rows : rows[r].by # c
  BY <1>1, RoomToInsert DEF IInv, InserterOK
<1>4. Flagged' = Flagged /\ (c \in Recovers => Flagged)
  BY <1>1 DEF Flagged, atADT, InserterOK
<1>5. /\ call' \in [Calls -> CallType] /\ Moves(c)
      /\ call'[c].pc \in {"audit", "existing", "failed"} /\ call'[c].state = call[c].state
  <2>1. CASE Live = {}
    <3>1. PICK p \in {"audit", "failed"} :
            call' = [call EXCEPT ![c].pc = p, ![c].row = Len(rows) + 1]
      BY <2>1
    <3> DEFINE r1 == [call[c] EXCEPT !.pc = p]
               r2 == [r1 EXCEPT !.row = Len(rows) + 1]
    <3>2. call' = [call EXCEPT ![c] = r2]
      BY <1>1, <3>1 DEF Types
    <3>3. r1 \in CallType /\ r1.pc = p /\ r1.state = call[c].state
      BY <1>1, <3>1 DEF CallType, Places
    <3>4. r2 \in CallType /\ r2.pc = p /\ r2.state = call[c].state
      <4>1. Len(rows) + 1 \in 0..MaxRows
        BY <1>2, <1>3
      <4> HIDE DEF r1
      <4> QED BY <3>3, <4>1 DEF CallType
    <3> HIDE DEF r2
    <3>5. call' \in [Calls -> CallType] /\ call'[c] = r2 /\ Moves(c)
      BY <1>1, <3>2, <3>4, MoveTyped
    <3> QED
      BY <3>1, <3>4, <3>5
  <2>2. CASE Live # {}
    <3>1. PICK p \in {"existing", "failed"} : Goto(c, p)
      BY <2>2 DEF OnAnswer
    <3>2. p \in Places
      BY <3>1 DEF Places
    <3> QED
      BY <1>1, <3>1, <3>2, GotoTyped DEF SameButPc
  <2> QED
    BY <2>1, <2>2
<1>6. InserterOK(c)'
  BY <1>1, <1>5, ClassesApart DEF InserterOK
<1>7. CallOK(c)'
  BY <1>1, <1>6, ClassesApart DEF CallOK
<1>8. CASE UNCHANGED rows
  <2>1. Types'
    BY <1>1, <1>5, <1>8 DEF Types, atADT, playtest
  <2>2. RowsOK' /\ UnavailableMeansGone'
    BY <1>1, <1>4, <1>8
       DEF IInv, RowsOK, IsLive, StateLinksOnce, UnavailableMeansGone, atADT, playtest
  <2>3. \A d \in Calls \ {c} : CallOK(d)'
    <3>1. \A d \in Unlinks \ {c} : call[d].told = "yes" => (flag' => mark'.at >= call[d].row)
      BY <1>1 DEF IInv, CallOK, UnlinkOK, Calls, atADT
    <3>2. call'[c].pc # "insert"
      BY <1>5
    <3> QED
      BY <1>1, <1>4, <1>5, <1>8, <3>1, <3>2, OthersKeep DEF atADT, playtest
  <2> QED
    BY <1>7, <2>1, <2>2, <2>3 DEF IInv
<1>9. CASE Live = {} /\ TakesEffect(o)
  <2> DEFINE n == Len(rows) + 1
             e == [state |-> call[c].state, by |-> c, deletedBy |-> None]
  <2>1. e \in RowType /\ e.state = call[c].state /\ e.by = c /\ e.deletedBy = None
    BY <1>1 DEF RowType, CallType
  <2>2. rows' = Append(rows, e)
    BY <1>9
  <2> HIDE DEF e
  <2>3. /\ rows' \in Seq(RowType) /\ Len(rows') = n /\ DOMAIN rows' = 1..n /\ rows'[n] = e
        /\ \A r \in DOMAIN rows : r # n /\ r \in DOMAIN rows' /\ rows'[r] = rows[r]
        /\ \A r \in DOMAIN rows' : r = n \/ r \in DOMAIN rows
    <3>1. rows \in Seq(RowType)
      BY <1>1 DEF Types
    <3>2. /\ rows' \in Seq(RowType) /\ Len(rows') = Len(rows) + 1
          /\ \A r \in 1..Len(rows) : rows'[r] = rows[r]
          /\ rows'[Len(rows) + 1] = e
      BY <2>1, <2>2, <3>1, AppendProperties
    <3> QED
      BY <1>2, <3>2
  <2>4. n <= MaxRows /\ n \in Nat
    BY <1>2, <1>3
  <2> HIDE DEF n
  <2>5. Types'
    BY <1>1, <1>5, <2>3, <2>4 DEF Types, atADT, playtest
  <2>6. \A r \in DOMAIN rows : ~IsLive(r) /\ ~IsLive(r)'
    BY <1>9, <2>3 DEF Live, IsLive
  <2>7. /\ call[c].state # None => nonce[call[c].state] = "gone"
        /\ call[c].state # None => \A r \in DOMAIN rows : rows[r].state # call[c].state
    BY <1>1, ClassesApart DEF InserterOK, Inserters
  <2>8. RowsOK'
    <3>1. \A q, r \in DOMAIN rows' : IsLive(q)' /\ IsLive(r)' => q = r
      BY <2>3, <2>6
    <3>2. \A q, r \in DOMAIN rows' : rows'[q].by = rows'[r].by => q = r
      BY <1>3, <2>1, <2>3 DEF IInv, RowsOK
    <3>3. StateLinksOnce'
      BY <2>1, <2>3, <2>7 DEF IInv, RowsOK, StateLinksOnce
    <3>4. \A r \in DOMAIN rows' : rows'[r].state # None => nonce'[rows'[r].state] = "gone"
      BY <1>1, <2>1, <2>3, <2>7 DEF IInv, RowsOK
    <3>5. \A r \in DOMAIN rows' : rows'[r].state = None => Flagged'
      <4>1. call[c].state = None => c \in Recovers
        BY <1>1, ClassesApart DEF InserterOK, Inserters
      <4> QED
        BY <1>4, <2>1, <2>3, <4>1 DEF IInv, RowsOK
    <3>6. (visited' # {} => Flagged') /\ (Flagged' \/ mark'.at = 0)
      BY <1>1, <1>4 DEF IInv, RowsOK, atADT
    <3> QED
      BY <3>1, <3>2, <3>3, <3>4, <3>5, <3>6 DEF RowsOK
  <2>9. UnavailableMeansGone'
    BY <1>1 DEF IInv, UnavailableMeansGone, atADT, playtest
  <2>10. ASSUME NEW d \in Calls \ {c} PROVE CallOK(d)'
    <3>1. CallOK(d) /\ call'[d] = call[d] /\ call[d] \in CallType
      BY <1>1, <1>5 DEF IInv, Moves, Types
    <3>2. ASSUME d \in Inserters PROVE InserterOK(d)'
      <4>1. InserterOK(d)
        BY <3>1, <3>2 DEF CallOK
      <4>2. \A q \in Completes \ {c} : call'[q] = call[q]
        BY <1>5 DEF Moves, Calls
      <4>3. call[d].pc \in {"idle", "probe", "insert"} => \A r \in DOMAIN rows' : rows'[r].by # d
        BY <2>1, <2>3, <4>1 DEF InserterOK
      <4>4. d \in Completes /\ call[d].pc = "insert" =>
              \A r \in DOMAIN rows' : rows'[r].state # call[d].state
        <5> SUFFICES ASSUME d \in Completes, call[d].pc = "insert"
                     PROVE  \A r \in DOMAIN rows' : rows'[r].state # call[d].state
          OBVIOUS
        <5>1. call[d].state # None /\ \A r \in DOMAIN rows : rows[r].state # call[d].state
          BY <1>1, <4>1, ClassesApart DEF InserterOK, Types
        <5>2. call[c].state # call[d].state
          BY <1>1, <4>1, <5>1 DEF InserterOK, Inserters
        <5> QED
          BY <2>1, <2>3, <5>1, <5>2
      <4> QED
        BY <1>1, <1>4, <1>5, <3>1, <4>1, <4>2, <4>3, <4>4 DEF InserterOK
    <3>3. ASSUME d \in Unlinks PROVE UnlinkOK(d)'
      <4>1. UnlinkOK(d) /\ call[d].seen \in Nat /\ call[d].row \in Nat
        BY <1>2, <3>1, <3>3 DEF CallOK, CallType
      <4>2. n = Len(rows) + 1
        BY DEF n
      <4>3. \A r \in DOMAIN rows' : rows'[r].deletedBy = d => r \in DOMAIN rows
                                                             /\ rows[r].deletedBy = d
        BY <2>1, <2>3, <3>3, ClassesApart
      <4>4. \A r \in DOMAIN rows' : r <= call[d].seen => r \in DOMAIN rows
        BY <1>2, <2>3, <4>1, <4>2 DEF UnlinkOK
      <4>5. call[d].row \in DOMAIN rows => call[d].row \in DOMAIN rows' /\ ~IsLive(call[d].row)'
        BY <2>3, <2>6, <3>1
      <4> QED
        BY <1>1, <1>2, <2>3, <2>6, <3>1, <4>1, <4>2, <4>3, <4>4, <4>5 DEF UnlinkOK, atADT
    <3>4. (d \in Changes => ChangeOK(d)') /\ (d \in Probes => ProbeOK(d)')
      BY <1>1, <3>1 DEF CallOK, ChangeOK, ProbeOK, atADT, playtest
    <3> QED
      BY <3>2, <3>3, <3>4 DEF CallOK
  <2> QED
    BY <1>7, <2>5, <2>8, <2>9, <2>10 DEF IInv
<1> QED
  BY <1>8, <1>9

-----------------------------------------------------------------------------

LEMMA NextIInv == IInv /\ [Next]_vars => IInv'
<1> SUFFICES ASSUME IInv, [Next]_vars PROVE IInv'
  OBVIOUS
<1>1. CASE Environment
  BY <1>1, StartADTLinkStep, VisitADTStep, LoseBuildStep DEF Environment
<1>2. CASE Linking
  BY <1>2, CompleteADTLinkStep, InsertStep, GetExistingStep, AppendAuditStep, ListGamesStep,
     DeleteLinkageStep, SoftDeleteStep DEF Linking
<1>3. ASSUME NEW c \in Unlinks, NEW r \in DOMAIN rows, UnlinkADT(c, r) PROVE IInv'
  BY <1>3, UnlinkADTStep
<1>4. ASSUME NEW c \in Recovers, RecoverADTLinkage(c) PROVE IInv'
  BY <1>4, RecoverStep
<1>5. CASE Building
  BY <1>5, ChangeADTBuildStep, ReadBuildStep, FindLinkageStep, UpdateADTBuildStep,
     AuditBuildChangeStep, ListBuildsStep, IssueDownloadURLStep, SetADTBuildHealthStep
     DEF Building
<1>6. CASE UNCHANGED vars
  <2> USE <1>6 DEF vars, atADT, linking, playtest
  <2>1. Types' /\ UnavailableMeansGone'
    BY DEF IInv, Types, UnavailableMeansGone
  <2>2. RowsOK'
    BY DEF IInv, RowsOK, IsLive, StateLinksOnce, Flagged
  <2>3. \A c \in Calls : CallOK(c)'
    <3>1. \A c \in Unlinks : call[c].told = "yes" => (flag' => mark'.at >= call[c].row)
      BY DEF IInv, CallOK, UnlinkOK, Calls
    <3> QED
      BY <3>1, CallsKeep DEF Flagged
  <2> QED
    BY <2>1, <2>2, <2>3 DEF IInv
<1> QED
  BY <1>1, <1>2, <1>3, <1>4, <1>5, <1>6 DEF Next

THEOREM SpecIInv == Spec => []IInv
  BY InitIInv, NextIInv, PTL DEF Spec

-----------------------------------------------------------------------------
(* The theorems.                                                           *)

\* Every column, ADT object and local of the linkage and build handlers has its type, and
\* a call inserts one row at most.
THEOREM TypeCorrect == Spec => []TypeOK
<1>1. IInv => TypeOK
  BY DEF IInv, Types, TypeOK, CallType, RowType, Inserters, Calls
<1> QED
  BY <1>1, SpecIInv, PTL

\* However often and late the browser repeats the callback, and whatever becomes of the
\* linkage in between, a state nonce makes one linkage at most (CompleteADTLink).
THEOREM LinksOnce == Spec => []StateLinksOnce
<1>1. IInv => StateLinksOnce
  BY DEF IInv, RowsOK
<1> QED
  BY <1>1, SpecIInv, PTL

\* A live linkage that ADT does not know is the work of an unlink of that row which is not
\* finished, or of one that had read the table before the row was inserted (UnlinkADT); or the
\* row came when the flag was down, by a state with which nobody has linked at ADT
\* (CompleteADTLink).
THEOREM LostNeedsOverlap == Spec => []LostFlagNeedsOverlap
<1>1. IInv => LostFlagNeedsOverlap
  <2> SUFFICES ASSUME IInv, NEW r \in DOMAIN rows, IsLive(r), ~flag,
                      ~(r > mark.at /\ Unvisited(r))
               PROVE  /\ mark.by \in Unlinks
                      /\ IF call[mark.by].row = r THEN call[mark.by].pc # "done"
                         ELSE call[mark.by].seen < r
    BY DEF LostFlagNeedsOverlap, Live
  <2>1. r \in Nat /\ r > 0 /\ rows[r] \in RowType
    BY RowsTyped DEF IInv
  \* A row that ADT knew when it came, or whose state was visited, has seen the flag.
  <2>2. Flagged
    <3>1. CASE Unvisited(r)
      BY <2>1, <3>1 DEF IInv, RowsOK
    <3>2. CASE ~Unvisited(r)
      BY <2>1, <3>2 DEF IInv, RowsOK, RowType, Unvisited
    <3> QED
      BY <3>1, <3>2
  <2>3. mark.by \in Unlinks
    BY <2>2 DEF Flagged
  <2>4. UnlinkOK(mark.by) /\ call[mark.by].seen \in Nat
    BY <2>3 DEF IInv, Types, CallType, CallOK, Calls
  <2> QED
    BY <2>1, <2>3, <2>4 DEF UnlinkOK
<1> QED
  BY <1>1, SpecIInv, PTL

\* After the unlink of a linkage made since ADT set the flag, the flag stays behind only
\* when the DELETE of that unlink never reached ADT (UnlinkADT).
THEOREM OrphanNeedsFailure == Spec => []OrphanNeedsFailedDelete
<1>1. IInv => OrphanNeedsFailedDelete
  <2> SUFFICES ASSUME IInv, flag, NEW r \in DOMAIN rows, r > mark.at, ~IsLive(r)
               PROVE  call[rows[r].deletedBy].told = "failed"
    BY DEF OrphanNeedsFailedDelete
  <2> DEFINE u == rows[r].deletedBy
  <2>1. u \in Unlinks /\ r \in Nat
    BY RowsTyped DEF IInv, RowType, IsLive
  <2>2. UnlinkOK(u) /\ call[u].told \in {"no", "yes", "failed"} /\ mark.at \in Nat
    BY <2>1, InsertersCounted DEF IInv, Types, CallType, CallOK, Calls
  <2> QED
    BY <2>1, <2>2 DEF UnlinkOK
<1> QED
  BY <1>1, SpecIInv, PTL

\* adt_build_status is UNAVAILABLE only when ADT has lost a build that the playtest has or
\* had (adtBuildHealthFromIssueErr, SetADTBuildHealth).
THEOREM UnavailableGone == Spec => []UnavailableMeansGone
<1>1. IInv => UnavailableMeansGone
  BY DEF IInv
<1> QED
  BY <1>1, SpecIInv, PTL
=============================================================================
