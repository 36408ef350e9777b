--------------------------- MODULE CodePoolProofs ---------------------------
(***************************************************************************)
(* Theorems about CodePool, for any number of requests, any files, sizes   *)
(* of batches and pages, and any number of retries.                        *)
(***************************************************************************)
EXTENDS CodePool, FiniteSetTheorems, SequenceTheorems, TLAPS

-----------------------------------------------------------------------------
(* The inductive invariant.                                                *)

CallType ==
  [pc : {"idle", "mint", "fetch", "lock", "dedup", "copy", "audit"},
   kind : {"topup", "sync", "upload", None},
   left : 0..MaxQuantity, tries : 1..MaxAttempts,
   known : SUBSET (1..MaxMinted), hand : Seq(Values), fresh : SUBSET Nat,
   added : Nat]

\* A sync that has fetched k codes has met every code it must know of among the first k:
\* what AGS generates meanwhile only moves codes to later places.
FetchOK(c) ==
  /\ c.known \subseteq Range(minted)
  /\ \A k \in 1..Len(minted) : k <= Len(c.hand) /\ minted[k] \in c.known
                                 => minted[k] \in Range(c.hand)

\* What each place of a request knows of its codes, the table and AGS.
CallOK(c) ==
  /\ c.pc = "idle" => c = Idle
  /\ c.pc # "idle" => c.kind \in {"topup", "sync", "upload"}
  /\ c.kind \in {"topup", "sync"} => model = "AGS_CAMPAIGN"
  /\ c.kind = "upload" => model = "STEAM_KEYS" /\ c.hand \in Files /\ WellFormed(c.hand)
  /\ c.kind # "sync" => c.known = {}
  /\ c.pc = "mint" => c.kind = "topup"
  /\ c.pc = "fetch" => c.kind = "sync" /\ FetchOK(c)
  /\ c.pc # "copy" => c.fresh = {}
  /\ c.pc \in {"lock", "dedup", "copy"} =>
       /\ c.known \subseteq Range(c.hand)
       /\ c.kind = "topup" => Len(c.hand) <= c.left
  /\ c.pc = "copy" =>
       /\ c.fresh \subseteq DOMAIN c.hand
       /\ \A k \in DOMAIN c.hand : k \in c.fresh \/ c.hand[k] \in stored
       /\ c.kind = "upload" => c.fresh = DOMAIN c.hand
  /\ c.pc = "audit" => Range(c.hand) \cup c.known \subseteq stored

\* AGS never gives a number twice.
MintedOK == \A k \in 1..Len(minted) : minted[k] <= Len(minted)

\* The holder of the advisory lock is between its query and its copy.
HolderOK == \A p \in Callers : call[p].pc \in {"dedup", "copy"} <=> lock = p

\* Each row of the table is claimed by at most one audit row, written or still to come.
Claims(logged, claim) ==
  /\ Cardinality(logged) = audited
  /\ \A p \in Callers : Cardinality(claim[p]) = call[p].added /\ claim[p] \cap logged = {}
  /\ \A p, q \in Callers : p # q => claim[p] \cap claim[q] = {}
ClaimsOK ==
  /\ IsFiniteSet(stored)
  /\ \E logged \in SUBSET stored, claim \in [Callers -> SUBSET stored] : Claims(logged, claim)

IInv ==
  /\ TypeOK
  /\ MintedOK
  /\ \A p \in Callers : CallOK(call[p])
  /\ HolderOK
  /\ DedupIsExact
  /\ PoolIsWholeFiles
  /\ ClaimsOK

-----------------------------------------------------------------------------
(* Constants and initial states.                                           *)

LEMMA SizeFacts ==
  /\ MaxQuantity \in Nat \ {0} /\ BatchSize \in Nat \ {0}
  /\ PageSize \in Nat \ {0} /\ MaxAttempts \in Nat \ {0}
  /\ MaxMinted \in Nat /\ MaxCalls \in Nat
  /\ None \notin Callers /\ None \notin {"topup", "sync", "upload"}
  BY SizesArePositive, BoundsAreNatural, NoneIsNothing

LEMMA IdleIsTyped == Idle \in CallType /\ Range(<<>>) = {} /\ DOMAIN <<>> = {}
  BY SizeFacts, EmptySeq DEF Idle, CallType, Range

LEMMA IdleIsOK == CallOK(Idle) /\ CallOK(Idle)'
  BY SizeFacts DEF CallOK, Idle

LEMMA InitIInv == Init => IInv
<1> SUFFICES ASSUME Init PROVE IInv
  OBVIOUS
<1> USE SizeFacts
<1>1. \A p \in Callers : call[p] = Idle
  BY DEF Init
<1>2. TypeOK
  <2>1. minted \in Seq(1..MaxMinted) /\ IsInjective(minted)
    BY EmptySeq DEF Init, IsInjective
  <2>2. call \in [Callers -> CallType]
    BY IdleIsTyped DEF Init
  <2> QED
    BY <2>1, <2>2 DEF Init, TypeOK, CallType
<1>3. MintedOK
  BY EmptySeq DEF Init, MintedOK
<1>4. \A p \in Callers : CallOK(call[p])
  BY <1>1, IdleIsOK
<1>5. HolderOK /\ DedupIsExact
  BY <1>1 DEF Init, HolderOK, DedupIsExact, At, Idle
<1>6. PoolIsWholeFiles
  <2>1. stored = UNION {Range(f) : f \in {}} /\ {} \in SUBSET Files
    BY DEF Init
  <2> QED
    BY <2>1 DEF PoolIsWholeFiles
<1>7. ClaimsOK
  <2> DEFINE claim == [p \in Callers |-> {}]
  <2>1. Claims({}, claim)
    BY <1>1, FS_EmptySet DEF Init, Claims, Idle
  <2>2. {} \in SUBSET stored /\ claim \in [Callers -> SUBSET stored] /\ IsFiniteSet(stored)
    BY FS_EmptySet DEF Init
  <2> QED
    BY <2>1, <2>2 DEF ClaimsOK
<1> QED
  BY <1>2, <1>3, <1>4, <1>5, <1>6, <1>7 DEF IInv

-----------------------------------------------------------------------------
(* What AGS generates.                                                     *)

\* The codes of AGS are what they were, or some were generated among them.
Grown ==
  \/ minted' = minted
  \/ \E n \in Nat, i \in 0..Len(minted) :
       minted' = Generate(n, i) /\ Len(minted) + n <= MaxMinted

LEMMA BornFacts ==
  ASSUME TypeOK, NEW n \in Nat, Len(minted) + n <= MaxMinted
  PROVE  /\ Born(n) \in Seq(1..MaxMinted) /\ Len(Born(n)) = n
         /\ DOMAIN Born(n) = 1..n
         /\ \A k \in 1..n : Born(n)[k] = Len(minted) + k
<1>1. Len(minted) \in Nat
  BY LenProperties DEF TypeOK
<1>2. \A k \in 1..n : Len(minted) + k \in 1..MaxMinted
  BY <1>1, SizeFacts
<1>3. Born(n) \in [1..n -> 1..MaxMinted]
  BY <1>2 DEF Born
<1>4. Born(n) \in Seq(1..MaxMinted)
  BY <1>3, SeqDef
<1> QED
  BY <1>3, <1>4, LenProperties DEF Born

LEMMA GenerateFacts ==
  ASSUME TypeOK, NEW n \in Nat, NEW i \in 0..Len(minted), Len(minted) + n <= MaxMinted
  PROVE  LET m == Generate(n, i)
             l == Len(minted)
         IN /\ m \in Seq(1..MaxMinted) /\ Len(m) = l + n /\ l \in Nat
            /\ \A k \in 1..l + n :
                 m[k] = IF k <= i THEN minted[k]
                        ELSE IF k <= i + n THEN l + (k - i)
                        ELSE minted[k - n]
<1> DEFINE S == 1..MaxMinted
           l == Len(minted)
           a == SubSeq(minted, 1, i)
           b == SubSeq(minted, i + 1, l)
           born == Born(n)
           ab == a \o born
<1>1. minted \in Seq(S) /\ l \in Nat /\ \A k \in 1..l : minted[k] \in S
  BY LenProperties, ElementOfSeq DEF TypeOK
<1>2. a \in Seq(S) /\ Len(a) = i /\ \A k \in 1..i : a[k] = minted[k]
  <2>1. \A k \in 1..i : minted[k] \in S
    BY <1>1
  <2>2. /\ a \in Seq(S) /\ Len(a) = IF 1 <= i THEN i - 1 + 1 ELSE 0
        /\ \A k \in 1..i - 1 + 1 : a[k] = minted[1 + k - 1]
    BY <1>1, <2>1, SubSeqProperties
  <2> QED
    BY <1>1, <2>2
<1>3. b \in Seq(S) /\ Len(b) = l - i /\ \A k \in 1..l - i : b[k] = minted[i + k]
  <2>1. \A k \in i + 1..l : minted[k] \in S
    BY <1>1
  <2>2. /\ b \in Seq(S) /\ Len(b) = IF i + 1 <= l THEN l - (i + 1) + 1 ELSE 0
        /\ \A k \in 1..l - (i + 1) + 1 : b[k] = minted[i + 1 + k - 1]
    BY <1>1, <2>1, SubSeqProperties
  <2> QED
    BY <1>1, <2>2
<1>4. /\ born \in Seq(S) /\ Len(born) = n
      /\ \A k \in 1..n : born[k] = l + k
  BY BornFacts
<1> HIDE DEF S, a, b, born
<1>5. /\ ab \in Seq(S) /\ Len(ab) = i + n
      /\ \A k \in 1..i + n : ab[k] = IF k <= i THEN a[k] ELSE born[k - i]
  <2>1. /\ ab \in Seq(S) /\ Len(ab) = Len(a) + Len(born)
        /\ \A k \in 1..Len(a) + Len(born) :
             ab[k] = IF k <= Len(a) THEN a[k] ELSE born[k - Len(a)]
    BY <1>2, <1>4, ConcatProperties
  <2> QED
    BY <1>2, <1>4, <2>1
<1> HIDE DEF ab
<1>6. /\ ab \o b \in Seq(S) /\ Len(ab \o b) = (i + n) + (l - i)
      /\ \A k \in 1..(i + n) + (l - i) : (ab \o b)[k] =
           IF k <= i + n THEN ab[k] ELSE b[k - (i + n)]
  <2>1. /\ ab \o b \in Seq(S) /\ Len(ab \o b) = Len(ab) + Len(b)
        /\ \A k \in 1..Len(ab) + Len(b) :
             (ab \o b)[k] = IF k <= Len(ab) THEN ab[k] ELSE b[k - Len(ab)]
    BY <1>3, <1>5, ConcatProperties
  <2> QED
    BY <1>3, <1>5, <2>1
<1>7. Generate(n, i) = ab \o b
  BY DEF Generate, ab, a, b, born
<1>8. (i + n) + (l - i) = l + n
  BY <1>1
<1>9. ASSUME NEW k \in 1..l + n
      PROVE  (ab \o b)[k] = IF k <= i THEN minted[k]
                            ELSE IF k <= i + n THEN l + (k - i)
                            ELSE minted[k - n]
  <2>1. CASE k <= i
    BY <2>1, <1>1, <1>2, <1>5, <1>6, <1>8
  <2>2. CASE ~(k <= i) /\ k <= i + n
    BY <2>2, <1>1, <1>4, <1>5, <1>6, <1>8
  <2>3. CASE ~(k <= i) /\ ~(k <= i + n)
    <3>1. k - (i + n) \in 1..l - i /\ i + (k - (i + n)) = k - n
      BY <2>3, <1>1
    <3>2. (ab \o b)[k] = b[k - (i + n)]
      BY <2>3, <1>1, <1>6, <1>8
    <3>3. b[k - (i + n)] = minted[k - n]
      BY <3>1, <1>3
    <3> QED
      BY <2>3, <3>2, <3>3, <1>1
  <2> QED
    BY <2>1, <2>2, <2>3
<1> QED
  BY <1>1, <1>6, <1>7, <1>8, <1>9 DEF S

\* New numbers are new, old codes stay, and none of them moves to an earlier place.
LEMMA GrownFacts ==
  ASSUME TypeOK, MintedOK, Grown
  PROVE  /\ minted' \in Seq(1..MaxMinted) /\ IsInjective(minted') /\ MintedOK'
         /\ Range(minted) \subseteq Range(minted')
         /\ \A k \in 1..Len(minted') :
              minted'[k] \in Range(minted) => \E j \in 1..Len(minted) :
                                                j <= k /\ minted[j] = minted'[k]
<1> DEFINE l == Len(minted)
<1>1. /\ minted \in Seq(1..MaxMinted) /\ l \in Nat /\ DOMAIN minted = 1..l
      /\ \A k \in 1..l : minted[k] \in 1..l
  <2>1. minted \in Seq(1..MaxMinted) /\ l \in Nat /\ DOMAIN minted = 1..l
    BY LenProperties DEF TypeOK
  <2>2. \A k \in 1..l : minted[k] \in 1..MaxMinted /\ minted[k] <= l
    BY <2>1, ElementOfSeq DEF MintedOK
  <2> QED
    BY <2>1, <2>2, SizeFacts
<1>2. CASE minted' = minted
  <2>1. \A k \in 1..l : k <= k
    BY <1>1
  <2> QED
    BY <1>1, <1>2, <2>1 DEF TypeOK, MintedOK
<1>3. ASSUME NEW n \in Nat, NEW i \in 0..l, minted' = Generate(n, i), l + n <= MaxMinted
      PROVE  /\ minted' \in Seq(1..MaxMinted) /\ IsInjective(minted') /\ MintedOK'
             /\ Range(minted) \subseteq Range(minted')
             /\ \A k \in 1..Len(minted') :
                  minted'[k] \in Range(minted) => \E j \in 1..l :
                                                    j <= k /\ minted[j] = minted'[k]
  <2> DEFINE m == minted'
  <2>1. /\ m \in Seq(1..MaxMinted) /\ Len(m) = l + n
        /\ \A k \in 1..l + n : m[k] = IF k <= i THEN minted[k]
                                      ELSE IF k <= i + n THEN l + (k - i)
                                      ELSE minted[k - n]
    BY <1>3, GenerateFacts
  <2>2. DOMAIN m = 1..l + n
    BY <2>1, LenProperties
  <2> HIDE DEF m, l
  <2>3. \A k \in 1..l + n : \/ k \in 1..i /\ m[k] = minted[k]
                            \/ k \in i + 1..i + n /\ m[k] = l + (k - i)
                            \/ k \in i + n + 1..l + n /\ m[k] = minted[k - n]
    BY <1>1, <2>1
  <2>4. \A j, k \in 1..l : minted[j] = minted[k] => j = k
    BY <1>1 DEF TypeOK, IsInjective
  <2>5. ASSUME NEW j \in 1..l + n, NEW k \in 1..l + n, m[j] = m[k] PROVE j = k
    <3>1. \A v \in 1..i : minted[v] \in 1..l /\ v \in 1..l
      BY <1>1
    <3>2. \A v \in i + n + 1..l + n : minted[v - n] \in 1..l /\ v - n \in 1..l /\ v - n > i
      BY <1>1
    <3>3. \A v \in i + 1..i + n : l + (v - i) > l
      BY <1>1
    <3> QED
      BY <1>1, <2>3, <2>4, <2>5, <3>1, <3>2, <3>3
  <2>6. \A k \in 1..l + n : m[k] <= l + n
    BY <1>1, <2>3
  <2>7. ASSUME NEW v \in Range(minted) PROVE v \in Range(m)
    <3>1. PICK j \in 1..l : minted[j] = v
      BY <1>1 DEF Range
    <3>2. CASE j <= i
      <4>1. j \in 1..l + n
        BY <1>1
      <4> QED
        BY <2>1, <2>2, <3>1, <3>2, <4>1 DEF Range
    <3>3. CASE j > i
      <4>1. j + n \in 1..l + n /\ ~(j + n <= i) /\ ~(j + n <= i + n) /\ (j + n) - n = j
        BY <1>1, <3>3
      <4> QED
        BY <2>1, <2>2, <3>1, <4>1 DEF Range
    <3> QED
      BY <1>1, <3>2, <3>3
  <2>8. ASSUME NEW k \in 1..l + n, m[k] \in Range(minted)
        PROVE  \E j \in 1..l : j <= k /\ minted[j] = m[k]
    <3>1. m[k] \in 1..l
      BY <1>1, <2>8 DEF Range
    <3>2. CASE k \in 1..i /\ m[k] = minted[k]
      BY <1>1, <3>2
    <3>3. CASE k \in i + n + 1..l + n /\ m[k] = minted[k - n]
      <4>1. k - n \in 1..l /\ k - n <= k
        BY <1>1, <3>3
      <4> QED
        BY <3>3, <4>1
    <3>4. ~(k \in i + 1..i + n /\ m[k] = l + (k - i))
      BY <1>1, <3>1
    <3> QED
      BY <2>3, <3>2, <3>3, <3>4
  <2> QED
    BY <2>1, <2>2, <2>5, <2>6, <2>7, <2>8 DEF IsInjective, MintedOK, m, l
<1> QED
  BY <1>2, <1>3 DEF Grown

-----------------------------------------------------------------------------
(* Steps that leave the table and the log alone.                           *)

LEMMA CallTyped ==
  ASSUME TypeOK
  PROVE  /\ call \in [Callers -> CallType]
         /\ \A p \in Callers : call[p] \in CallType
  BY DEF TypeOK, CallType

\* What a request knows stays true when AGS generates codes and when the table grows.
LEMMA KnowledgeKeeps ==
  ASSUME TypeOK, MintedOK, Grown, model' = model, stored \subseteq stored',
         NEW c \in CallType, CallOK(c)
  PROVE  CallOK(c)'
<1>1. CASE c.pc = "fetch"
  <2>1. c.known \subseteq Range(minted')
    BY <1>1, GrownFacts DEF CallOK, FetchOK
  <2>2. ASSUME NEW k \in 1..Len(minted'), k <= Len(c.hand), minted'[k] \in c.known
        PROVE  minted'[k] \in Range(c.hand)
    <3>1. PICK j \in 1..Len(minted) : j <= k /\ minted[j] = minted'[k]
      BY <1>1, <2>2, GrownFacts DEF CallOK, FetchOK
    <3>2. Len(c.hand) \in Nat /\ Len(minted) \in Nat /\ Len(minted') \in Nat
      BY GrownFacts, LenProperties DEF CallType, TypeOK
    <3>3. j <= Len(c.hand)
      BY <2>2, <3>1, <3>2
    <3> QED
      BY <1>1, <2>2, <3>1, <3>3 DEF CallOK, FetchOK
  <2>3. FetchOK(c)'
    BY <2>1, <2>2 DEF FetchOK
  <2> QED
    BY <1>1, <2>3 DEF CallOK
<1>2. CASE c.pc # "fetch"
  BY <1>2 DEF CallOK
<1> QED
  BY <1>1, <1>2

\* One request moves on; it may drop its claim with the number it has added.
LEMMA StillStep ==
  ASSUME IInv, NEW p \in Callers, NEW c \in CallType,
         call' = [call EXCEPT ![p] = c],
         UNCHANGED <<model, stored, audited>>, Grown,
         calls' \in 0..MaxCalls,
         lock' \in Callers \cup {None},
         c.pc \in {"dedup", "copy"} <=> lock' = p,
         \A q \in Callers \ {p} : lock' = q <=> lock = q,
         CallOK(c),
         c.pc = "copy" => {c.hand[k] : k \in c.fresh} \cap stored = {},
         c.added = 0 \/ c.added = call[p].added
  PROVE  IInv'
<1>1. TypeOK /\ MintedOK /\ call \in [Callers -> CallType]
  BY CallTyped DEF IInv
<1>2. /\ call' \in [Callers -> CallType]
      /\ call'[p] = c
      /\ \A q \in Callers \ {p} : call'[q] = call[q]
  BY <1>1
<1>3. TypeOK' /\ MintedOK'
  BY <1>1, <1>2, GrownFacts DEF TypeOK, CallType
<1>4. \A q \in Callers : CallOK(call[q]) /\ call[q] \in CallType
  BY <1>1 DEF IInv
<1>5. \A e \in CallType : CallOK(e) => CallOK(e)'
  BY <1>1, KnowledgeKeeps
<1>6. ASSUME NEW q \in Callers PROVE CallOK(call[q])'
  <2>1. PICK e \in CallType : CallOK(e) /\ call'[q] = e
    BY <1>2, <1>4
  <2>2. CallOK(e)'
    BY <1>5, <2>1
  <2> QED
    BY <2>1, <2>2 DEF CallOK, FetchOK
<1>7. HolderOK'
  BY <1>2 DEF IInv, HolderOK
<1>8. DedupIsExact'
  BY <1>2 DEF IInv, DedupIsExact, At, FreshValues
<1>9. PoolIsWholeFiles'
  BY DEF IInv, PoolIsWholeFiles
<1>10. ClaimsOK'
  <2>1. PICK logged \in SUBSET stored, claim \in [Callers -> SUBSET stored] :
               Claims(logged, claim)
    BY DEF IInv, ClaimsOK
  <2>2. CASE c.added = call[p].added
    <3>1. Claims(logged, claim)'
      BY <1>2, <2>1, <2>2 DEF Claims
    <3> QED
      BY <2>1, <3>1 DEF IInv, ClaimsOK
  <2>3. CASE c.added = 0
    <3> DEFINE mine == [claim EXCEPT ![p] = {}]
    <3>1. /\ mine \in [Callers -> SUBSET stored]
          /\ mine[p] = {} /\ \A q \in Callers \ {p} : mine[q] = claim[q]
      OBVIOUS
    <3> HIDE DEF mine
    <3>2. Cardinality({}) = 0
      BY FS_EmptySet
    <3>3. Claims(logged, mine)'
      BY <1>2, <2>1, <2>3, <3>1, <3>2 DEF Claims
    <3> QED
      BY <2>1, <3>1, <3>3 DEF IInv, ClaimsOK
  <2> QED
    BY <2>2, <2>3
<1> QED
  BY <1>3, <1>6, <1>7, <1>8, <1>9, <1>10 DEF IInv

\* A request that holds the advisory lock gives it back, another has nothing to give.
LEMMA MoveOff ==
  ASSUME IInv, NEW p \in Callers, NEW c \in CallType,
         call' = [call EXCEPT ![p] = c],
         UNCHANGED <<model, stored, audited>>, Grown,
         calls' \in 0..MaxCalls,
         lock' = IF lock = p THEN None ELSE lock,
         c.pc \notin {"dedup", "copy"},
         CallOK(c),
         c.added = 0 \/ c.added = call[p].added
  PROVE  IInv'
<1>1. lock' \in Callers \cup {None} /\ lock' # p
  BY SizeFacts DEF IInv, TypeOK
<1>2. \A q \in Callers \ {p} : lock' = q <=> lock = q
  BY SizeFacts
<1> QED
  BY <1>1, <1>2, StillStep

\* Outside the transaction there is nothing to give back.
LEMMA NotHolder ==
  ASSUME IInv, NEW p \in Callers, call[p].pc \notin {"dedup", "copy"}
  PROVE  lock # p
  BY DEF IInv, HolderOK

LEMMA BeginStep ==
  ASSUME IInv, NEW p \in Callers, NEW c \in CallType, Begin(p, c), CallOK(c),
         c.pc \notin {"dedup", "copy"}, c.added = 0
  PROVE  IInv'
<1>1. lock # p
  BY NotHolder DEF Begin, At
<1>2. calls' \in 0..MaxCalls
  BY SizeFacts DEF Begin, IInv, TypeOK
<1> QED
  BY <1>1, <1>2, MoveOff DEF Begin, Grown

LEMMA StartStep == ASSUME IInv, NEW p \in Callers, Start(p) PROVE IInv'
<1> USE SizeFacts
<1>1. ASSUME NEW q \in 1..MaxQuantity, TopUpCodes(p, q) PROVE IInv'
  <2> DEFINE c == [Idle EXCEPT !.pc = "mint", !.kind = "topup", !.left = q]
  <2>1. /\ c \in CallType /\ c.pc = "mint" /\ c.kind = "topup" /\ c.known = {}
        /\ c.fresh = {} /\ c.added = 0
    <3>1. q \in 0..MaxQuantity /\ <<>> \in Seq(Values) /\ 1 \in 1..MaxAttempts
      BY EmptySeq
    <3> QED
      BY <3>1 DEF CallType, Idle
  <2>2. CallOK(c)
    BY <1>1, <2>1 DEF TopUpCodes, CallOK
  <2> QED
    BY <1>1, <2>1, <2>2, BeginStep DEF TopUpCodes
<1>2. CASE SyncFromAGS(p)
  <2> DEFINE c == [Idle EXCEPT !.pc = "fetch", !.kind = "sync", !.known = Range(minted)]
  <2>1. Range(minted) \subseteq 1..MaxMinted
    BY RangeOfSeq DEF IInv, TypeOK
  <2>2. /\ c \in CallType /\ c.pc = "fetch" /\ c.kind = "sync" /\ c.known = Range(minted)
        /\ c.fresh = {} /\ c.added = 0 /\ c.hand = <<>>
    BY <2>1, IdleIsTyped DEF CallType, Idle
  <2>3. Len(c.hand) = 0 /\ Len(minted) \in Nat
    BY <2>2, EmptySeq, LenProperties DEF IInv, TypeOK
  <2>4. CallOK(c)
    BY <1>2, <2>2, <2>3 DEF SyncFromAGS, CallOK, FetchOK
  <2> QED
    BY <1>2, <2>2, <2>4, BeginStep DEF SyncFromAGS
<1>3. ASSUME NEW file \in Files, UploadCodes(p, file) PROVE IInv'
  <2> DEFINE c == [Idle EXCEPT !.pc = "lock", !.kind = "upload", !.hand = file]
  <2>1. CASE WellFormed(file) /\ file # <<>>
    <3>1. file \in Seq(Values)
      <4>1. Range(file) \subseteq Values
        BY DEF Values
      <4> QED
        BY <4>1, FilesAreSequences, SeqMonotonic
    <3>2. /\ c \in CallType /\ c.pc = "lock" /\ c.kind = "upload" /\ c.known = {}
          /\ c.fresh = {} /\ c.added = 0 /\ c.hand = file
      BY <3>1, IdleIsTyped DEF CallType, Idle
    <3>3. CallOK(c)
      BY <1>3, <2>1, <3>2 DEF UploadCodes, CallOK
    <3> QED
      BY <1>3, <2>1, <3>2, <3>3, BeginStep DEF UploadCodes
  <2>2. CASE ~(WellFormed(file) /\ file # <<>>)
    <3>1. Begin(p, Idle)
      BY <1>3, <2>2 DEF UploadCodes
    <3>2. Idle.pc = "idle" /\ Idle.added = 0
      BY DEF Idle
    <3> QED
      BY <3>1, <3>2, IdleIsTyped, IdleIsOK, BeginStep
  <2> QED
    BY <2>1, <2>2
<1> QED
  BY <1>1, <1>2, <1>3 DEF Start

\* The request ends and gives the lock back, if it held it.
LEMMA EndStep ==
  ASSUME IInv, NEW p \in Callers, Return(p), lock' = IF lock = p THEN None ELSE lock,
         UNCHANGED <<model, stored, audited, calls>>, Grown
  PROVE  IInv'
<1>1. Idle.pc = "idle" /\ Idle.added = 0
  BY DEF Idle
<1>2. calls' \in 0..MaxCalls
  BY DEF IInv, TypeOK
<1> QED
  BY <1>1, <1>2, IdleIsTyped, IdleIsOK, MoveOff DEF Return

LEMMA AbortStep == ASSUME IInv, NEW p \in Callers, Abort(p) PROVE IInv'
  BY EndStep DEF Abort, Grown

LEMMA CopyConflictsStep == ASSUME IInv, NEW p \in Callers, CopyConflicts(p) PROVE IInv'
<1>1. lock = p
  BY DEF CopyConflicts, At, IInv, HolderOK
<1> QED
  BY <1>1, EndStep DEF CopyConflicts, Grown

-----------------------------------------------------------------------------
(* The steps that talk to AGS.                                             *)

\* A generation that fits is one.
LEMMA GenerateGrows ==
  ASSUME TypeOK, NEW n \in 0..BatchSize, NEW i \in 0..Len(minted),
         Len(minted) + n <= MaxMinted, minted' = Generate(n, i)
  PROVE  Grown
<1>1. n \in Nat
  BY SizeFacts
<1> QED
  BY <1>1 DEF Grown

LEMMA CreateCodesStep ==
  ASSUME IInv, NEW p \in Callers, NEW n \in 0..BatchSize, NEW k \in 0..n,
         NEW i \in 0..Len(minted), CreateCodes(p, n, k, i)
  PROVE  IInv'
<1> DEFINE r == call[p]
           c == [r EXCEPT !.pc = IF k = 0 THEN "audit" ELSE "lock", !.hand = Born(k),
                          !.tries = 1]
<1> USE SizeFacts
<1>1. /\ r \in CallType /\ CallOK(r) /\ r.pc = "mint" /\ n \in Nat
      /\ Len(minted) + n <= MaxMinted /\ n <= Want(p) /\ k \in Nat /\ k <= n
      /\ Len(minted) \in Nat /\ Len(minted) + k <= MaxMinted
  <2>1. r \in CallType /\ CallOK(r) /\ r.pc = "mint"
    BY CallTyped DEF CreateCodes, At, IInv
  <2>2. Len(minted) \in Nat /\ MaxMinted \in Nat
    BY LenProperties DEF IInv, TypeOK
  <2>3. Len(minted) + n <= MaxMinted /\ n <= Want(p)
    BY DEF CreateCodes
  <2> QED
    BY <2>1, <2>2, <2>3
<1>2. /\ Born(k) \in Seq(1..MaxMinted) /\ Len(Born(k)) = k /\ DOMAIN Born(k) = 1..k
  BY <1>1, BornFacts DEF IInv
<1>3. Born(k) \in Seq(Values)
  BY <1>2, SeqMonotonic DEF Values
<1>4. /\ c \in CallType /\ c.pc \in {"audit", "lock"} /\ c.hand = Born(k)
      /\ c.pc = "audit" => k = 0
      /\ c.kind = r.kind /\ c.known = r.known /\ c.fresh = r.fresh /\ c.left = r.left
      /\ c.added = r.added
  <2>1. 1 \in 1..MaxAttempts
    OBVIOUS
  <2>2. c = [r EXCEPT !.pc = c.pc, !.hand = Born(k), !.tries = 1]
        /\ c.pc \in {"audit", "lock"} /\ (c.pc = "audit" => k = 0)
    BY <1>1 DEF CallType
  <2> QED
    BY <1>1, <1>3, <2>1, <2>2 DEF CallType
<1>5. r.kind = "topup" /\ r.known = {} /\ r.fresh = {} /\ model = "AGS_CAMPAIGN"
  BY <1>1 DEF CallOK
<1>6. k <= r.left
  BY <1>1 DEF Want, CallType
<1>7. k = 0 => Range(Born(k)) = {}
  BY <1>2 DEF Range
<1>8. CallOK(c)
  BY <1>2, <1>4, <1>5, <1>6, <1>7 DEF CallOK
<1>9. lock # p
  BY <1>1, NotHolder
<1>10. call' = [call EXCEPT ![p] = c]
  BY <1>1 DEF CreateCodes, CallType, IInv, TypeOK
<1>11. Grown /\ calls' \in 0..MaxCalls
  BY <1>1, GenerateGrows DEF CreateCodes, IInv, TypeOK
<1> HIDE DEF c
<1> QED
  BY <1>4, <1>8, <1>9, <1>10, <1>11, MoveOff DEF CreateCodes

LEMMA RetryStep ==
  ASSUME IInv, NEW p \in Callers, NEW fault, call[p].pc \in {"mint", "fetch"},
         RetryOrFail(p, fault), UNCHANGED <<model, stored, lock, audited, calls>>, Grown
  PROVE  IInv'
<1> DEFINE r == call[p]
           c == [r EXCEPT !.tries = r.tries + 1, !.hand = <<>>]
<1>1. r \in CallType /\ CallOK(r) /\ lock # p
  BY CallTyped, NotHolder DEF IInv
<1>2. CASE fault = "transient" /\ r.tries < MaxAttempts
  <2>1. call' = [call EXCEPT ![p] = c]
    <3>1. call \in [Callers -> CallType]
      BY CallTyped DEF IInv
    <3>2. \A q \in Callers : [call EXCEPT ![p] = c][q] = IF q = p THEN c ELSE call[q]
      BY <3>1
    <3>3. DOMAIN call' = Callers /\ call' = [q \in Callers |-> call'[q]]
      BY <3>1 DEF RetryOrFail
    <3>4. \A q \in Callers : call'[q] = IF q = p THEN c ELSE call[q]
      BY <1>2, <3>1 DEF RetryOrFail
    <3> QED
      BY <3>1, <3>2, <3>3, <3>4
  <2>2. r.tries + 1 \in 1..MaxAttempts
    BY <1>1, <1>2, SizeFacts DEF CallType
  <2>3. <<>> \in Seq(Values) /\ Len(<<>>) = 0
    BY EmptySeq
  <2>4. /\ c \in CallType /\ c.pc = r.pc /\ c.hand = <<>> /\ c.kind = r.kind
        /\ c.known = r.known /\ c.fresh = r.fresh /\ c.added = r.added
    BY <1>1, <2>2, <2>3 DEF CallType
  <2>5. Len(minted) \in Nat
    BY LenProperties DEF IInv, TypeOK
  <2>6. r.kind \in {"topup", "sync"}
    BY <1>1 DEF CallOK
  <2>7. CallOK(c)
    BY <1>1, <2>3, <2>4, <2>5, <2>6 DEF CallOK, FetchOK
  <2>8. calls' \in 0..MaxCalls
    BY DEF IInv, TypeOK
  <2> HIDE DEF c
  <2> QED
    BY <1>1, <2>1, <2>4, <2>7, <2>8, MoveOff
<1>3. CASE ~(fault = "transient" /\ r.tries < MaxAttempts)
  BY <1>1, <1>3, EndStep DEF RetryOrFail, Return
<1> QED
  BY <1>2, <1>3

LEMMA CreateCodesFailsStep ==
  ASSUME IInv, NEW p \in Callers, NEW n \in 0..BatchSize, NEW i \in 0..Len(minted),
         NEW fault \in Faults, CreateCodesFails(p, n, i, fault)
  PROVE  IInv'
<1>1. Grown
  BY GenerateGrows DEF CreateCodesFails, IInv
<1> QED
  BY <1>1, RetryStep DEF CreateCodesFails, At

LEMMA FetchFailsStep ==
  ASSUME IInv, NEW p \in Callers, NEW fault \in Faults, FetchFails(p, fault)
  PROVE  IInv'
  BY RetryStep DEF FetchFails, At, Grown

\* A page holds what follows the offset; a short one reaches to the end.
LEMMA PageFacts ==
  ASSUME TypeOK, NEW offset \in Nat
  PROVE  LET page == Page(offset)
         IN /\ page \in Seq(1..MaxMinted) /\ Len(page) \in Nat /\ Len(minted) \in Nat
            /\ \A k \in 1..Len(page) : page[k] = minted[offset + k]
            /\ Len(page) # PageSize => Len(minted) <= offset + Len(page)
<1> DEFINE S == 1..MaxMinted
           l == Len(minted)
           last == offset + PageSize
           n == IF last < l THEN last ELSE l
           page == SubSeq(minted, offset + 1, n)
<1> USE SizeFacts
<1>1. l \in Nat /\ \A k \in 1..l : minted[k] \in S
  BY LenProperties, ElementOfSeq DEF TypeOK
<1>2. n \in Nat /\ n <= l /\ n <= last /\ (n = last \/ n = l)
  BY <1>1
<1>3. \A k \in offset + 1..n : minted[k] \in S
  BY <1>1, <1>2
<1>4. /\ page \in Seq(S) /\ Len(page) = IF offset + 1 <= n THEN n - (offset + 1) + 1 ELSE 0
      /\ \A k \in 1..n - (offset + 1) + 1 : page[k] = minted[offset + 1 + k - 1]
  BY <1>2, <1>3, SubSeqProperties
<1>5. Page(offset) = page
  BY DEF Page
<1> HIDE DEF page, n, last, S
<1>6. Len(page) \in Nat
  BY <1>2, <1>4
<1>7. ASSUME NEW k \in 1..Len(page) PROVE page[k] = minted[offset + k]
  <2>1. k \in 1..n - (offset + 1) + 1 /\ offset + 1 + k - 1 = offset + k
    BY <1>2, <1>4
  <2>2. page[k] = minted[offset + 1 + k - 1]
    BY <1>4, <2>1
  <2> QED
    BY <2>1, <2>2
<1>8. Len(page) # PageSize => l <= offset + Len(page)
  BY <1>1, <1>2, <1>4 DEF last
<1> QED
  BY <1>1, <1>4, <1>5, <1>6, <1>7, <1>8 DEF S

LEMMA FetchPageStep == ASSUME IInv, NEW p \in Callers, FetchPage(p) PROVE IInv'
<1> DEFINE r == call[p]
           page == Page(Len(r.hand))
           all == r.hand \o page
           pc == IF Len(page) = PageSize THEN "fetch"
                 ELSE IF all = <<>> THEN "audit" ELSE "lock"
           c == [r EXCEPT !.hand = all, !.pc = pc]
<1>1. r \in CallType /\ CallOK(r) /\ r.pc = "fetch"
  BY CallTyped DEF FetchPage, At, IInv
<1>2. r.kind = "sync" /\ FetchOK(r) /\ r.fresh = {} /\ model = "AGS_CAMPAIGN"
  BY <1>1 DEF CallOK
<1>3. r.hand \in Seq(Values) /\ Len(r.hand) \in Nat
  BY <1>1, LenProperties DEF CallType
<1>4. /\ page \in Seq(1..MaxMinted) /\ Len(page) \in Nat /\ Len(minted) \in Nat
      /\ \A k \in 1..Len(page) : page[k] = minted[Len(r.hand) + k]
      /\ Len(page) # PageSize => Len(minted) <= Len(r.hand) + Len(page)
  BY <1>3, PageFacts DEF IInv
<1>5. page \in Seq(Values)
  <2>1. 1..MaxMinted \subseteq Values
    BY DEF Values
  <2> HIDE DEF page
  <2> QED
    BY <1>4, <2>1, SeqMonotonic
<1>6. /\ DOMAIN page = 1..Len(page) /\ DOMAIN minted = 1..Len(minted)
  BY <1>4, LenProperties DEF IInv, TypeOK
<1> HIDE DEF page
<1>7. /\ all \in Seq(Values) /\ Len(all) = Len(r.hand) + Len(page)
      /\ Range(all) = Range(r.hand) \cup Range(page)
  BY <1>3, <1>5, ConcatProperties, RangeConcatenation
<1> HIDE DEF all
<1>8. ASSUME NEW k \in 1..Len(minted), k <= Len(all), minted[k] \in r.known
      PROVE  minted[k] \in Range(all)
  <2>1. CASE k <= Len(r.hand)
    BY <1>2, <1>7, <1>8, <2>1 DEF FetchOK
  <2>2. CASE ~(k <= Len(r.hand))
    <3> DEFINE j == k - Len(r.hand)
    <3>1. j \in 1..Len(page) /\ Len(r.hand) + j = k
      BY <1>3, <1>4, <1>7, <1>8, <2>2
    <3>2. page[j] = minted[k]
      BY <1>4, <3>1
    <3>3. page[j] \in Range(page)
      BY <1>6, <3>1 DEF Range
    <3> QED
      BY <1>7, <3>2, <3>3
  <2> QED
    BY <2>1, <2>2
<1>9. ASSUME Len(page) # PageSize PROVE r.known \subseteq Range(all)
  <2> SUFFICES ASSUME NEW v \in r.known PROVE v \in Range(all)
    OBVIOUS
  <2>1. PICK k \in 1..Len(minted) : minted[k] = v
    BY <1>2, <1>6 DEF FetchOK, Range
  <2>2. k <= Len(all)
    BY <1>3, <1>4, <1>7, <1>9
  <2> QED
    BY <1>8, <2>1, <2>2
<1>10. all = <<>> => Range(all) = {}
  BY IdleIsTyped
<1>11. /\ c \in CallType /\ c.hand = all /\ c.pc = pc /\ c.kind = r.kind
       /\ c.known = r.known /\ c.fresh = r.fresh /\ c.added = r.added /\ c.left = r.left
  BY <1>1, <1>7 DEF CallType
<1>12. call' = [call EXCEPT ![p] = c]
  BY DEF FetchPage, all, page
<1> HIDE DEF c
<1>13. CallOK(c)
  <2>1. CASE pc = "fetch"
    <3>1. FetchOK(c)
      BY <1>2, <1>8, <1>11 DEF FetchOK
    <3> QED
      BY <1>2, <1>11, <2>1, <3>1 DEF CallOK
  <2>2. CASE pc = "audit"
    BY <1>2, <1>9, <1>10, <1>11, <2>2 DEF CallOK
  <2>3. CASE pc = "lock"
    BY <1>2, <1>9, <1>11, <2>3 DEF CallOK
  <2> QED
    BY <2>1, <2>2, <2>3
<1>14. lock # p
  BY <1>1, NotHolder
<1>15. calls' \in 0..MaxCalls /\ Grown
  BY DEF FetchPage, IInv, TypeOK, Grown
<1> QED
  BY <1>11, <1>12, <1>13, <1>14, <1>15, MoveOff DEF FetchPage

-----------------------------------------------------------------------------
(* The insert transaction.                                                 *)

LEMMA AcquireLockStep == ASSUME IInv, NEW p \in Callers, AcquireLock(p) PROVE IInv'
<1> DEFINE r == call[p]
           c == [r EXCEPT !.pc = "dedup"]
<1>1. r \in CallType /\ CallOK(r) /\ r.pc = "lock" /\ lock = None
  BY CallTyped DEF AcquireLock, At, LockIsFree, IInv
<1>2. /\ c \in CallType /\ c.hand = r.hand /\ c.pc = "dedup" /\ c.kind = r.kind
      /\ c.known = r.known /\ c.fresh = r.fresh /\ c.added = r.added /\ c.left = r.left
  BY <1>1 DEF CallType
<1>3. CallOK(c)
  BY <1>1, <1>2 DEF CallOK
<1>4. call' = [call EXCEPT ![p] = c]
  BY DEF AcquireLock, Goto
<1>5. /\ lock' = p /\ lock' \in Callers \cup {None}
      /\ \A q \in Callers \ {p} : lock' = q <=> lock = q
  BY <1>1, SizeFacts DEF AcquireLock
<1>6. calls' \in 0..MaxCalls /\ Grown
  BY DEF AcquireLock, IInv, TypeOK, Grown
<1> HIDE DEF c
<1> QED
  BY <1>2, <1>3, <1>4, <1>5, <1>6, StillStep DEF AcquireLock

\* After an insert the request goes on to its next batch or to its audit row.
LEMMA AfterInsertFacts ==
  ASSUME TypeOK, NEW p \in Callers, NEW n \in Nat, CallOK(call[p]),
         call[p].pc \in {"dedup", "copy"}, NEW S, Range(call[p].hand) \subseteq S
  PROVE  LET r == call[p]
             c == AfterInsert(p, n)
         IN /\ c \in CallType /\ c.pc \in {"mint", "audit"} /\ c.added = r.added + n
            /\ c.kind = r.kind /\ c.known = r.known /\ c.fresh = {}
            /\ c.pc = "mint" => c.kind = "topup"
            /\ c.pc = "audit" => c.hand = r.hand /\ Range(c.hand) \cup c.known \subseteq S
<1> DEFINE r == call[p]
           left == IF r.kind = "topup" THEN r.left - Len(r.hand) ELSE 0
           more == left > 0 /\ Len(r.hand) = Want(p)
           pc == IF more THEN "mint" ELSE "audit"
           hand == IF more THEN <<>> ELSE r.hand
           c == [r EXCEPT !.pc = pc, !.left = left, !.added = r.added + n,
                          !.fresh = {}, !.hand = hand]
<1>1. r \in CallType /\ r.known \subseteq Range(r.hand)
  BY CallTyped DEF CallOK
<1>2. Len(r.hand) \in Nat /\ (r.kind = "topup" => Len(r.hand) <= r.left)
  BY <1>1, LenProperties DEF CallOK, CallType
<1>3. left \in 0..MaxQuantity
  BY <1>1, <1>2, SizeFacts DEF CallType
<1>4. hand \in Seq(Values)
  BY <1>1, EmptySeq DEF CallType
<1>5. r.added + n \in Nat
  BY <1>1 DEF CallType
<1>6. more => r.kind = "topup"
  BY <1>2
<1>7. AfterInsert(p, n) = c
  BY DEF AfterInsert
<1>8. pc \in {"mint", "audit"} /\ (pc = "mint" => more) /\ (pc = "audit" => hand = r.hand)
  OBVIOUS
<1> HIDE DEF left, hand, pc, more
<1>9. /\ c \in CallType /\ c.pc = pc /\ c.added = r.added + n /\ c.kind = r.kind
      /\ c.known = r.known /\ c.fresh = {} /\ c.hand = hand
  BY <1>1, <1>3, <1>4, <1>5, <1>8 DEF CallType
<1> QED
  BY <1>1, <1>6, <1>7, <1>8, <1>9

LEMMA ReleasedWithNothing ==
  ASSUME IInv, NEW p \in Callers, At(p, "dedup"), call[p].kind # "upload",
         Unseen(call[p].hand) = {}, call' = [call EXCEPT ![p] = AfterInsert(p, 0)],
         lock' = None, UNCHANGED <<model, minted, stored, audited, calls>>
  PROVE  IInv'
<1> DEFINE r == call[p]
           c == AfterInsert(p, 0)
<1>1. r \in CallType /\ CallOK(r) /\ r.pc = "dedup"
  BY CallTyped DEF At, IInv
<1>2. Range(r.hand) \subseteq stored
  BY DEF Unseen, Range
<1>3. /\ c \in CallType /\ c.pc \in {"mint", "audit"} /\ c.added = r.added + 0
      /\ c.kind = r.kind /\ c.known = r.known /\ c.fresh = {}
      /\ c.pc = "mint" => c.kind = "topup"
      /\ c.pc = "audit" => Range(c.hand) \cup c.known \subseteq stored
  BY <1>1, <1>2, AfterInsertFacts DEF IInv
<1>4. c.added = r.added
  BY <1>1, <1>3 DEF CallType
<1> HIDE DEF c
<1>5. CallOK(c)
  BY <1>1, <1>3 DEF CallOK
<1>6. lock' = IF lock = p THEN None ELSE lock
  BY <1>1 DEF IInv, HolderOK
<1>7. calls' \in 0..MaxCalls /\ Grown
  BY DEF IInv, TypeOK, Grown
<1> QED
  BY <1>3, <1>4, <1>5, <1>6, <1>7, MoveOff DEF c

LEMMA DedupStep == ASSUME IInv, NEW p \in Callers, Dedup(p) PROVE IInv'
<1> DEFINE r == call[p]
           fresh == Unseen(r.hand)
           c == [r EXCEPT !.pc = "copy", !.fresh = fresh]
<1>1. r \in CallType /\ CallOK(r) /\ r.pc = "dedup" /\ lock = p
  BY CallTyped DEF Dedup, At, IInv, HolderOK
<1>2. UNCHANGED <<model, minted, stored, audited, calls>> /\ Grown
  BY DEF Dedup, Grown
<1>3. CASE Rejected(p, fresh) /\ lock' = None /\ Return(p)
  BY <1>1, <1>2, <1>3, EndStep
<1>4. CASE /\ r.kind # "upload" /\ fresh = {}
           /\ lock' = None /\ call' = [call EXCEPT ![p] = AfterInsert(p, 0)]
  BY <1>2, <1>4, ReleasedWithNothing DEF Dedup
<1>5. CASE /\ fresh # {} /\ ~Rejected(p, fresh)
           /\ call' = [call EXCEPT ![p].pc = "copy", ![p].fresh = fresh]
           /\ UNCHANGED lock
  <2>1. /\ fresh \subseteq DOMAIN r.hand
        /\ \A k \in DOMAIN r.hand : k \in fresh \/ r.hand[k] \in stored
        /\ \A k \in fresh : r.hand[k] \notin stored
        /\ r.kind = "upload" => fresh = DOMAIN r.hand
    BY <1>5 DEF Unseen, Rejected
  <2>2. fresh \in SUBSET Nat
    <3>1. DOMAIN r.hand \subseteq Nat
      BY <1>1, LenProperties DEF CallType
    <3> QED
      BY <2>1, <3>1
  <2> HIDE DEF fresh
  <2>3. /\ c \in CallType /\ c.hand = r.hand /\ c.pc = "copy" /\ c.kind = r.kind
        /\ c.known = r.known /\ c.fresh = fresh /\ c.added = r.added /\ c.left = r.left
    BY <1>1, <2>2 DEF CallType
  <2>4. call' = [call EXCEPT ![p] = c]
    BY <1>5
  <2> HIDE DEF c
  <2>5. CallOK(c)
    BY <1>1, <2>1, <2>3 DEF CallOK
  <2>6. {c.hand[k] : k \in c.fresh} \cap stored = {}
    BY <2>1, <2>3
  <2>7. calls' \in 0..MaxCalls /\ lock' = p /\ lock' \in Callers \cup {None}
    BY <1>1, <1>2, <1>5 DEF IInv, TypeOK
  <2>8. \A q \in Callers \ {p} : lock' = q <=> lock = q
    BY <1>5
  <2> QED
    BY <1>2, <2>3, <2>4, <2>5, <2>6, <2>7, <2>8, StillStep
<1> QED
  BY <1>3, <1>4, <1>5 DEF Dedup

\* The values of a copy are as many as its places.
LEMMA FreshCount ==
  ASSUME TypeOK, NEW p \in Callers, CallOK(call[p]), call[p].pc = "copy", Copyable(p)
  PROVE  /\ IsFiniteSet(FreshValues(p))
         /\ Cardinality(FreshValues(p)) = Cardinality(call[p].fresh)
         /\ Cardinality(call[p].fresh) \in Nat
         /\ FreshValues(p) \subseteq Values /\ FreshValues(p) \cap stored = {}
<1> DEFINE r == call[p]
           f == [k \in r.fresh |-> r.hand[k]]
<1>1. r.hand \in Seq(Values) /\ r.fresh \subseteq DOMAIN r.hand
  BY CallTyped DEF CallOK, CallType
<1>2. DOMAIN r.hand = 1..Len(r.hand) /\ Len(r.hand) \in Nat
  BY <1>1, LenProperties
<1>3. IsFiniteSet(r.fresh)
  <2>1. IsFiniteSet(1..Len(r.hand))
    BY <1>2, FS_Interval
  <2>2. r.fresh \in SUBSET (1..Len(r.hand))
    BY <1>1, <1>2
  <2> QED
    BY <2>1, <2>2, FS_Subset
<1>4. f \in Bijection(r.fresh, FreshValues(p))
  <2>1. f \in [r.fresh -> FreshValues(p)]
    BY DEF FreshValues
  <2>2. \A t \in FreshValues(p) : \E k \in r.fresh : f[k] = t
    BY DEF FreshValues
  <2>3. \A j, k \in r.fresh : f[j] = f[k] => j = k
    BY DEF Copyable
  <2> QED
    BY <2>1, <2>2, <2>3 DEF Bijection, Injection, Surjection, IsInjective
<1>5. FreshValues(p) \subseteq Values
  BY <1>1, <1>2, ElementOfSeq DEF FreshValues
<1>6. ExistsBijection(r.fresh, FreshValues(p))
  BY <1>4 DEF ExistsBijection
<1>7. FreshValues(p) \cap stored = {}
  BY DEF Copyable
<1> QED
  BY <1>3, <1>5, <1>6, <1>7, FS_Bijection, FS_CardinalityType

\* The pool of files grows by one whole file, which shares no code with the others.
LEMMA PoolGrows ==
  ASSUME IInv, NEW p \in Callers, call[p].pc = "copy", Copyable(p), model' = model,
         stored' = stored \cup FreshValues(p)
  PROVE  PoolIsWholeFiles'
<1> SUFFICES ASSUME model = "STEAM_KEYS"
             PROVE  \E taken \in SUBSET Files :
                      /\ stored' = UNION {Range(f) : f \in taken}
                      /\ \A f, g \in taken : f # g => Range(f) \cap Range(g) = {}
                      /\ \A f \in taken : Range(f) \cap Malformed = {}
  BY DEF PoolIsWholeFiles
<1> DEFINE file == call[p].hand
<1>1. CallOK(call[p])
  BY DEF IInv
<1>2. call[p].kind = "upload"
  BY <1>1 DEF CallOK
<1>3. file \in Files /\ WellFormed(file) /\ call[p].fresh = DOMAIN file
  BY <1>1, <1>2 DEF CallOK
<1>4. FreshValues(p) = Range(file) /\ Range(file) \cap stored = {}
      /\ Range(file) \cap Malformed = {}
  BY <1>3 DEF FreshValues, Copyable, Range, WellFormed
<1>5. PICK taken \in SUBSET Files :
        /\ stored = UNION {Range(f) : f \in taken}
        /\ \A f, g \in taken : f # g => Range(f) \cap Range(g) = {}
        /\ \A f \in taken : Range(f) \cap Malformed = {}
  BY DEF IInv, PoolIsWholeFiles
<1> DEFINE more == taken \cup {file}
<1> HIDE DEF file
<1>6. stored' = UNION {Range(f) : f \in more}
  BY <1>4, <1>5
<1>7. \A f \in taken : Range(f) \cap Range(file) = {}
  BY <1>4, <1>5
<1>8. \A f, g \in more : f # g => Range(f) \cap Range(g) = {}
  BY <1>5, <1>7
<1>9. \A f \in more : Range(f) \cap Malformed = {}
  BY <1>4, <1>5
<1>10. more \in SUBSET Files
  BY <1>3
<1> HIDE DEF more
<1> QED
  BY <1>6, <1>8, <1>9, <1>10

\* The codes a copy adds are claimed by nobody yet; the request claims them, or nobody ever
\* will.
LEMMA ClaimsGrow ==
  ASSUME IInv, NEW p \in Callers, NEW c, call' = [call EXCEPT ![p] = c],
         NEW V, IsFiniteSet(V), V \cap stored = {}, stored' = stored \cup V,
         audited' = audited,
         c.added = 0 \/ c.added = call[p].added + Cardinality(V)
  PROVE  ClaimsOK'
<1>1. PICK logged \in SUBSET stored, claim \in [Callers -> SUBSET stored] :
             Claims(logged, claim)
  BY DEF IInv, ClaimsOK
<1>2. IsFiniteSet(stored)
  BY DEF IInv, ClaimsOK
<1>3. IsFiniteSet(stored')
  BY <1>2, FS_Union
<1>4. logged \in SUBSET stored' /\ \A q \in Callers : claim[q] \subseteq stored
  OBVIOUS
<1>5. call'[p] = c /\ \A q \in Callers \ {p} : call'[q] = call[q]
  BY DEF IInv, TypeOK
<1>6. CASE c.added = 0
  <2> DEFINE mine == [claim EXCEPT ![p] = {}]
  <2>1. /\ mine \in [Callers -> SUBSET stored']
        /\ mine[p] = {} /\ \A q \in Callers \ {p} : mine[q] = claim[q]
    BY <1>4
  <2> HIDE DEF mine
  <2>2. Claims(logged, mine)'
    BY <1>1, <1>5, <1>6, <2>1, FS_EmptySet DEF Claims
  <2> QED
    BY <1>3, <1>4, <2>1, <2>2 DEF ClaimsOK
<1>7. CASE c.added = call[p].added + Cardinality(V)
  <2> DEFINE mine == [claim EXCEPT ![p] = claim[p] \cup V]
  <2>1. /\ mine \in [Callers -> SUBSET stored']
        /\ mine[p] = claim[p] \cup V /\ \A q \in Callers \ {p} : mine[q] = claim[q]
    BY <1>4
  <2> HIDE DEF mine
  <2>2. IsFiniteSet(claim[p]) /\ claim[p] \cap V = {}
    BY <1>2, <1>4, FS_Subset
  <2>3. Cardinality(mine[p]) = c.added
    <3>1. Cardinality(claim[p] \cup V) =
            Cardinality(claim[p]) + Cardinality(V) - Cardinality(claim[p] \cap V)
      BY <2>2, FS_Union
    <3>2. Cardinality(claim[p] \cap V) = 0
      BY <2>2, FS_EmptySet
    <3>3. Cardinality(claim[p]) = call[p].added
      BY <1>1 DEF Claims
    <3>4. Cardinality(claim[p]) \in Nat /\ Cardinality(V) \in Nat
      BY <2>2, FS_CardinalityType
    <3> QED
      BY <1>7, <2>1, <3>1, <3>2, <3>3, <3>4
  <2>4. V \cap logged = {} /\ \A q \in Callers : claim[q] \cap V = {}
    BY <1>4
  <2>5. \A q \in Callers : Cardinality(mine[q]) = call'[q].added /\ mine[q] \cap logged = {}
    BY <1>1, <1>5, <2>1, <2>3, <2>4 DEF Claims
  <2>6. \A q, w \in Callers : q # w => mine[q] \cap mine[w] = {}
    BY <1>1, <2>1, <2>4 DEF Claims
  <2>7. Claims(logged, mine)'
    BY <1>1, <2>5, <2>6 DEF Claims
  <2> QED
    BY <1>3, <1>4, <2>1, <2>7 DEF ClaimsOK
<1> QED
  BY <1>6, <1>7

\* The rows and the lock of a commit, answered or not.
LEMMA CommitStep ==
  ASSUME IInv, NEW p \in Callers, call[p].pc = "copy", Copyable(p), NEW c \in CallType,
         call' = [call EXCEPT ![p] = c], stored' = stored \cup FreshValues(p),
         lock' = None, UNCHANGED <<model, minted, audited, calls>>,
         c.pc \notin {"dedup", "copy"}, CallOK(c)',
         c.added = 0 \/ c.added = call[p].added + Cardinality(call[p].fresh)
  PROVE  IInv'
<1>1. TypeOK /\ MintedOK /\ call \in [Callers -> CallType] /\ Grown
  BY CallTyped DEF IInv, Grown
<1>2. /\ IsFiniteSet(FreshValues(p))
      /\ Cardinality(FreshValues(p)) = Cardinality(call[p].fresh)
      /\ FreshValues(p) \subseteq Values /\ FreshValues(p) \cap stored = {}
  BY FreshCount DEF IInv
<1>3. /\ call' \in [Callers -> CallType] /\ call'[p] = c
      /\ \A q \in Callers \ {p} : call'[q] = call[q]
  BY <1>1
<1>4. TypeOK' /\ MintedOK'
  BY <1>1, <1>2, <1>3 DEF TypeOK, MintedOK, CallType
<1>5. \A q \in Callers : CallOK(call[q])'
  <2>1. \A e \in CallType : CallOK(e) => CallOK(e)'
    BY <1>1, KnowledgeKeeps
  <2> SUFFICES ASSUME NEW q \in Callers PROVE CallOK(call[q])'
    OBVIOUS
  <2>2. CASE q = p
    BY <1>3, <2>2 DEF CallOK, FetchOK
  <2>3. CASE q # p
    <3>1. PICK e \in CallType : CallOK(e) /\ call'[q] = e
      BY <1>1, <1>3, <2>3 DEF IInv
    <3>2. CallOK(e)'
      BY <2>1, <3>1
    <3> QED
      BY <3>1, <3>2 DEF CallOK, FetchOK
  <2> QED
    BY <2>2, <2>3
<1>6. lock = p /\ \A q \in Callers : ~(call'[q].pc \in {"dedup", "copy"})
  BY <1>3 DEF IInv, HolderOK
<1>7. HolderOK' /\ DedupIsExact'
  BY <1>6, SizeFacts DEF HolderOK, DedupIsExact, At
<1>8. PoolIsWholeFiles'
  BY PoolGrows
<1>9. ClaimsOK'
  BY <1>2, ClaimsGrow
<1> QED
  BY <1>4, <1>5, <1>7, <1>8, <1>9 DEF IInv

LEMMA CopyAndCommitStep == ASSUME IInv, NEW p \in Callers, CopyAndCommit(p) PROVE IInv'
<1> DEFINE r == call[p]
           n == Cardinality(r.fresh)
<1>1. r \in CallType /\ CallOK(r) /\ r.pc = "copy" /\ Copyable(p)
  BY CallTyped DEF CopyAndCommit, At, IInv
<1>2. n \in Nat
  BY <1>1, FreshCount DEF IInv
<1>3. Range(r.hand) \subseteq stored'
  BY <1>1 DEF CopyAndCommit, CallOK, FreshValues, Range
<1>4. PICK c \in CallType :
        /\ c = AfterInsert(p, n)
        /\ c.pc \in {"mint", "audit"} /\ c.added = r.added + n
        /\ c.kind = r.kind /\ c.known = r.known /\ c.fresh = {}
        /\ c.pc = "mint" => c.kind = "topup"
        /\ c.pc = "audit" => c.hand = r.hand /\ Range(c.hand) \cup c.known \subseteq stored'
  BY <1>1, <1>2, <1>3, AfterInsertFacts DEF IInv
<1>5. call' = [call EXCEPT ![p] = c] /\ model' = model
  BY <1>4 DEF CopyAndCommit
<1>6. c.kind = "upload" => c.hand = r.hand
  BY <1>4
<1>7. CallOK(c)'
  BY <1>1, <1>4, <1>5, <1>6 DEF CallOK
<1> QED
  BY <1>1, <1>4, <1>5, <1>7, CommitStep DEF CopyAndCommit

LEMMA CommitUnansweredStep == ASSUME IInv, NEW p \in Callers, CommitUnanswered(p) PROVE IInv'
<1>1. Idle.pc = "idle" /\ Idle.added = 0
  BY DEF Idle
<1> QED
  BY <1>1, IdleIsTyped, IdleIsOK, CommitStep DEF CommitUnanswered, Return, At

-----------------------------------------------------------------------------
(* The audit row.                                                          *)

\* The log takes over the claim of the request.
LEMMA AuditStep == ASSUME IInv, NEW p \in Callers, Audit(p) PROVE IInv'
<1>1. TypeOK /\ MintedOK /\ call \in [Callers -> CallType] /\ Grown /\ lock # p
  BY CallTyped, NotHolder DEF Audit, At, IInv, Grown
<1>2. /\ call' \in [Callers -> CallType] /\ call'[p] = Idle
      /\ \A q \in Callers \ {p} : call'[q] = call[q]
      /\ audited' = audited + call[p].added
  BY <1>1, IdleIsTyped DEF Audit, Return, AuditedQuantity
<1>3. UNCHANGED <<model, minted, stored, lock, calls>>
  BY DEF Audit
<1>4. call[p].added \in Nat /\ audited \in Nat
  BY <1>1 DEF TypeOK, CallType
<1>5. TypeOK' /\ MintedOK'
  <2>1. audited' \in Nat
    BY <1>2, <1>4
  <2> QED
    BY <1>1, <1>2, <1>3, <2>1 DEF TypeOK, MintedOK, CallType
<1>6. \A q \in Callers : CallOK(call[q])'
  <2> SUFFICES ASSUME NEW q \in Callers PROVE CallOK(call[q])'
    OBVIOUS
  <2>1. CASE q = p
    BY <1>2, <2>1, IdleIsOK DEF CallOK, FetchOK
  <2>2. CASE q # p
    BY <1>2, <1>3, <2>2 DEF IInv, CallOK, FetchOK
  <2> QED
    BY <2>1, <2>2
<1>7. HolderOK' /\ DedupIsExact' /\ PoolIsWholeFiles'
  BY <1>1, <1>2, <1>3 DEF IInv, HolderOK, DedupIsExact, At, FreshValues, PoolIsWholeFiles,
     Idle
<1>8. ClaimsOK'
  <2>1. PICK logged \in SUBSET stored, claim \in [Callers -> SUBSET stored] :
               Claims(logged, claim)
    BY DEF IInv, ClaimsOK
  <2>2. IsFiniteSet(stored)
    BY DEF IInv, ClaimsOK
  <2>3. /\ \A q \in Callers : claim[q] \in SUBSET stored
        /\ Cardinality(logged) = audited
        /\ \A q \in Callers : Cardinality(claim[q]) = call[q].added
                              /\ claim[q] \cap logged = {}
        /\ \A q, w \in Callers : q # w => claim[q] \cap claim[w] = {}
    BY <2>1 DEF Claims
  <2> DEFINE more == logged \cup claim[p]
             mine == [claim EXCEPT ![p] = {}]
  <2>4. Cardinality(more) = audited'
    <3>1. IsFiniteSet(logged) /\ IsFiniteSet(claim[p])
      BY <2>2, <2>3, FS_Subset
    <3>2. Cardinality(more) =
            Cardinality(logged) + Cardinality(claim[p]) - Cardinality(logged \cap claim[p])
      BY <3>1, FS_Union
    <3>3. Cardinality(logged \cap claim[p]) = 0
      <4>1. logged \cap claim[p] = {}
        BY <2>3
      <4> QED
        BY <4>1, FS_EmptySet
    <3>4. Cardinality(logged) = audited /\ Cardinality(claim[p]) = call[p].added
      BY <2>3
    <3> HIDE DEF more
    <3> QED
      BY <1>2, <1>4, <3>2, <3>3, <3>4
  <2>5. /\ mine \in [Callers -> SUBSET stored]
        /\ mine[p] = {} /\ \A q \in Callers \ {p} : mine[q] = claim[q]
    BY <2>3
  <2>6. more \in SUBSET stored
    BY <2>3
  <2> HIDE DEF mine
  <2>7. \A q \in Callers : mine[q] \cap more = {}
    BY <2>3, <2>5
  <2> HIDE DEF more
  <2>8. \A q \in Callers : Cardinality(mine[q]) = call'[q].added
    <3>1. Cardinality(mine[p]) = 0 /\ call'[p].added = 0
      BY <1>2, <2>5, FS_EmptySet DEF Idle
    <3>2. \A q \in Callers \ {p} : Cardinality(mine[q]) = call'[q].added
      BY <1>2, <2>3, <2>5
    <3> QED
      BY <3>1, <3>2
  <2>9. \A q, w \in Callers : q # w => mine[q] \cap mine[w] = {}
    BY <2>3, <2>5
  <2>10. Claims(more, mine)'
    BY <2>4, <2>7, <2>8, <2>9 DEF Claims
  <2> QED
    BY <1>3, <2>2, <2>5, <2>6, <2>10 DEF ClaimsOK
<1> QED
  BY <1>5, <1>6, <1>7, <1>8 DEF IInv

-----------------------------------------------------------------------------
(* The theorems.                                                           *)

LEMMA NextIInv == IInv /\ [Next]_vars => IInv'
<1> SUFFICES ASSUME IInv, [Next]_vars PROVE IInv'
  OBVIOUS
<1>1. ASSUME NEW p \in Callers, Start(p) PROVE IInv'
  BY <1>1, StartStep
<1>2. ASSUME NEW p \in Callers, Continue(p) PROVE IInv'
  <2>1. ASSUME NEW n \in 0..BatchSize, NEW i \in 0..Len(minted), NEW k \in 0..n,
               CreateCodes(p, n, k, i)
        PROVE  IInv'
    BY <2>1, CreateCodesStep
  <2>2. ASSUME NEW n \in 0..BatchSize, NEW i \in 0..Len(minted), NEW f \in Faults,
               CreateCodesFails(p, n, i, f)
        PROVE  IInv'
    BY <2>2, CreateCodesFailsStep
  <2>3. CASE FetchPage(p)
    BY <2>3, FetchPageStep
  <2>4. ASSUME NEW f \in Faults, FetchFails(p, f) PROVE IInv'
    BY <2>4, FetchFailsStep
  <2>5. CASE AcquireLock(p)
    BY <2>5, AcquireLockStep
  <2>6. CASE Dedup(p)
    BY <2>6, DedupStep
  <2>7. CASE CopyAndCommit(p)
    BY <2>7, CopyAndCommitStep
  <2>8. CASE CommitUnanswered(p)
    BY <2>8, CommitUnansweredStep
  <2>9. CASE CopyConflicts(p)
    BY <2>9, CopyConflictsStep
  <2>10. CASE Audit(p)
    BY <2>10, AuditStep
  <2> QED
    BY <1>2, <2>1, <2>2, <2>3, <2>4, <2>5, <2>6, <2>7, <2>8, <2>9, <2>10 DEF Continue
<1>3. ASSUME NEW p \in Callers, Abort(p) PROVE IInv'
  BY <1>3, AbortStep
<1>4. CASE UNCHANGED vars
  <2>1. UNCHANGED <<model, minted, stored, lock, call, audited, calls>>
    BY <1>4 DEF vars
  <2>2. TypeOK' /\ MintedOK' /\ HolderOK'
    BY <2>1 DEF IInv, TypeOK, MintedOK, HolderOK
  <2>3. \A p \in Callers : CallOK(call[p])'
    BY <2>1 DEF IInv, CallOK, FetchOK
  <2>4. DedupIsExact' /\ PoolIsWholeFiles'
    BY <2>1 DEF IInv, DedupIsExact, At, FreshValues, PoolIsWholeFiles
  <2>5. ClaimsOK'
    BY <2>1 DEF IInv, ClaimsOK, Claims
  <2> QED
    BY <2>2, <2>3, <2>4, <2>5 DEF IInv
<1> QED
  BY <1>1, <1>2, <1>3, <1>4 DEF Next

\* The inductive invariant holds in every reachable state of the top-ups, syncs and uploads
\* of pkg/service/topup_codes.go and codes.go.
THEOREM SpecIInv == Spec => []IInv
  BY InitIInv, NextIInv, PTL DEF Spec

\* Type correctness: tries stay within the policy, left never drops below nothing, and AGS
\* holds no number twice.
THEOREM TypeCorrect == Spec => []TypeOK
<1>1. IInv => TypeOK
  BY DEF IInv
<1> QED
  BY <1>1, SpecIInv, PTL

\* What the deduplication query of InsertGeneratedAtomic and UploadAtomic found is still so
\* when the rows are copied.
THEOREM ExactDedup == Spec => []DedupIsExact
<1>1. IInv => DedupIsExact
  BY DEF IInv
<1> QED
  BY <1>1, SpecIInv, PTL

\* A top-up that reaches its audit has stored what AGS gave it, a sync all that AGS held
\* when it began, however the pages move under it.
THEOREM StoredAll == Spec => []LearnedIsStored
<1>1. IInv => LearnedIsStored
  BY DEF IInv, LearnedIsStored, CallOK, At
<1> QED
  BY <1>1, SpecIInv, PTL

\* A STEAM_KEYS pool is made of whole files that share no code, for any uploads at once.
THEOREM WholeFiles == Spec => []PoolIsWholeFiles
<1>1. IInv => PoolIsWholeFiles
  BY DEF IInv
<1> QED
  BY <1>1, SpecIInv, PTL

\* The quantities in the audit log add up to no more than the codes of the pool.
THEOREM HonestLog == Spec => []AuditNeverOverstates
<1>1. IInv => AuditNeverOverstates
  <2> SUFFICES ASSUME IInv PROVE audited <= Cardinality(stored)
    BY DEF AuditNeverOverstates
  <2>1. PICK logged \in SUBSET stored : Cardinality(logged) = audited
    BY DEF IInv, ClaimsOK, Claims
  <2>2. IsFiniteSet(stored)
    BY DEF IInv, ClaimsOK
  <2> QED
    BY <2>1, <2>2, FS_Subset
<1> QED
  BY <1>1, SpecIInv, PTL
=============================================================================
