-------------------------- MODULE ThresholdKemProofs --------------------------
(***************************************************************************)
(* ThresholdKem for every set of hosts, every host list and every value of *)
(* the thresholds and bounds: type correctness, where the shares are, what *)
(* the coordinator makes of its answers, and that the deployment           *)
(* implements ShareService.  The invariants are those of ThresholdKemInv.  *)
(***************************************************************************)
EXTENDS ThresholdKemInv, ServiceRefinement, SequenceTheorems, FiniteSetTheorems, TLAPS

-----------------------------------------------------------------------------
(* Type correctness.                                                       *)

(* The parsed host lists are host sequences of at most NParties names.     *)
LEMMA HostLists ==
  /\ dealerHosts \in Seq(Hosts) /\ Len(dealerHosts) <= NParties
  /\ coordHosts \in Seq(Hosts) /\ Len(coordHosts) <= NParties
<1>1. ASSUME NEW csv \in Seq(Hosts)
      PROVE  ParseHosts(csv) \in Seq(Hosts) /\ Len(ParseHosts(csv)) <= NParties
  <2> DEFINE n == IF Len(csv) < NParties THEN Len(csv) ELSE NParties
  <2>1. n \in Nat /\ n <= Len(csv) /\ n <= NParties
    BY SizeAssumption
  <2>2. \A i \in 1..n : csv[i] \in Hosts
    BY <2>1
  <2>3. /\ SubSeq(csv, 1, n) \in Seq(Hosts)
        /\ Len(SubSeq(csv, 1, n)) = IF 1 <= n THEN n - 1 + 1 ELSE 0
    <3> HIDE DEF n
    <3> QED BY <2>1, <2>2, SubSeqProperties
  <2> QED BY <2>1, <2>3, SizeAssumption DEF ParseHosts
<1> QED BY <1>1, HostListAssumption DEF dealerHosts, coordHosts

-----------------------------------------------------------------------------
USE DEF DealerPCs, DealerStopped, DealerActive, CoordPCs, CoordStopped

(* The other coordinators change nothing but the results file.             *)
coreVars == <<wireVars, dealerVars, shareholderVars, coordVars>>

LEMMA OthersKeepCore == BesideStep \/ UNCHANGED vars => UNCHANGED coreVars
BY DEF BesideStep, vars, coreVars

LEMMA TypeInit == Init => TInv
<1> SUFFICES ASSUME Init PROVE TInv
  OBVIOUS
<1> USE DEF Init
<1>1. WireTypeOK
  <2>1. ekFile \in 0..MaxEpoch /\ zFile \in 0..MaxEpoch
    BY SizeAssumption DEF WireInit
  <2> QED BY <2>1, Zenon DEF WireInit, WireTypeOK
<1>2. DealerTypeOK /\ DealerBounds
  BY SizeAssumption, DealerTriesAssumption
  DEF DealerInit, DealerTypeOK, DealerBounds, Points
<1>3. ShareholderTypeOK
  BY SizeAssumption, MaxCrashAssumption
  DEF ShareholderInit, ShareholderTypeOK, Share, Blank
<1>4. CoordTypeOK /\ CoordBounds
  BY SizeAssumption, CoordAssumption DEF CoordInit, CoordTypeOK, CoordBounds
<1>5. ResultsTypeOK
  <2>1. results \in Seq({Foreign}) /\ flushed = 0 /\ disturbed = FALSE
    BY ResultsAssumption DEF ResultsInit
  <2>2. results \in Seq(Nat)
    BY <2>1 DEF Foreign
  <2>3. others \in [Beside -> Other]
    BY ResultsAssumption DEF ResultsInit, Other
  <2> QED BY <2>1, <2>2, <2>3 DEF ResultsTypeOK
<1> QED BY <1>1, <1>2, <1>3, <1>4, <1>5 DEF TInv, TypeOK

(* The dealer's steps keep its own types and those of the wire.            *)
LEMMA TypeDealer ==
  ASSUME TInv, DealerNext
  PROVE  WireTypeOK' /\ DealerTypeOK' /\ DealerBounds'
<1> USE SizeAssumption, DealerTriesAssumption, HostLists
<1> USE DEF TInv, TypeOK, WireTypeOK, DealerTypeOK, DealerBounds, Epochs, Points
<1> USE DEF wireVars, fileVars, storeVars, askVars
<1>1. CASE DealerStart BY <1>1 DEF DealerStart
<1>2. CASE DealerRefuse BY <1>2 DEF DealerRefuse
<1>3. CASE DealerOpen BY <1>3 DEF DealerOpen
<1>4. CASE DealerWrite BY <1>4 DEF DealerWrite
<1>5. CASE DealerProbe
  <2>1. dpc' \in DealerPCs /\ di' \in Points
    BY <1>5 DEF DealerProbe, NextHost
  <2>2. dealerHosts[di] \in Hosts
    BY <1>5 DEF DealerProbe
  <2>3. dready' \subseteq Hosts /\ dwarned' \subseteq Hosts
    BY <1>5, <2>2 DEF DealerProbe
  <2>4. dtries' \in 0..DealerTries /\ dtries' < DealerTries
    BY <1>5 DEF DealerProbe
  <2> QED BY <1>5, <2>1, <2>3, <2>4 DEF DealerProbe
<1>6. CASE DealerPost
  <2> DEFINE m == [to |-> dealerHosts[di], x |-> di, share |-> [ep |-> epoch, pt |-> di]]
  <2>1. m \in StorePost
    BY <1>6 DEF DealerPost, StorePost
  <2>2. posting' = {m} /\ (posts' = posts \/ posts' = posts \cup {m})
    BY <1>6 DEF DealerPost
  <2>3. posting' \subseteq StorePost /\ posts' \subseteq StorePost
    BY <2>1, <2>2
  <2> QED BY <1>6, <2>3 DEF DealerPost
<1>7. CASE DealerReturn
  <2>1. dack' \in [Points -> {"none", "ok", "failed"}]
    BY <1>7 DEF DealerReturn
  <2>2. dpc' \in DealerPCs /\ di' \in Points
    BY <1>7 DEF DealerReturn, NextHost
  <2>3. answered' \in BOOLEAN /\ posting' \subseteq StorePost
    BY <1>7 DEF DealerReturn
  <2> QED BY <1>7, <2>1, <2>2, <2>3 DEF DealerReturn
<1>8. CASE DealerKill BY <1>8 DEF DealerKill
<1> QED BY <1>1, <1>2, <1>3, <1>4, <1>5, <1>6, <1>7, <1>8 DEF DealerNext, DealerRun

(* The shareholders' steps keep their own types and those of the wire.     *)
LEMMA TypeShareholder ==
  ASSUME TInv, ShareholderNext
  PROVE  WireTypeOK' /\ ShareholderTypeOK'
<1> PICK h \in Hosts :
      StoreBegin(h) \/ StoreEnd(h) \/ PartialDecrypt(h) \/ Crash(h) \/ Listen(h)
  BY DEF ShareholderNext
<1> USE SizeAssumption, MaxCrashAssumption
<1> USE DEF TInv, TypeOK, WireTypeOK, ShareholderTypeOK
<1> USE DEF wireVars, fileVars, storeVars, askVars, shareholderVars
<1>b. Blank \in Share
  BY DEF Blank, Share
<1>1. CASE StoreBegin(h)
  <2>1. PICK m \in posts : /\ m.to = h
                           /\ posts' = posts \ {m}
                           /\ storing' = [storing EXCEPT ![h] = {m}]
                           /\ seen' = [seen EXCEPT ![h] = @ \cup {m.share}]
    BY <1>1 DEF StoreBegin
  <2>2. m \in StorePost /\ m.share \in [ep : Epochs, pt : Points]
    BY <2>1 DEF StorePost
  <2>3. storing' \in [Hosts -> SUBSET StorePost]
    BY <2>1, <2>2
  <2>4. seen' \in [Hosts -> SUBSET [ep : Epochs, pt : Points]]
    BY <2>1, <2>2
  <2> QED BY <1>1, <1>b, <2>1, <2>3, <2>4 DEF StoreBegin
<1>2. CASE StoreEnd(h)
  <2>1. PICK m \in storing[h] : /\ g_share' = [g_share EXCEPT ![h] = m.share]
                                /\ g_x' = [g_x EXCEPT ![h] = m.x]
                                /\ answered' = (answered \/ m \in posting)
                                /\ late' = [late EXCEPT ![h] = m \notin posting]
    BY <1>2 DEF StoreEnd
  <2>2. m.share \in Share /\ m.x \in 0..NParties
    BY <2>1 DEF StorePost, Share, Epochs, Points
  <2>3. storing' \in [Hosts -> SUBSET StorePost]
    BY <1>2 DEF StoreEnd
  <2>4. answered' \in BOOLEAN /\ late' \in [Hosts -> BOOLEAN]
    BY <2>1
  <2> QED BY <1>2, <2>1, <2>2, <2>3, <2>4 DEF StoreEnd
<1>3. CASE PartialDecrypt(h)
  <2>1. reply' \subseteq Reply
    BY <1>3 DEF PartialDecrypt, Reply, Share, Blank
  <2> QED BY <1>3, <2>1 DEF PartialDecrypt
<1>4. CASE Crash(h) BY <1>4, <1>b DEF Crash
<1>5. CASE Listen(h) BY <1>5 DEF Listen
<1> QED BY <1>1, <1>2, <1>3, <1>4, <1>5

(* What a write leaves of a file: rows that were there or were written, in *)
(* a file that has not become shorter.                                     *)
LEMMA OverwriteProperties ==
  ASSUME NEW file \in Seq(Nat), NEW first \in Nat, NEW last \in Nat, NEW who \in Nat
  PROVE  /\ Overwrite(file, first, last, who) \in Seq(Nat)
         /\ Len(Overwrite(file, first, last, who)) =
              IF last > Len(file) THEN last ELSE Len(file)
         /\ \A i \in 1..Len(Overwrite(file, first, last, who)) :
              Overwrite(file, first, last, who)[i] =
                IF i \in first..last THEN who
                ELSE IF i <= Len(file) THEN file[i] ELSE Foreign
<1> DEFINE n == IF last > Len(file) THEN last ELSE Len(file)
           cell(i) == IF i \in first..last THEN who
                      ELSE IF i <= Len(file) THEN file[i] ELSE Foreign
<1>1. n \in Nat
  OBVIOUS
<1>2. \A i \in 1..n : cell(i) \in Nat
  BY DEF Foreign
<1>3. Overwrite(file, first, last, who) = [i \in 1..n |-> cell(i)]
  BY DEF Overwrite
<1> HIDE DEF n, cell
<1>4. /\ [i \in 1..n |-> cell(i)] \in Seq(Nat)
      /\ Len([i \in 1..n |-> cell(i)]) = n
      /\ \A j \in 1..n : [i \in 1..n |-> cell(i)][j] = cell(j)
  BY <1>1, <1>2
<1> QED BY <1>3, <1>4 DEF n, cell

(* Every way the results file changes keeps its type.                      *)
LEMMA TypeResults ==
  ASSUME ResultsTypeOK,
         \/ Truncate
         \/ \E run, n \in Nat : Flush(run, n)
         \/ \E b \in Beside : OtherStart(b) \/ OtherRun(b)
  PROVE  ResultsTypeOK'
<1> USE ResultsAssumption DEF ResultsTypeOK
<1>1. CASE Truncate
  BY <1>1, EmptySeq DEF Truncate
<1>2. ASSUME NEW run \in Nat, NEW n \in Nat, Flush(run, n) PROVE ResultsTypeOK'
  <2>1. flushed' \in Nat
    BY <1>2 DEF Flush
  <2>2. results' \in Seq(Nat)
    BY <1>2, <2>1, OverwriteProperties DEF Flush
  <2> QED BY <1>2, <2>1, <2>2 DEF Flush
<1>3. ASSUME NEW b \in Beside, OtherStart(b) \/ OtherRun(b) PROVE ResultsTypeOK'
  <2>1. others' \in [Beside -> Other]
    <3>1. CASE \E from, to \in {"off", "waiting", "open", "ended"} : Goes(b, from, to)
      BY <3>1 DEF Goes, Other
    <3>2. CASE OtherWrite(b)
      <4>1. others[b].at + 1 \in 0..NTrials
        BY <3>2 DEF OtherWrite, Other
      <4> QED BY <3>2, <4>1 DEF OtherWrite, Other
    <3> QED BY <1>3, <3>1, <3>2 DEF OtherStart, OtherRun, OtherOpen, OtherExit
  <2>2. results' \in Seq(Nat)
    <3>1. CASE OtherWrite(b)
      <4>1. others[b].at + 1 \in Nat /\ Foreign \in Nat
        BY DEF Other, Foreign
      <4> QED BY <3>1, <4>1, OverwriteProperties DEF OtherWrite
    <3>2. CASE results' = results \/ results' = << >>
      BY <3>2, EmptySeq
    <3> QED BY <1>3, <3>1, <3>2 DEF OtherStart, OtherRun, OtherOpen, OtherExit
  <2> QED BY <1>3, <2>1, <2>2 DEF OtherStart, OtherRun, OtherOpen, OtherWrite, OtherExit
<1> QED BY <1>1, <1>2, <1>3

(* The coordinator's steps keep its own types and those of the wire.       *)
LEMMA TypeCoord ==
  ASSUME TInv, GatedStart \/ CoordRun
  PROVE  WireTypeOK' /\ CoordTypeOK' /\ CoordBounds'
<1> USE SizeAssumption, CoordAssumption, HostLists
<1> USE DEF TInv, TypeOK, WireTypeOK, CoordTypeOK, CoordBounds, Points
<1> USE DEF wireVars, fileVars, storeVars, askVars
<1>1. CASE GatedStart BY <1>1 DEF GatedStart, CoordStart, DealerTypeOK
<1>2. CASE CoordReadEk BY <1>2 DEF CoordReadEk
<1>3. CASE CoordReadZ BY <1>3 DEF CoordReadZ
<1>4. CASE CoordProbe BY <1>4 DEF CoordProbe
<1>5. CASE CoordOpen
  <2>1. rows' = << >> \/ rows' = rows
    BY <1>5 DEF CoordOpen
  <2>2. rows' \in Seq(Row)
    <3>1. << >> \in Seq(Row)
      BY EmptySeq
    <3>2. rows \in Seq(Row)
      BY Zenon
    <3> QED BY <2>1, <3>1, <3>2, Zenon
  <2>3. CoordBounds'
    BY <1>5 DEF CoordOpen
  <2> QED BY <1>5, <2>2, <2>3 DEF CoordOpen
<1>6. CASE CoordEncaps BY <1>6 DEF CoordEncaps
<1>7. CASE CoordAsk BY <1>7 DEF CoordAsk, Collecting
<1>8. CASE CoordTake
  <2>1. PICK r \in reply :
          got' = Append(got, [x |-> r.x, share |-> r.share, at |-> ci])
    BY <1>8 DEF CoordTake
  <2>2. [x |-> r.x, share |-> r.share, at |-> ci] \in Partial
    BY <1>8, <2>1 DEF CoordTake, Reply, Partial
  <2>3. got' \in Seq(Partial) /\ Len(got') = Len(got) + 1
    BY <2>1, <2>2
  <2> QED BY <1>8, <2>3 DEF CoordTake
<1>9. CASE CoordSkip BY <1>9 DEF CoordSkip
<1>10. CASE CoordFinish
  <2> DEFINE full == Len(got) = K
             ss_enc == [kind |-> "shared", of |-> cek]
             ss_dec == IF full THEN ThresholdDecaps(got, cek, cz) ELSE ZeroKey
             row == [kem |-> full /\ ss_dec = ss_enc, aes |-> ss_dec = ss_enc,
                     ek |-> cek, used |-> got, failed |-> failed]
  <2>1. rows' = Append(rows, row)
    BY <1>10 DEF CoordFinish
  <2>2. row \in Row
    <3>1. cek \in Epochs
      BY <1>10 DEF CoordFinish, Epochs
    <3> HIDE DEF full, ss_enc, ss_dec
    <3> QED BY <3>1, Zenon DEF Row
  <2>3. rows' \in Seq(Row)
    <3> HIDE DEF row
    <3> QED BY <2>1, <2>2
  <2> QED BY <1>10, <2>3 DEF CoordFinish
<1>11. CASE CoordClose BY <1>11 DEF CoordClose
<1> QED
  BY <1>1, <1>2, <1>3, <1>4, <1>5, <1>6, <1>7, <1>8, <1>9, <1>10, <1>11 DEF CoordRun

LEMMA TypeCoordResults ==
  ASSUME TInv, GatedStart \/ CoordRun
  PROVE  ResultsTypeOK'
<1> USE DEF TInv, TypeOK
<1>1. CASE Truncate
  BY <1>1, TypeResults
<1>2. CASE CoordFinish \/ CoordClose
  <2>1. rows \in Seq(Row) /\ cruns \in Nat
    BY CoordAssumption DEF CoordTypeOK
  <2>2. Len(rows) \in Nat /\ Len(rows) + 1 \in Nat
    BY <2>1
  <2>3. \E n \in Nat : Flush(cruns, n)
    BY <1>2, <2>2 DEF CoordFinish, CoordClose
  <2> QED BY <2>1, <2>3, TypeResults
<1>3. CASE UNCHANGED resultsVars
  BY <1>3 DEF resultsVars, ResultsTypeOK
<1>4. Truncate \/ CoordFinish \/ CoordClose \/ UNCHANGED resultsVars
  BY DEF GatedStart, CoordRun, CoordStart, CoordReadEk, CoordReadZ, CoordProbe, CoordOpen,
         CoordEncaps, CoordAsk, CoordTake, CoordSkip
<1> QED BY <1>1, <1>2, <1>3, <1>4

LEMMA TypeStep == TInv /\ [Next]_vars => TInv'
<1> SUFFICES ASSUME TInv, [Next]_vars PROVE TInv'
  OBVIOUS
<1> USE DEF TInv, TypeOK
<1>1. CASE DealerStep
  <2>1. WireTypeOK' /\ DealerTypeOK' /\ DealerBounds'
    BY <1>1, TypeDealer DEF DealerStep
  <2>2. ShareholderTypeOK'
    BY <1>1 DEF DealerStep, shareholderVars, ShareholderTypeOK
  <2>3. CoordTypeOK' /\ CoordBounds'
    BY <1>1 DEF DealerStep, coordVars, CoordTypeOK, CoordBounds
  <2>4. ResultsTypeOK'
    BY <1>1 DEF DealerStep, resultsVars, ResultsTypeOK
  <2> QED BY <2>1, <2>2, <2>3, <2>4
<1>2. CASE ShareholderStep
  <2>1. WireTypeOK' /\ ShareholderTypeOK'
    BY <1>2, TypeShareholder DEF ShareholderStep
  <2>2. DealerTypeOK' /\ DealerBounds'
    BY <1>2 DEF ShareholderStep, dealerVars, DealerTypeOK, DealerBounds
  <2>3. CoordTypeOK' /\ CoordBounds'
    BY <1>2 DEF ShareholderStep, coordVars, CoordTypeOK, CoordBounds
  <2>4. ResultsTypeOK'
    BY <1>2 DEF ShareholderStep, resultsVars, ResultsTypeOK
  <2> QED BY <2>1, <2>2, <2>3, <2>4
<1>3. CASE CoordStep
  <2>1. WireTypeOK' /\ CoordTypeOK' /\ CoordBounds'
    BY <1>3, TypeCoord DEF CoordStep
  <2>2. DealerTypeOK' /\ DealerBounds'
    BY <1>3 DEF CoordStep, dealerVars, DealerTypeOK, DealerBounds
  <2>3. ShareholderTypeOK'
    BY <1>3 DEF CoordStep, shareholderVars, ShareholderTypeOK
  <2>4. ResultsTypeOK'
    BY <1>3, TypeCoordResults DEF CoordStep
  <2> QED BY <2>1, <2>2, <2>3, <2>4
<1>4. CASE BesideStep \/ UNCHANGED vars
  <2> USE <1>4, OthersKeepCore DEF coreVars
  <2>1. WireTypeOK'
    BY DEF wireVars, fileVars, storeVars, askVars, WireTypeOK
  <2>2. DealerTypeOK' /\ DealerBounds'
    BY DEF dealerVars, DealerTypeOK, DealerBounds
  <2>3. ShareholderTypeOK'
    BY DEF shareholderVars, ShareholderTypeOK
  <2>4. CoordTypeOK' /\ CoordBounds'
    BY DEF coordVars, CoordTypeOK, CoordBounds
  <2>5. ResultsTypeOK'
    <3>1. CASE BesideStep
      BY <3>1, TypeResults DEF BesideStep
    <3>2. CASE UNCHANGED vars
      BY <3>2 DEF vars, resultsVars, ResultsTypeOK
    <3> QED BY <3>1, <3>2
  <2> QED BY <2>1, <2>2, <2>3, <2>4, <2>5
<1> QED BY <1>1, <1>2, <1>3, <1>4 DEF Next

(* Every variable keeps its type, whatever the programs, the network and   *)
(* the operator do; loop indices never run past the host lists.            *)
THEOREM TypeCorrect == Spec => []TypeOK
<1>1. TInv => TypeOK
  BY DEF TInv
<1> QED BY TypeInit, TypeStep, <1>1, PTL DEF Spec

-----------------------------------------------------------------------------
(* Where the shares are.                                                   *)

(* The part of the state DealInv speaks of.                                *)
dealState == <<posts, posting, answered, dpc, epoch, di, dack,
               g_share, g_x, g_ready, storing, late>>

LEMMA DealUnchanged == DealInv /\ UNCHANGED dealState => DealInv'
BY DEF dealState, DealInv, GoodPosts, GoodPost, DealerProgress, PendingUnanswered,
       Unanswered, AnsweredHeld, Holds

(* Requests in flight are well typed.                                      *)
LEMMA PostTyped ==
  ASSUME TInv
  PROVE  /\ \A m \in posts : m \in StorePost
         /\ \A h \in Hosts : \A m \in storing[h] : m \in StorePost
         /\ \A m \in StorePost : m.to \in Hosts /\ m.x \in Points /\ m.share.ep \in Epochs
BY DEF TInv, TypeOK, WireTypeOK, ShareholderTypeOK, StorePost

(* A dealer step that neither sends nor returns: nothing of the current    *)
(* run is on its way before the first request, so none can be answered.    *)
LEMMA DealQuiet ==
  ASSUME TInv, DealInv,
         DealerStart \/ DealerRefuse \/ DealerOpen \/ DealerWrite \/ DealerProbe \/ DealerKill,
         UNCHANGED shareholderVars
  PROVE  DealInv'
<1> USE SizeAssumption, PostTyped DEF shareholderVars, TInv, TypeOK, DealerTypeOK
<1> USE DEF wireVars, fileVars, storeVars, askVars
<1>1. CASE DealerStart
  <2>1. GoodPosts'
    BY <1>1 DEF DealerStart, DealInv, GoodPosts, GoodPost, Epochs
  <2>2. DealerProgress'
    BY <1>1 DEF DealerStart, DealInv, DealerProgress
  <2>3. PendingUnanswered'
    BY <1>1 DEF DealerStart, DealInv, GoodPosts, GoodPost, PendingUnanswered, Unanswered, Epochs
  <2>4. AnsweredHeld'
    BY <1>1 DEF DealerStart, DealInv, DealerProgress, AnsweredHeld
  <2> QED BY <2>1, <2>2, <2>3, <2>4 DEF DealInv
<1>2. CASE DealerRefuse \/ DealerOpen \/ DealerWrite \/ DealerProbe \/ DealerKill
  <2> USE <1>2 DEF DealerRefuse, DealerOpen, DealerWrite, DealerProbe, NextHost, DealerKill
  <2>a. UNCHANGED <<posts, epoch, dack, g_share, g_x, g_ready, storing, late>>
    BY <1>2
  <2>b. dpc' # "await" /\ posting' = {} /\ ~answered'
    <3>1. CASE DealerKill BY <3>1
    <3>2. CASE DealerRefuse \/ DealerOpen \/ DealerWrite \/ DealerProbe
      <4>1. dpc # "await" /\ UNCHANGED <<posting, answered>> /\ dpc' # "await"
        BY <3>2
      <4> QED BY <4>1 DEF DealInv, DealerProgress
    <3> QED BY <1>2, <3>1, <3>2
  <2>0. /\ UNCHANGED <<posts, epoch, dack, g_share, g_x, g_ready, storing, late>>
        /\ dpc' # "await" /\ posting' = {} /\ ~answered'
    BY <2>a, <2>b
  <2>1. GoodPosts'
    BY <2>0 DEF DealInv, GoodPosts, GoodPost
  <2>2. DealerProgress'
    BY <2>0 DEF DealInv, DealerProgress, Points
  <2>3. PendingUnanswered'
    <3>1. \A m \in StorePost : Unanswered(m) => Unanswered(m)'
      BY <2>0 DEF Unanswered, DealerBounds
    <3> QED BY <2>0, <3>1 DEF DealInv, PendingUnanswered
  <2>4. AnsweredHeld'
    BY <2>0 DEF DealInv, AnsweredHeld, Holds
  <2> QED BY <2>1, <2>2, <2>3, <2>4 DEF DealInv
<1> QED BY <1>1, <1>2

LEMMA DealPost ==
  ASSUME TInv, DealInv, DealerPost, UNCHANGED shareholderVars
  PROVE  DealInv'
<1> USE SizeAssumption, PostTyped DEF shareholderVars, TInv, TypeOK, DealerTypeOK
<1> DEFINE s == [ep |-> epoch, pt |-> di]
           m == [to |-> dealerHosts[di], x |-> di, share |-> s]
<1>1. /\ m.to = dealerHosts[di] /\ m.x = di /\ m.share.pt = di /\ m.share.ep = epoch
  OBVIOUS
<1>2. /\ dpc = "post" /\ dpc' = "await" /\ posting' = {m} /\ ~answered'
      /\ posts' \subseteq posts \cup {m}
      /\ UNCHANGED <<epoch, di, dack, g_share, g_x, g_ready, storing, late>>
  BY DEF DealerPost
<1>3. di <= Len(dealerHosts) /\ epoch # 0
  BY <1>2 DEF DealerBounds, Points
<1>4. \A h \in Hosts : m \notin storing[h]
  <2> SUFFICES ASSUME NEW h \in Hosts, m \in storing[h] PROVE FALSE
    OBVIOUS
  <2>1. Unanswered(m)
    BY DEF DealInv, PendingUnanswered
  <2> QED BY <1>1, <1>2, <2>1 DEF Unanswered, Points
<1>5. GoodPosts'
  <2>1. ASSUME NEW n, n = m PROVE GoodPost(n)'
    BY <1>1, <1>2, <1>3, <2>1 DEF GoodPost
  <2>2. \A n : GoodPost(n) => GoodPost(n)'
    BY <1>2 DEF GoodPost
  <2>3. \A n \in posts' : GoodPost(n)' /\ \A h \in Hosts : n \notin storing'[h]
    <3> SUFFICES ASSUME NEW n \in posts'
                 PROVE  GoodPost(n)' /\ \A h \in Hosts : n \notin storing'[h]
      OBVIOUS
    <3>1. CASE n = m
      <4> HIDE DEF m
      <4> QED BY <1>2, <1>4, <2>1, <3>1
    <3>2. CASE n \in posts
      BY <1>2, <2>2, <3>2 DEF DealInv, GoodPosts
    <3> HIDE DEF m
    <3> QED BY <1>2, <3>1, <3>2
  <2>4. \A h \in Hosts : \A n \in storing[h] : GoodPost(n)'
    BY <2>2 DEF DealInv, GoodPosts
  <2> HIDE DEF m
  <2> QED BY <1>2, <2>3, <2>4 DEF DealInv, GoodPosts
<1>6. DealerProgress'
  BY <1>2, <1>3 DEF DealInv, DealerProgress
<1>7. PendingUnanswered'
  <2>1. ASSUME NEW n, n = m PROVE Unanswered(n)'
    BY <1>1, <1>2, <2>1 DEF DealInv, DealerProgress, Unanswered, Points
  <2>2. \A n \in StorePost : Unanswered(n) => Unanswered(n)'
    BY <1>2 DEF Unanswered, Points
  <2>3. \A n \in posts' : Unanswered(n)'
    <3> SUFFICES ASSUME NEW n \in posts' PROVE Unanswered(n)'
      OBVIOUS
    <3>1. CASE n = m
      BY <2>1, <3>1
    <3>2. CASE n \in posts
      BY <2>2, <3>2 DEF DealInv, PendingUnanswered
    <3> HIDE DEF m
    <3> QED BY <1>2, <3>1, <3>2
  <2>4. \A h \in Hosts : \A n \in storing[h] : Unanswered(n)'
    BY <2>2 DEF DealInv, PendingUnanswered
  <2> QED BY <1>2, <2>3, <2>4 DEF PendingUnanswered
<1>8. AnsweredHeld'
  BY <1>2 DEF DealInv, AnsweredHeld, Holds
<1> QED BY <1>5, <1>6, <1>7, <1>8 DEF DealInv

LEMMA DealReturn ==
  ASSUME TInv, DealInv, DealerReturn, UNCHANGED shareholderVars
  PROVE  DealInv'
<1> USE SizeAssumption, PostTyped DEF shareholderVars, TInv, TypeOK, DealerTypeOK
<1> DEFINE s == [ep |-> epoch, pt |-> di]
           m == [to |-> dealerHosts[di], x |-> di, share |-> s]
<1>1. /\ dpc = "await" /\ posting = {m} /\ posting' = {} /\ ~answered'
      /\ UNCHANGED <<epoch, posts, g_share, g_x, g_ready, storing, late>>
      /\ \/ dpc' = "post" /\ di' = di + 1 /\ di < NParties
         \/ dpc' = "exit0" /\ di' = 1
  BY DEF DealerReturn, NextHost, DealInv, DealerProgress
<1>2. \/ answered /\ dack' = [dack EXCEPT ![di] = "ok"]
      \/ dack' = [dack EXCEPT ![di] = "failed"]
  BY DEF DealerReturn
<1>3. GoodPosts'
  BY <1>1 DEF DealInv, GoodPosts, GoodPost
<1>4. DealerProgress'
  <2>1. \A i \in (di + 1)..NParties : dack'[i] = "none"
    BY <1>1, <1>2 DEF DealInv, DealerProgress, Points
  <2> QED BY <1>1, <2>1 DEF DealerBounds, DealerProgress
<1>5. PendingUnanswered'
  <2>1. \A n \in StorePost : Unanswered(n) => Unanswered(n)'
    BY <1>1, <1>2 DEF Unanswered, Points
  <2> QED BY <1>1, <2>1 DEF DealInv, PendingUnanswered
<1>6. AnsweredHeld'
  <2> SUFFICES ASSUME Distinct(dealerHosts)', NEW i \in Points, dack'[i] = "ok"
               PROVE  Holds(dealerHosts[i], [ep |-> epoch, pt |-> i], i)'
    BY <1>1 DEF AnsweredHeld
  <2>1. Distinct(dealerHosts)
    BY DEF Distinct
  <2>2. Holds(dealerHosts[i], [ep |-> epoch, pt |-> i], i)
    <3>1. CASE i = di
      <4>1. answered
        BY <1>2, <3>1
      <4>2. Holds(m.to, m.share, m.x)
        BY <1>1, <2>1, <4>1 DEF DealInv, AnsweredHeld
      <4> QED BY <3>1, <4>2
    <3>2. CASE i # di
      BY <1>2, <2>1, <3>2 DEF DealInv, AnsweredHeld
    <3> QED BY <3>1, <3>2
  <2> QED BY <1>1, <2>2 DEF Holds
<1> QED BY <1>3, <1>4, <1>5, <1>6 DEF DealInv

LEMMA DealStoreBegin ==
  ASSUME TInv, DealInv, UNCHANGED dealerVars, NEW h \in Hosts, StoreBegin(h)
  PROVE  DealInv'
<1> USE PostTyped DEF TInv, TypeOK, WireTypeOK, ShareholderTypeOK
<1>1. PICK m \in posts : /\ m.to = h
                         /\ posts' = posts \ {m}
                         /\ storing' = [storing EXCEPT ![h] = {m}]
  BY DEF StoreBegin
<1>2. /\ UNCHANGED <<posting, answered, dpc, epoch, di, dack, g_ready, g_x, late>>
      /\ \A g \in Hosts : g # h => g_share'[g] = g_share[g] /\ storing'[g] = storing[g]
      /\ storing'[h] = {m}
  BY <1>1 DEF StoreBegin, dealerVars
<1>3. GoodPosts'
  <2>1. \A n : GoodPost(n)' <=> GoodPost(n)
    BY <1>2 DEF GoodPost
  <2>2. GoodPosts
    BY DEF DealInv
  <2> QED BY <1>1, <1>2, <2>1, <2>2 DEF GoodPosts
<1>4. DealerProgress'
  BY <1>2 DEF DealInv, DealerProgress
<1>5. PendingUnanswered'
  <2>1. \A n : Unanswered(n)' <=> Unanswered(n)
    BY <1>2 DEF Unanswered
  <2>2. PendingUnanswered
    BY DEF DealInv
  <2> QED BY <1>1, <1>2, <2>1, <2>2 DEF PendingUnanswered
<1>6. AnsweredHeld'
  <2>1. \A g \in Hosts : \A s, x : Holds(g, s, x) => Holds(g, s, x)'
    BY <1>2 DEF Holds
  <2>2. \A n \in posting : n.to \in Hosts
    BY <1>2 DEF StorePost
  <2>3. \A i \in Points : dack[i] = "ok" => dealerHosts[i] \in Hosts
    BY HostLists, SizeAssumption DEF DealInv, DealerProgress, DealerBounds, Points, DealerTypeOK
  <2> QED BY <1>2, <2>1, <2>2, <2>3 DEF DealInv, AnsweredHeld
<1> QED BY <1>3, <1>4, <1>5, <1>6 DEF DealInv

LEMMA DealCrash ==
  ASSUME TInv, DealInv, UNCHANGED dealerVars, NEW h \in Hosts, Crash(h)
  PROVE  DealInv'
<1> USE PostTyped DEF TInv, TypeOK, WireTypeOK, ShareholderTypeOK
<1>2. /\ UNCHANGED <<posting, answered, dpc, epoch, di, dack>>
      /\ \A g \in Hosts : g # h => /\ g_share'[g] = g_share[g] /\ storing'[g] = storing[g]
                                   /\ g_ready'[g] = g_ready[g] /\ g_x'[g] = g_x[g]
                                   /\ late'[g] = late[g]
      /\ storing'[h] = {} /\ ~g_ready'[h]
      /\ posts' \subseteq posts
  BY DEF Crash, dealerVars
<1>3. GoodPosts'
  <2>1. \A n : GoodPost(n)' <=> GoodPost(n)
    BY <1>2 DEF GoodPost
  <2>2. GoodPosts
    BY DEF DealInv
  <2> QED BY <1>2, <2>1, <2>2 DEF GoodPosts
<1>4. DealerProgress'
  BY <1>2 DEF DealInv, DealerProgress
<1>5. PendingUnanswered'
  <2>1. \A n : Unanswered(n)' <=> Unanswered(n)
    BY <1>2 DEF Unanswered
  <2>2. PendingUnanswered
    BY DEF DealInv
  <2> QED BY <1>2, <2>1, <2>2 DEF PendingUnanswered
<1>6. AnsweredHeld'
  <2>1. \A g \in Hosts : \A s, x : Holds(g, s, x) => Holds(g, s, x)'
    BY <1>2 DEF Holds
  <2>2. \A n \in posting : n.to \in Hosts
    BY <1>2 DEF StorePost
  <2>3. \A i \in Points : dack[i] = "ok" => dealerHosts[i] \in Hosts
    BY HostLists, SizeAssumption DEF DealInv, DealerProgress, DealerBounds, Points, DealerTypeOK
  <2> QED BY <1>2, <2>1, <2>2, <2>3 DEF DealInv, AnsweredHeld
<1> QED BY <1>3, <1>4, <1>5, <1>6 DEF DealInv

(* The one handler step that answers the dealer: the request it finishes   *)
(* is gone for good, so nothing can contradict the answer but a late one.  *)
LEMMA DealStoreEnd ==
  ASSUME TInv, DealInv, UNCHANGED dealerVars, NEW h \in Hosts, StoreEnd(h)
  PROVE  DealInv'
<1> USE PostTyped DEF TInv, TypeOK, WireTypeOK, ShareholderTypeOK
<1>1. PICK m \in storing[h] : /\ g_share' = [g_share EXCEPT ![h] = m.share]
                              /\ g_x' = [g_x EXCEPT ![h] = m.x]
                              /\ answered' = (answered \/ m \in posting)
                              /\ late' = [late EXCEPT ![h] = m \notin posting]
  BY DEF StoreEnd
<1>2. /\ UNCHANGED <<posting, posts, dpc, epoch, di, dack>>
      /\ \A g \in Hosts : g # h => /\ g_share'[g] = g_share[g] /\ storing'[g] = storing[g]
                                   /\ g_ready'[g] = g_ready[g] /\ g_x'[g] = g_x[g]
                                   /\ late'[g] = late[g]
      /\ storing'[h] = {} /\ g_share'[h] = m.share /\ g_x'[h] = m.x
      /\ late'[h] = (m \notin posting)
  BY <1>1 DEF StoreEnd, dealerVars
<1>3. GoodPost(m) /\ m.to = h /\ m \notin posts
      /\ \A g \in Hosts : \A n \in storing'[g] : n # m
  BY <1>2 DEF DealInv, GoodPosts
<1>4. GoodPosts'
  <2>1. \A n : GoodPost(n)' <=> GoodPost(n)
    BY <1>2 DEF GoodPost
  <2>2. GoodPosts
    BY DEF DealInv
  <2> QED BY <1>2, <2>1, <2>2 DEF GoodPosts
<1>5. m \in posting => dpc = "await" /\ m.x = di /\ m.share.ep = epoch
  BY DEF DealInv, DealerProgress
<1>6. DealerProgress'
  BY <1>1, <1>2, <1>5 DEF DealInv, DealerProgress
<1>7. PendingUnanswered'
  <2>1. ASSUME NEW n \in StorePost, GoodPost(n), Unanswered(n), n # m PROVE Unanswered(n)'
    <3>1. CASE m \notin posting
      <4>1. answered' = answered
        BY <1>1, <3>1
      <4> QED BY <1>2, <2>1, <4>1 DEF Unanswered
    <3>2. CASE m \in posting
      <4>1. ~(n.share.ep = epoch /\ n.x = di)
        <5> SUFFICES ASSUME n.share.ep = epoch, n.x = di PROVE n = m
          BY <2>1
        <5>1. n.to = m.to /\ n.x = m.x /\ n.share.pt = m.share.pt /\ n.share.ep = m.share.ep
          BY <1>3, <1>5, <2>1, <3>2 DEF GoodPost
        <5>2. m \in StorePost
          OBVIOUS
        <5> QED BY <2>1, <5>1, <5>2 DEF StorePost
      <4> QED BY <1>2, <1>5, <2>1, <3>2, <4>1 DEF Unanswered
    <3> QED BY <3>1, <3>2
  <2>2. GoodPosts /\ PendingUnanswered
    BY DEF DealInv
  <2>3. \A n \in posts : Unanswered(n)'
    BY <1>3, <2>1, <2>2 DEF GoodPosts, PendingUnanswered
  <2>4. \A g \in Hosts : \A n \in storing'[g] : n \in storing[g] /\ n # m
    BY <1>2, <1>3
  <2>5. \A g \in Hosts : \A n \in storing'[g] : Unanswered(n)'
    BY <2>1, <2>2, <2>4 DEF GoodPosts, PendingUnanswered
  <2> QED BY <1>2, <2>3, <2>5 DEF PendingUnanswered
<1>8. AnsweredHeld'
  <2>1. \A g \in Hosts : \A s, x : g # h /\ Holds(g, s, x) => Holds(g, s, x)'
    BY <1>2 DEF Holds
  <2>2. Holds(h, m.share, m.x)'
    BY <1>2 DEF Holds
  <2>3. m \notin posting => \A s, x : Holds(h, s, x)'
    BY <1>2 DEF Holds
  <2>4. ASSUME Distinct(dealerHosts), answered', NEW n \in posting
        PROVE  Holds(n.to, n.share, n.x)'
    <3>1. CASE n = m
      BY <1>3, <2>2, <3>1
    <3>2. CASE n # m
      <4>1. m \notin posting
        BY <3>2 DEF DealInv, DealerProgress
      <4>2. CASE n.to = h
        BY <2>3, <4>1, <4>2
      <4>3. CASE n.to # h
        <5>1. answered /\ n.to \in Hosts
          BY <1>1, <2>4, <4>1 DEF StorePost
        <5> QED BY <2>1, <2>4, <4>3, <5>1 DEF DealInv, AnsweredHeld
      <4> QED BY <4>2, <4>3
    <3> QED BY <3>1, <3>2
  <2>5. ASSUME Distinct(dealerHosts), NEW i \in Points, dack[i] = "ok"
        PROVE  Holds(dealerHosts[i], [ep |-> epoch, pt |-> i], i)'
    <3>1. i <= Len(dealerHosts) /\ dealerHosts[i] \in Hosts
      BY <2>5, HostLists, SizeAssumption
      DEF DealInv, DealerProgress, DealerBounds, Points, DealerTypeOK
    <3>2. CASE dealerHosts[i] # h
      <4>1. Holds(dealerHosts[i], [ep |-> epoch, pt |-> i], i)
        BY <2>5 DEF DealInv, AnsweredHeld
      <4> QED BY <1>2, <3>1, <3>2, <4>1 DEF Holds
    <3>3. CASE dealerHosts[i] = h
      <4>1. m \notin posting
        <5> SUFFICES ASSUME m \in posting PROVE FALSE
          OBVIOUS
        <5>1. i = di
          <6>1. m.x \in 1..Len(dealerHosts) /\ dealerHosts[m.x] = dealerHosts[i]
            BY <1>3, <3>3, HostLists DEF GoodPost, Points
          <6>2. i \in 1..Len(dealerHosts)
            BY <3>1, HostLists, SizeAssumption DEF Points
          <6> QED BY <1>5, <2>5, <6>1, <6>2 DEF Distinct
        <5>2. dack[di] = "none"
          BY <1>5, SizeAssumption DEF DealInv, DealerProgress, DealerTypeOK, Points
        <5> QED BY <2>5, <5>1, <5>2
      <4> QED BY <2>3, <3>3, <4>1
    <3> QED BY <3>2, <3>3
  <2> QED BY <1>2, <2>4, <2>5 DEF AnsweredHeld, Distinct
<1> QED BY <1>4, <1>6, <1>7, <1>8 DEF DealInv

LEMMA DealStep ==
  ASSUME TInv, DealInv, [Next]_vars
  PROVE  DealInv'
<1> USE DEF vars, wireVars, fileVars, storeVars, askVars, dealerVars, shareholderVars
<1>1. CASE DealerStep
  BY <1>1, DealQuiet, DealPost, DealReturn DEF DealerStep, DealerNext, DealerRun
<1>2. CASE ShareholderStep
  <2>1. PICK h \in Hosts :
          StoreBegin(h) \/ StoreEnd(h) \/ PartialDecrypt(h) \/ Crash(h) \/ Listen(h)
    BY <1>2 DEF ShareholderStep, ShareholderNext
  <2>2. UNCHANGED dealerVars
    BY <1>2 DEF ShareholderStep
  <2>3. CASE PartialDecrypt(h) \/ Listen(h)
    BY <2>2, <2>3, DealUnchanged DEF PartialDecrypt, Listen, dealState
  <2> QED BY <2>1, <2>2, <2>3, DealStoreBegin, DealStoreEnd, DealCrash
<1>3. CASE CoordStep
  <2>1. UNCHANGED storeVars
    BY <1>3 DEF CoordStep, GatedStart, CoordStart, CoordRun, CoordReadEk, CoordReadZ,
       CoordProbe, CoordOpen, CoordEncaps, CoordAsk, CoordTake, CoordSkip, CoordFinish,
       CoordClose
  <2> QED BY <1>3, <2>1, DealUnchanged DEF CoordStep, dealState
<1>4. CASE BesideStep \/ UNCHANGED vars
  BY <1>4, OthersKeepCore, DealUnchanged DEF coreVars, dealState
<1> QED BY <1>1, <1>2, <1>3, <1>4 DEF Next

LEMMA DealStart == Init => DealInv
BY DEF Init, WireInit, DealerInit, ShareholderInit, DealInv, GoodPosts, DealerProgress,
       PendingUnanswered, AnsweredHeld

(* A share the dealer got a 200 for is the one the shareholder holds and   *)
(* answers for, until the container dies, the next dealer run starts, or a *)
(* request the dealer had given up is stored over it.                      *)
THEOREM AckedShareIsHeld == Spec => []AckedShareHeld
<1>1. DealInv => AckedShareHeld
  BY DEF DealInv, AnsweredHeld, Holds, AckedShareHeld
<1>2. Init => TInv /\ DealInv
  BY TypeInit, DealStart
<1>3. TInv /\ DealInv /\ [Next]_vars => (TInv /\ DealInv)'
  BY TypeStep, DealStep
<1> QED BY <1>1, <1>2, <1>3, PTL DEF Spec

-----------------------------------------------------------------------------
(* What the shareholders hold and have seen, whoever's request it was.     *)

LEMMA BoundStep ==
  ASSUME TInv, DealInv, SharesBound, SeenOwn, [Next]_vars
  PROVE  SharesBound' /\ SeenOwn'
<1> USE DEF vars, dealerVars, shareholderVars
<1>0. epoch \in Nat /\ (epoch' = epoch \/ epoch' = epoch + 1)
  <2>1. DealerNext => epoch' = epoch \/ epoch' = epoch + 1
    BY DEF DealerNext, DealerRun, DealerStart, DealerRefuse, DealerOpen, DealerWrite,
           DealerProbe, DealerPost, DealerReturn, DealerKill
  <2>2. epoch \in Nat
    BY SizeAssumption DEF TInv, TypeOK, DealerTypeOK
  <2> QED
    BY <2>1, <2>2, OthersKeepCore DEF Next, DealerStep, ShareholderStep, CoordStep, coreVars
<1>1. \A h, x, s : GoodShare(epoch, h, x, s) => GoodShare(epoch', h, x, s)
  BY <1>0 DEF GoodShare
<1>2. CASE UNCHANGED shareholderVars
  BY <1>1, <1>2 DEF SharesBound, SeenOwn
<1>3. ASSUME NEW h \in Hosts, ShareholderStep,
             StoreBegin(h) \/ StoreEnd(h) \/ Crash(h)
      PROVE  SharesBound' /\ SeenOwn'
  <2> USE DEF TInv, TypeOK, WireTypeOK, ShareholderTypeOK
  <2>1. CASE StoreBegin(h)
    <3>1. PICK m \in posts : /\ m.to = h
                             /\ storing' = [storing EXCEPT ![h] = {m}]
                             /\ seen' = [seen EXCEPT ![h] = @ \cup {m.share}]
      BY <2>1 DEF StoreBegin
    <3>2. m.share.pt <= Len(dealerHosts) /\ dealerHosts[m.share.pt] = h
      BY <3>1 DEF DealInv, GoodPosts, GoodPost
    <3>3. SeenOwn'
      BY <3>1, <3>2 DEF SeenOwn
    <3>4. ASSUME NEW g \in Hosts, g_ready'[g], storing'[g] = {}
          PROVE  GoodShare(epoch', g, g_x'[g], g_share'[g])
      <4>1. g # h
        BY <3>1, <3>4
      <4>2. /\ g_ready'[g] = g_ready[g] /\ g_x'[g] = g_x[g]
            /\ g_share'[g] = g_share[g] /\ storing'[g] = storing[g]
        BY <2>1, <3>1, <4>1 DEF StoreBegin
      <4> QED BY <1>1, <3>4, <4>2 DEF SharesBound
    <3> QED BY <3>3, <3>4 DEF SharesBound
  <2>2. CASE StoreEnd(h)
    <3>1. PICK m \in storing[h] : /\ g_share' = [g_share EXCEPT ![h] = m.share]
                                  /\ g_x' = [g_x EXCEPT ![h] = m.x]
      BY <2>2 DEF StoreEnd
    <3>2. GoodShare(epoch, h, m.x, m.share)
      <4>1. m \in StorePost /\ m.x \in Points /\ m.share.ep \in Epochs
        BY PostTyped
      <4>2. GoodPost(m) /\ m.to = h
        BY DEF DealInv, GoodPosts
      <4>3. Len(dealerHosts) \in Nat
        BY HostLists
      <4> QED BY <1>0, <4>1, <4>2, <4>3, SizeAssumption DEF GoodPost, GoodShare, Points, Epochs
    <3>3. SeenOwn'
      BY <2>2 DEF StoreEnd, SeenOwn
    <3>4. ASSUME NEW g \in Hosts, g_ready'[g], storing'[g] = {}
          PROVE  GoodShare(epoch', g, g_x'[g], g_share'[g])
      <4>1. CASE g = h
        BY <1>1, <3>1, <3>2, <4>1
      <4>2. CASE g # h
        <5>1. /\ g_ready'[g] = g_ready[g] /\ g_x'[g] = g_x[g]
              /\ g_share'[g] = g_share[g] /\ storing'[g] = storing[g]
          BY <2>2, <3>1, <4>2 DEF StoreEnd
        <5> QED BY <1>1, <3>4, <5>1 DEF SharesBound
      <4> QED BY <4>1, <4>2
    <3> QED BY <3>3, <3>4 DEF SharesBound
  <2>3. CASE Crash(h)
    <3>1. SeenOwn'
      BY <2>3 DEF Crash, SeenOwn
    <3>2. ASSUME NEW g \in Hosts, g_ready'[g], storing'[g] = {}
          PROVE  GoodShare(epoch', g, g_x'[g], g_share'[g])
      <4>1. g # h
        BY <2>3, <3>2 DEF Crash
      <4>2. /\ g_ready'[g] = g_ready[g] /\ g_x'[g] = g_x[g]
            /\ g_share'[g] = g_share[g] /\ storing'[g] = storing[g]
        BY <2>3, <4>1 DEF Crash
      <4> QED BY <1>1, <3>2, <4>2 DEF SharesBound
    <3> QED BY <3>1, <3>2 DEF SharesBound
  <2> QED BY <1>3, <2>1, <2>2, <2>3
<1>4. ASSUME NEW h \in Hosts, PartialDecrypt(h) \/ Listen(h)
      PROVE  UNCHANGED shareholderVars
  BY <1>4 DEF PartialDecrypt, Listen
<1> QED
  BY <1>2, <1>3, <1>4, OthersKeepCore
  DEF Next, DealerStep, ShareholderStep, ShareholderNext, CoordStep, coreVars

ShareInv == TInv /\ DealInv /\ SharesBound /\ SeenOwn

LEMMA ShareInvariant == Spec => []ShareInv
<1>1. Init => SharesBound /\ SeenOwn
  BY DEF Init, ShareholderInit, SharesBound, SeenOwn
<1>2. Init => ShareInv
  BY <1>1, TypeInit, DealStart DEF ShareInv
<1>3. ShareInv /\ [Next]_vars => ShareInv'
  BY TypeStep, DealStep, BoundStep DEF ShareInv
<1> QED BY <1>2, <1>3, PTL DEF Spec

(* Each host learns points of its own place in the dealer's list only, so  *)
(* the points a set of hosts knows of one polynomial inject into the set.  *)
LEMMA PointsInject ==
  ASSUME TInv, SeenOwn, Distinct(dealerHosts), NEW S \in SUBSET Hosts, NEW e \in Epochs
  PROVE  LET P == {s.pt : s \in {t \in UNION {seen[h] : h \in S} : t.ep = e}}
         IN  Cardinality(P) <= Cardinality(S) /\ IsFiniteSet(P) /\ IsFiniteSet(S)
<1> DEFINE P == {s.pt : s \in {t \in UNION {seen[h] : h \in S} : t.ep = e}}
<1>1. \A p \in P : p \in 1..Len(dealerHosts) /\ dealerHosts[p] \in S
  <2> SUFFICES ASSUME NEW p \in P
               PROVE  p \in 1..Len(dealerHosts) /\ dealerHosts[p] \in S
    OBVIOUS
  <2>1. PICK h \in S : \E s \in seen[h] : p = s.pt
    OBVIOUS
  <2>2. PICK s \in seen[h] : p = s.pt
    BY <2>1
  <2>3. s \in [ep : Epochs, pt : Points]
    BY DEF TInv, TypeOK, ShareholderTypeOK
  <2> QED BY <2>1, <2>2, <2>3, HostLists, SizeAssumption DEF SeenOwn, Points
<1> DEFINE f == [p \in P |-> dealerHosts[p]]
<1>2. f \in Injection(P, S)
  <2> HIDE DEF P
  <2>1. f \in [P -> S]
    BY <1>1
  <2>2. \A p, q \in P : f[p] = f[q] => p = q
    BY <1>1 DEF Distinct
  <2> QED BY <2>1, <2>2 DEF Injection, IsInjective
<1>3. IsFiniteSet(S)
  BY FS_Subset, HostListAssumption
<1> HIDE DEF P, f
<1>4. IsFiniteSet(P) /\ Cardinality(P) <= Cardinality(S)
  BY <1>2, <1>3, FS_Injection
<1> QED BY <1>3, <1>4 DEF P

(* No coalition of fewer than Threshold shareholders learns Threshold      *)
(* points of one polynomial, however often shares are dealt, lost, late or *)
(* dealt again.                                                            *)
THEOREM CoalitionsStayBelow == Spec => []CoalitionBelowThreshold
<1>1. ShareInv => CoalitionBelowThreshold
  <2> SUFFICES ASSUME ShareInv, Distinct(dealerHosts), NEW S \in SUBSET Hosts,
                      Cardinality(S) < Threshold, NEW e \in Epochs
               PROVE  Cardinality({s.pt : s \in {t \in UNION {seen[h] : h \in S} : t.ep = e}})
                        < Threshold
    BY DEF CoalitionBelowThreshold
  <2> DEFINE P == {s.pt : s \in {t \in UNION {seen[h] : h \in S} : t.ep = e}}
  <2>1. Cardinality(P) <= Cardinality(S) /\ IsFiniteSet(P) /\ IsFiniteSet(S)
    BY PointsInject DEF ShareInv
  <2>2. Cardinality(P) \in Nat /\ Cardinality(S) \in Nat
    BY <2>1, FS_CardinalityType
  <2> HIDE DEF P
  <2>3. Cardinality(P) < Threshold
    BY <2>1, <2>2, SizeAssumption
  <2> QED BY <2>3 DEF P
<1> QED BY <1>1, ShareInvariant, PTL

-----------------------------------------------------------------------------
(* What the coordinator makes of its answers.                              *)

(* The number of keypairs only grows, so what was good stays good.         *)
LEMMA EpochGrows ==
  ASSUME TInv, [Next]_vars
  PROVE  /\ epoch \in Nat /\ (epoch' = epoch \/ epoch' = epoch + 1)
         /\ \A h, x, s : GoodShare(epoch, h, x, s) => GoodShare(epoch', h, x, s)
         /\ \A p : Collected(epoch, p) => Collected(epoch', p)
<1> USE DEF vars, dealerVars
<1>1. DealerNext => epoch' = epoch \/ epoch' = epoch + 1
  BY DEF DealerNext, DealerRun, DealerStart, DealerRefuse, DealerOpen, DealerWrite,
         DealerProbe, DealerPost, DealerReturn, DealerKill
<1>2. epoch \in Nat
  BY SizeAssumption DEF TInv, TypeOK, DealerTypeOK
<1>3. epoch' = epoch \/ epoch' = epoch + 1
  BY <1>1, OthersKeepCore DEF Next, DealerStep, ShareholderStep, CoordStep, coreVars
<1>4. \A h, x, s : GoodShare(epoch, h, x, s) => GoodShare(epoch', h, x, s)
  BY <1>2, <1>3 DEF GoodShare
<1>5. \A p : Collected(epoch, p) => Collected(epoch', p)
  BY <1>4 DEF Collected, GoodPartial
<1> QED BY <1>2, <1>3, <1>4, <1>5

LEMMA RowsGrow ==
  ASSUME TInv, [Next]_vars, NEW r \in Row, GoodRow(epoch, r)
  PROVE  GoodRow(epoch', r)
<1>1. r.ek \in Nat
  BY SizeAssumption DEF Row, Epochs
<1> QED BY <1>1, EpochGrows DEF GoodRow

(* Steps of the dealer and of the shareholders.                            *)
LEMMA TrialOthers ==
  ASSUME TInv, SharesBound, TrialInv,
         DealerStep \/ ShareholderStep \/ BesideStep \/ UNCHANGED vars
  PROVE  TrialInv'
<1>a. [Next]_vars
  BY DEF Next
<1>b. UNCHANGED coordVars
  BY OthersKeepCore DEF DealerStep, ShareholderStep, coreVars
<1> USE <1>a, <1>b DEF coordVars
<1>1. RepliesBound'
  <2>1. CASE UNCHANGED askVars
    BY <2>1, EpochGrows DEF TrialInv, RepliesBound, askVars
  <2>2. ASSUME NEW h \in Hosts, PartialDecrypt(h) PROVE RepliesBound'
    <3>1. ask = {h} /\ ask' = ask /\ cpc = "wait"
      BY <2>2 DEF PartialDecrypt, TrialInv, RepliesBound
    <3>2. g_ready[h] /\ storing[h] = {} => GoodShare(epoch', h, g_x[h], g_share[h])
      BY EpochGrows DEF SharesBound
    <3>3. \A r \in reply' : r.code = 200 => GoodShare(epoch', h, r.x, r.share)
      BY <2>2, <3>2 DEF PartialDecrypt, Idle
    <3> QED BY <3>1, <3>3 DEF TrialInv, RepliesBound
  <2>3. UNCHANGED askVars \/ \E h \in Hosts : PartialDecrypt(h)
    <3>1. DealerNext => UNCHANGED askVars
      BY DEF DealerNext, DealerRun, DealerStart, DealerRefuse, DealerOpen, DealerWrite,
             DealerProbe, DealerPost, DealerReturn, DealerKill, wireVars
    <3>2. ShareholderNext => UNCHANGED askVars \/ \E h \in Hosts : PartialDecrypt(h)
      BY DEF ShareholderNext, StoreBegin, StoreEnd, Crash, Listen
    <3> QED BY <3>1, <3>2, OthersKeepCore DEF DealerStep, ShareholderStep, coreVars, wireVars
  <2> QED BY <2>1, <2>2, <2>3
<1>2. Collected(epoch, got)' /\ \A i \in 1..Len(got') : got'[i].at < ci'
  BY EpochGrows DEF TrialInv
<1>3. \A i \in 1..Len(rows') : GoodRow(epoch', rows'[i])
  BY RowsGrow DEF TrialInv, TInv, TypeOK, CoordTypeOK
<1>4. ekFile' <= epoch'
  <2>1. TrialInv => ekFile <= epoch
    BY DEF TrialInv
  <2>2. ekFile \in Nat
    BY SizeAssumption DEF TInv, TypeOK, WireTypeOK
  <2>3. UNCHANGED ekFile \/ ekFile' = 0 \/ ekFile' = epoch
    <3>1. DealerNext => UNCHANGED ekFile \/ ekFile' = 0 \/ ekFile' = epoch
      BY DEF DealerNext, DealerRun, DealerStart, DealerRefuse, DealerOpen, DealerWrite,
             DealerProbe, DealerPost, DealerReturn, DealerKill, wireVars, fileVars
    <3>2. ShareholderNext => UNCHANGED ekFile
      BY DEF ShareholderNext, StoreBegin, StoreEnd, PartialDecrypt, Crash, Listen, fileVars
    <3> QED BY <3>1, <3>2, OthersKeepCore
            DEF DealerStep, ShareholderStep, coreVars, wireVars, fileVars
  <2> QED BY <2>1, <2>2, <2>3, EpochGrows
<1>5. cek' <= epoch'
  BY EpochGrows, SizeAssumption DEF TrialInv, TInv, TypeOK, CoordTypeOK
<1> QED BY <1>1, <1>2, <1>3, <1>4, <1>5 DEF TrialInv

(* Steps of the coordinator: TrialInv by parts.                            *)
LEMMA TrialCoord ==
  ASSUME TInv, TrialInv, CoordStep
  PROVE  TrialInv'
<1>a. UNCHANGED <<epoch, ekFile>>
  BY DEF CoordStep, GatedStart, CoordStart, CoordRun, CoordReadEk, CoordReadZ, CoordProbe,
     CoordOpen, CoordEncaps, CoordAsk, CoordTake, CoordSkip, CoordFinish,
     CoordClose, dealerVars, wireVars, fileVars
<1>b. ekFile \in Nat /\ epoch \in Nat
  BY SizeAssumption DEF TInv, TypeOK, WireTypeOK, DealerTypeOK
<1>c. got \in Seq(Partial) /\ rows \in Seq(Row) /\ ci \in Nat
  BY SizeAssumption DEF TInv, TypeOK, CoordTypeOK
<1>d. \A i \in 1..Len(got) : got[i].at \in Nat /\ got[i].at < ci
  <2>1. \A i \in 1..Len(got) : got[i] \in Partial
    BY <1>c
  <2>2. \A i \in 1..Len(got) : got[i].at \in Nat
    BY <2>1, SizeAssumption DEF Partial, Points
  <2> QED BY <2>2 DEF TrialInv
<1>1. CASE \/ GatedStart \/ CoordReadEk \/ CoordReadZ \/ CoordProbe \/ CoordOpen
           \/ CoordEncaps \/ CoordClose
  <2> USE <1>1 DEF GatedStart, CoordStart, CoordReadEk, CoordReadZ, CoordProbe, CoordOpen,
                   CoordEncaps, CoordClose
  <2>1. RepliesBound'
    <3>1. cpc # "wait" /\ cpc' # "wait" /\ UNCHANGED askVars
      BY DEF wireVars
    <3> QED BY <3>1 DEF TrialInv, RepliesBound, askVars
  <2>2. Collected(epoch, got)' /\ \A i \in 1..Len(got') : got'[i].at < ci'
    <3>1. CASE got' = << >>
      BY <3>1 DEF Collected
    <3>2. CASE UNCHANGED <<got, ci>>
      BY <1>a, <3>2 DEF TrialInv
    <3>3. CASE CoordProbe
      <4>1. got' = got /\ got = << >>
        BY <3>3 DEF TInv, CoordBounds
      <4> QED BY <4>1 DEF Collected
    <3> QED BY <3>1, <3>2, <3>3
  <2>3. \A i \in 1..Len(rows') : GoodRow(epoch', rows'[i])
    <3>1. rows' = rows \/ rows' = << >>
      OBVIOUS
    <3> QED BY <1>a, <3>1 DEF TrialInv
  <2>4. cek' <= epoch'
    <3>1. cek' \in {cek, 0, ekFile}
      OBVIOUS
    <3> QED BY <1>a, <1>b, <3>1 DEF TrialInv
  <2> QED BY <1>a, <2>1, <2>2, <2>3, <2>4 DEF TrialInv
<1>2. CASE CoordAsk
  <2> USE <1>2 DEF CoordAsk
  <2>1. RepliesBound'
    BY DEF RepliesBound
  <2> QED BY <1>a, <2>1 DEF TrialInv
<1>3. CASE CoordSkip
  <2> USE <1>3 DEF CoordSkip
  <2>1. RepliesBound'
    BY DEF RepliesBound
  <2>2. \A i \in 1..Len(got) : got[i].at < ci + 1
    BY <1>c, <1>d
  <2> QED BY <1>a, <2>1, <2>2 DEF TrialInv
<1>4. CASE CoordTake
  <2>1. RepliesBound'
    BY <1>4 DEF CoordTake, RepliesBound
  <2>2. PICK r \in reply :
          r.code = 200 /\ got' = Append(got, [x |-> r.x, share |-> r.share, at |-> ci])
    BY <1>4 DEF CoordTake
  <2> DEFINE p == [x |-> r.x, share |-> r.share, at |-> ci]
  <2>3. p.at = ci /\ GoodPartial(epoch, p)
    <3>1. GoodShare(epoch, coordHosts[ci], r.x, r.share) /\ ci <= Len(coordHosts)
      BY <1>4, <2>2 DEF CoordTake, TrialInv, RepliesBound, TInv, CoordBounds
    <3> QED BY <3>1 DEF GoodPartial
  <2>4. p \in Partial
    BY <1>4, <2>2, SizeAssumption, HostLists
    DEF CoordTake, TInv, TypeOK, WireTypeOK, CoordTypeOK, CoordBounds, Reply, Partial, Points
  <2> HIDE DEF p
  <2>5. /\ Len(got') = Len(got) + 1 /\ got'[Len(got) + 1] = p
        /\ \A i \in 1..Len(got) : got'[i] = got[i]
    BY <1>c, <2>2, <2>4 DEF p
  <2>7. \A i \in 1..Len(got') : GoodPartial(epoch, got'[i])
    BY <1>c, <2>3, <2>5 DEF TrialInv, Collected
  <2>8. \A i, j \in 1..Len(got') : i < j => got'[i].at < got'[j].at
    <3> SUFFICES ASSUME NEW i \in 1..Len(got'), NEW j \in 1..Len(got'), i < j
                 PROVE  got'[i].at < got'[j].at
      OBVIOUS
    <3>1. CASE j \in 1..Len(got)
      <4>1. got'[i] = got[i] /\ got'[j] = got[j] /\ i \in 1..Len(got)
        BY <1>c, <2>5, <3>1
      <4>2. \A k, l \in 1..Len(got) : k < l => got[k].at < got[l].at
        BY DEF TrialInv, Collected
      <4> QED BY <3>1, <4>1, <4>2
    <3>2. CASE j = Len(got) + 1
      <4>1. got'[i] = got[i] /\ got'[j] = p /\ i \in 1..Len(got)
        BY <1>c, <2>5, <3>2
      <4> QED BY <1>d, <2>3, <4>1
    <3> QED BY <1>c, <2>5, <3>1, <3>2
  <2>9. \A i \in 1..Len(got') : got'[i].at < ci + 1
    BY <1>c, <1>d, <2>3, <2>5
  <2> QED BY <1>4, <1>a, <2>1, <2>7, <2>8, <2>9 DEF CoordTake, TrialInv, Collected
<1>5. CASE CoordFinish
  <2> DEFINE full == Len(got) = K
             ss_enc == [kind |-> "shared", of |-> cek]
             ss_dec == IF full THEN ThresholdDecaps(got, cek, cz) ELSE ZeroKey
             row == [kem |-> full /\ ss_dec = ss_enc, aes |-> ss_dec = ss_enc,
                     ek |-> cek, used |-> got, failed |-> failed]
  <2>1. /\ rows' = Append(rows, row) /\ UNCHANGED <<got, ci, cek, askVars>>
        /\ cpc = "collect" /\ cpc' = "trial" /\ ~Collecting
    BY <1>5 DEF CoordFinish, wireVars
  <2>2. RepliesBound'
    BY <2>1 DEF TrialInv, RepliesBound, askVars
  <2>3. row.used = got /\ row.ek = cek /\ row.failed = failed
    OBVIOUS
  <2>4. (full /\ Recovers(got, cek)) => row.kem /\ row.aes
    BY DEF ThresholdDecaps
  <2>5. failed \in Nat /\ Len(got) \in Nat /\ Len(got) <= K
        /\ (Len(got) < K => failed + Len(got) = Len(coordHosts))
    BY <1>c, <2>1, SizeAssumption, HostLists
    DEF TInv, TypeOK, CoordTypeOK, CoordBounds, Collecting
  <2>6. row \in Row
    <3>1. cek \in Epochs /\ failed \in 0..NParties
      BY <2>1, SizeAssumption DEF TInv, TypeOK, CoordTypeOK, CoordBounds, Epochs
    <3> HIDE DEF full, ss_enc, ss_dec
    <3> QED BY <1>c, <3>1, Zenon DEF Row
  <2> HIDE DEF row
  <2>7. GoodRow(epoch, row)
    BY <2>3, <2>4, <2>5 DEF GoodRow, TrialInv
  <2>8. \A i \in 1..Len(rows') : GoodRow(epoch, rows'[i])
    <3>1. /\ Len(rows') = Len(rows) + 1 /\ rows'[Len(rows) + 1] = row
          /\ \A i \in 1..Len(rows) : rows'[i] = rows[i]
      BY <1>c, <2>1, <2>6
    <3> QED BY <1>c, <2>7, <3>1 DEF TrialInv
  <2> QED BY <1>a, <2>1, <2>2, <2>8 DEF TrialInv
<1> QED BY <1>1, <1>2, <1>3, <1>4, <1>5 DEF CoordStep, CoordRun

LEMMA TrialStart == Init => TrialInv
<1> SUFFICES ASSUME Init PROVE TrialInv
  OBVIOUS
<1>1. /\ cpc = "off" /\ ask = {} /\ reply = {} /\ got = << >> /\ rows = << >>
      /\ ekFile = 0 /\ cek = 0 /\ epoch = 0
  BY DEF Init, WireInit, DealerInit, CoordInit
<1>2. RepliesBound
  BY <1>1 DEF RepliesBound
<1>3. Collected(epoch, got)
  BY <1>1 DEF Collected
<1> QED BY <1>1, <1>2, <1>3 DEF TrialInv

LEMMA TrialInvariant == Spec => [](ShareInv /\ TrialInv)
<1>1. Init => ShareInv /\ TrialInv
  <2>1. Init => SharesBound /\ SeenOwn
    BY DEF Init, ShareholderInit, SharesBound, SeenOwn
  <2> QED BY <2>1, TypeInit, DealStart, TrialStart DEF ShareInv
<1>2. ShareInv /\ TrialInv /\ [Next]_vars => (ShareInv /\ TrialInv)'
  BY TypeStep, DealStep, BoundStep, TrialOthers, TrialCoord DEF ShareInv, Next
<1> QED BY <1>1, <1>2, PTL DEF Spec

(* A partial decryption is computed from a whole share, and sent with the  *)
(* x that share belongs to.                                                *)
THEOREM PartialsAreWhole == Spec => []WholePartial
<1>1. ShareInv /\ TrialInv => WholePartial
  <2> SUFFICES ASSUME ShareInv, TrialInv, NEW r \in reply, r.code = 200
               PROVE  r.share # Blank /\ r.x = r.share.pt
    BY DEF WholePartial
  <2>1. GoodShare(epoch, coordHosts[ci], r.x, r.share)
    BY DEF TrialInv, RepliesBound
  <2>2. r.share.ep # 0 /\ r.x = r.share.pt
    BY <2>1 DEF GoodShare
  <2> QED BY <2>2 DEF Blank
<1> QED BY <1>1, TrialInvariant, PTL

(* Partials collected from a list without repetitions carry different x.   *)
LEMMA CollectedDistinct ==
  ASSUME Distinct(coordHosts), NEW e, NEW partials \in Seq(Partial), Collected(e, partials)
  PROVE  \A i, j \in 1..Len(partials) : i # j => partials[i].x # partials[j].x
<1> SUFFICES ASSUME NEW i \in 1..Len(partials), NEW j \in 1..Len(partials), i # j,
                    partials[i].x = partials[j].x
             PROVE  FALSE
  OBVIOUS
<1>1. partials[i].at \in Points /\ partials[j].at \in Points
  <2>1. partials[i] \in Partial /\ partials[j] \in Partial
    OBVIOUS
  <2> QED BY <2>1 DEF Partial
<1>2. partials[i].at # partials[j].at
  <2>1. partials[i].at \in Nat /\ partials[j].at \in Nat
    BY <1>1, SizeAssumption DEF Points
  <2>2. i < j \/ j < i
    OBVIOUS
  <2> QED BY <2>1, <2>2 DEF Collected
<1>3. /\ coordHosts[partials[i].at] = coordHosts[partials[j].at]
      /\ partials[i].at <= Len(coordHosts) /\ partials[j].at <= Len(coordHosts)
  BY DEF Collected, GoodPartial, GoodShare
<1>4. partials[i].at \in 1..Len(coordHosts) /\ partials[j].at \in 1..Len(coordHosts)
  BY <1>1, <1>3, HostLists, SizeAssumption DEF Points
<1> QED BY <1>2, <1>3, <1>4 DEF Distinct

(* A full trial whose partials all belong to ek's keypair recovers.        *)
LEMMA FullRowRecovers ==
  ASSUME HostsDistinct, K >= Threshold, NEW r \in Row, NEW e, GoodRow(e, r),
         Len(r.used) = K, \A j \in 1..K : r.used[j].share.ep = r.ek
  PROVE  r.kem /\ r.aes
<1>1. r.used \in Seq(Partial) /\ Collected(e, r.used)
  BY DEF Row, GoodRow
<1>2. \A i, j \in 1..Len(r.used) : i # j => r.used[i].x # r.used[j].x
  BY <1>1, CollectedDistinct DEF HostsDistinct
<1>3. \A i \in 1..Len(r.used) : r.used[i].x = r.used[i].share.pt
  BY <1>1 DEF Collected, GoodPartial, GoodShare
<1>4. Recovers(r.used, r.ek)
  BY <1>2, <1>3 DEF Recovers
<1> QED BY <1>4 DEF GoodRow

(* A failed trial had more failing hosts than the deployment can spare, or *)
(* used a share of another keypair than that of its ek.                    *)
THEOREM FailedTrialsExplained == Spec => []FailedTrialExplained
<1>1. ShareInv /\ TrialInv => FailedTrialExplained
  <2> SUFFICES ASSUME ShareInv, TrialInv, HostsDistinct, K >= Threshold, NEW i \in FailedRows
               PROVE  IF Len(rows[i].used) < K
                      THEN rows[i].failed > Len(coordHosts) - K
                      ELSE \E j \in 1..K : rows[i].used[j].share.ep # rows[i].ek
    BY DEF FailedTrialExplained
  <2>1. rows[i] \in Row /\ GoodRow(epoch, rows[i]) /\ ~rows[i].kem
    BY DEF ShareInv, TInv, TypeOK, CoordTypeOK, TrialInv, FailedRows
  <2>2. /\ Len(rows[i].used) \in Nat /\ rows[i].failed \in Nat /\ K \in Nat
        /\ Len(coordHosts) \in Nat
    BY <2>1, SizeAssumption, HostLists DEF Row
  <2>3. CASE Len(rows[i].used) < K
    BY <2>1, <2>2, <2>3 DEF GoodRow
  <2>4. CASE ~(Len(rows[i].used) < K)
    <3>1. Len(rows[i].used) = K
      BY <2>1, <2>2, <2>4 DEF GoodRow
    <3> QED BY <2>1, <2>4, <3>1, FullRowRecovers
  <2> QED BY <2>3, <2>4
<1> QED BY <1>1, TrialInvariant, PTL

(* As long as one keypair was ever dealt, any k hosts that answer recover  *)
(* the key, whatever was lost, late or killed.                             *)
THEOREM OneDealingRecovers == Spec => []SingleDealingRecovers
<1>1. ShareInv /\ TrialInv => SingleDealingRecovers
  <2> SUFFICES ASSUME ShareInv, TrialInv, epoch = 1, HostsDistinct, K >= Threshold,
                      NEW i \in 1..Len(rows), Len(rows[i].used) = K
               PROVE  rows[i].kem /\ rows[i].aes
    BY DEF SingleDealingRecovers
  <2>1. rows[i] \in Row /\ GoodRow(1, rows[i])
    BY DEF ShareInv, TInv, TypeOK, CoordTypeOK, TrialInv
  <2>2. rows[i].ek = 1
    BY <2>1, SizeAssumption DEF Row, Epochs, GoodRow
  <2>3. \A j \in 1..K : rows[i].used[j].share.ep = 1
    BY <2>1 DEF GoodRow, Collected, GoodPartial, GoodShare
  <2> QED BY <2>1, <2>2, <2>3, FullRowRecovers
<1> QED BY <1>1, TrialInvariant, PTL

(* The points given to threshold_combine are distinct when no host is named *)
(* twice, so that it inverts no zero.                                      *)
THEOREM PointsAreDistinct == Spec => []CombinesDistinctPoints
<1>1. ShareInv /\ TrialInv => CombinesDistinctPoints
  <2> SUFFICES ASSUME ShareInv, TrialInv, HostsDistinct, Len(got) = K
               PROVE  \A i, j \in 1..K : i # j => got[i].x # got[j].x
    BY DEF CombinesDistinctPoints
  <2>1. got \in Seq(Partial) /\ Collected(epoch, got)
    BY DEF ShareInv, TInv, TypeOK, CoordTypeOK, TrialInv
  <2> QED BY <2>1, CollectedDistinct DEF HostsDistinct
<1> QED BY <1>1, TrialInvariant, PTL

(* Rows this run flushes come to stand in their places: what was there     *)
(* before was its own, another coordinator's, or nobody's.                 *)
LEMMA FlushInPlace ==
  ASSUME ResultsTypeOK, NEW run \in Nat, NEW n \in Nat, flushed <= n, Flush(run, n),
         \A i \in 1..Len(results) :
           results[i] = Foreign \/ (results[i] = run /\ i <= flushed)
  PROVE  /\ flushed' \in flushed..n /\ UNCHANGED disturbed
         /\ \A i \in 1..Len(results') :
              results'[i] = Foreign \/ (results'[i] = run /\ i <= flushed')
         /\ results = [i \in 1..flushed |-> run] => results' = [i \in 1..flushed' |-> run]
<1> USE DEF ResultsTypeOK
<1>1. flushed' \in flushed..n /\ flushed' \in Nat /\ UNCHANGED disturbed
  BY DEF Flush
<1>2. CASE flushed' = flushed
  BY <1>1, <1>2 DEF Flush
<1>3. CASE flushed' # flushed
  <2>1. results' = Overwrite(results, flushed + 1, flushed', run) /\ flushed + 1 \in Nat
    BY <1>3 DEF Flush
  <2>2. /\ results' \in Seq(Nat)
        /\ Len(results') = IF flushed' > Len(results) THEN flushed' ELSE Len(results)
        /\ \A i \in 1..Len(results') :
             results'[i] = IF i \in (flushed + 1)..flushed' THEN run
                           ELSE IF i <= Len(results) THEN results[i] ELSE Foreign
    BY <1>1, <2>1, OverwriteProperties
  <2>3. \A i \in 1..Len(results') :
          results'[i] = Foreign \/ (results'[i] = run /\ i <= flushed')
    BY <1>1, <2>2
  <2>4. ASSUME results = [i \in 1..flushed |-> run]
        PROVE  results' = [i \in 1..flushed' |-> run]
    <3>1. Len(results) = flushed /\ \A i \in 1..flushed : results[i] = run
      BY <2>4
    <3>2. Len(results') = flushed' /\ \A i \in 1..flushed' : results'[i] = run
      BY <1>1, <1>3, <2>2, <3>1
    <3>3. results' = [i \in 1..Len(results') |-> results'[i]]
      BY <2>2
    <3> QED BY <3>2, <3>3
  <2> QED BY <1>1, <2>3, <2>4
<1> QED BY <1>2, <1>3

(* What the other coordinators do to the file of a run that has opened it. *)
LEMMA ResultsBeside ==
  ASSUME ResultsTypeOK, ResultsAsWritten, BesideStep
  PROVE  ResultsAsWritten'
<1> USE ResultsAssumption DEF ResultsTypeOK
<1>1. UNCHANGED <<cpc, cruns, cek, rows, flushed>>
  BY DEF BesideStep, coordVars, OtherStart, OtherRun, OtherOpen, OtherWrite, OtherExit
<1>2. SUFFICES ASSUME cpc \in {"trial", "collect", "wait", "exit0"}
               PROVE  /\ \A i \in 1..Len(results') :
                           results'[i] = Foreign \/ (results'[i] = cruns /\ i <= flushed)
                      /\ ~disturbed' => results' = [i \in 1..flushed |-> cruns]
  BY <1>1 DEF ResultsAsWritten
<1>3. PICK b \in Beside : OtherStart(b) \/ OtherRun(b)
  BY DEF BesideStep
<1>4. CASE OtherStart(b) \/ OtherExit(b)
  BY <1>2, <1>4 DEF OtherStart, OtherExit, ResultsAsWritten
<1>5. CASE OtherOpen(b)
  BY <1>5 DEF OtherOpen
<1>6. CASE OtherWrite(b)
  <2> DEFINE at == others[b].at + 1
  <2>1. /\ results' = Overwrite(results, at, at, Foreign) /\ disturbed'
        /\ at \in Nat /\ Foreign \in Nat
    BY <1>6 DEF OtherWrite, Other, Foreign
  <2>2. \A i \in 1..Len(results') :
          results'[i] = Foreign \/ (i \in 1..Len(results) /\ results'[i] = results[i])
    <3> HIDE DEF at
    <3> QED BY <2>1, OverwriteProperties
  <2> QED BY <1>2, <2>1, <2>2 DEF ResultsAsWritten
<1> QED BY <1>3, <1>4, <1>5, <1>6 DEF OtherRun

(* Whatever an earlier run left, however late the stream writes and        *)
(* whichever coordinators run beside it: a run's file holds its own rows   *)
(* in their places, and only those until another one touches it.           *)
THEOREM ResultsStayAsWritten == Spec => []ResultsAsWritten
<1>1. Init => ResultsAsWritten
  BY DEF Init, CoordInit, ResultsAsWritten
<1>2. TInv /\ ResultsAsWritten /\ [Next]_vars => ResultsAsWritten'
  <2> SUFFICES ASSUME TInv, ResultsAsWritten, [Next]_vars PROVE ResultsAsWritten'
    OBVIOUS
  <2>0. /\ ResultsTypeOK /\ rows \in Seq(Row) /\ cruns \in Nat
        /\ Len(rows) \in Nat /\ flushed \in Nat
    BY CoordAssumption DEF TInv, TypeOK, CoordTypeOK, ResultsTypeOK
  <2>1. CASE UNCHANGED <<coordVars, resultsVars>>
    BY <2>1 DEF ResultsAsWritten, coordVars, resultsVars
  <2>2. CASE GatedStart \/ CoordReadEk \/ CoordReadZ \/ CoordProbe
    <3>1. cpc' \in {"ek", "z", "probe", "open", "exit1"}
      BY <2>2 DEF GatedStart, CoordStart, CoordReadEk, CoordReadZ, CoordProbe
    <3> QED BY <3>1 DEF ResultsAsWritten
  <2>3. CASE CoordOpen
    <3>1. CASE cpc' = "exit1"
      BY <3>1 DEF ResultsAsWritten
    <3>2. CASE rows' = << >> /\ Truncate
      <4>1. /\ Len(rows') = 0 /\ results' = << >> /\ Len(results') = 0
            /\ flushed' = 0 /\ Len(rows') \in Nat
        BY <3>2 DEF Truncate
      <4>2. << >> = [i \in 1..0 |-> cruns']
        OBVIOUS
      <4> QED BY <4>1, <4>2 DEF ResultsAsWritten
    <3> QED BY <2>3, <3>1, <3>2 DEF CoordOpen
  <2>4. CASE CoordEncaps \/ CoordAsk \/ CoordTake \/ CoordSkip
    <3>1. /\ cpc \in {"trial", "collect", "wait"}
          /\ UNCHANGED <<rows, cek, cruns, resultsVars>>
      BY <2>4 DEF CoordEncaps, CoordAsk, CoordTake, CoordSkip
    <3> QED BY <3>1 DEF ResultsAsWritten, resultsVars
  <2>5. CASE CoordFinish
    <3>1. PICK row : rows' = Append(rows, row) /\ row.ek = cek
      BY <2>5 DEF CoordFinish
    <3>2. /\ cpc = "collect" /\ cek' = cek /\ cruns' = cruns
          /\ Flush(cruns, Len(rows) + 1)
      BY <2>5 DEF CoordFinish
    <3>3. /\ Len(rows') = Len(rows) + 1 /\ rows'[Len(rows) + 1] = row
          /\ \A i \in 1..Len(rows) : rows'[i] = rows[i]
      BY <2>0, <3>1
    <3>4. \A i \in 1..Len(rows') : rows'[i].ek = cek
      BY <2>0, <3>1, <3>2, <3>3 DEF ResultsAsWritten
    <3>5. /\ Len(rows) + 1 \in Nat /\ flushed <= Len(rows) + 1
          /\ \A i \in 1..Len(results) :
               results[i] = Foreign \/ (results[i] = cruns /\ i <= flushed)
          /\ ~disturbed => results = [i \in 1..flushed |-> cruns]
      BY <2>0, <3>2 DEF ResultsAsWritten
    <3>6. /\ flushed' \in flushed..(Len(rows) + 1) /\ UNCHANGED disturbed
          /\ \A i \in 1..Len(results') :
               results'[i] = Foreign \/ (results'[i] = cruns /\ i <= flushed')
          /\ ~disturbed => results' = [i \in 1..flushed' |-> cruns]
      BY <2>0, <3>2, <3>5, FlushInPlace
    <3> QED BY <2>0, <3>2, <3>3, <3>4, <3>6 DEF ResultsAsWritten
  <2>6. CASE CoordClose
    <3>1. cpc = "trial" /\ UNCHANGED <<rows, cek, cruns>> /\ Flush(cruns, Len(rows))
      BY <2>6 DEF CoordClose
    <3>2. /\ flushed' \in flushed..Len(rows) /\ UNCHANGED disturbed
          /\ \A i \in 1..Len(results') :
               results'[i] = Foreign \/ (results'[i] = cruns /\ i <= flushed')
          /\ ~disturbed => results' = [i \in 1..flushed' |-> cruns]
      BY <2>0, <3>1, FlushInPlace DEF ResultsAsWritten
    <3> QED BY <2>0, <3>1, <3>2 DEF ResultsAsWritten
  <2>7. CASE BesideStep
    BY <2>0, <2>7, ResultsBeside
  <2> QED
    BY <2>1, <2>2, <2>3, <2>4, <2>5, <2>6, <2>7
    DEF Next, DealerStep, ShareholderStep, CoordStep, CoordRun, vars
<1> QED BY <1>1, <1>2, TypeInit, TypeStep, PTL DEF Spec

-----------------------------------------------------------------------------
(* Key files.                                                              *)

LEMMA FilesStep ==
  ASSUME TInv, FilesInv, [Next]_vars
  PROVE  FilesInv'
<1> USE SizeAssumption DEF TInv, TypeOK, DealerTypeOK, WireTypeOK, CoordTypeOK, FilesInv
<1> USE DEF vars, wireVars, fileVars, dealerVars, coordVars, DealerPCs, DealerStopped
<1>1. CASE DealerStep
  <2>0. UNCHANGED <<cpc, cek, cz, cepoch>>
    BY <1>1 DEF DealerStep
  <2>1. CASE DealerStart BY <2>0, <2>1 DEF DealerStart
  <2>2. CASE DealerRefuse BY <2>0, <2>2 DEF DealerRefuse
  <2>3. CASE DealerOpen BY <2>0, <2>3 DEF DealerOpen
  <2>4. CASE DealerWrite BY <2>0, <2>4 DEF DealerWrite
  <2>5. CASE DealerProbe BY <2>0, <2>5 DEF DealerProbe, NextHost
  <2>6. CASE DealerPost BY <2>0, <2>6 DEF DealerPost
  <2>7. CASE DealerReturn BY <2>0, <2>7 DEF DealerReturn, NextHost
  <2>8. CASE DealerKill BY <2>0, <2>8 DEF DealerKill
  <2> QED BY <1>1, <2>1, <2>2, <2>3, <2>4, <2>5, <2>6, <2>7, <2>8
          DEF DealerStep, DealerNext, DealerRun
<1>2. CASE ShareholderStep
  BY <1>2 DEF ShareholderStep, ShareholderNext, StoreBegin, StoreEnd, PartialDecrypt,
              Crash, Listen
<1>3. CASE CoordStep
  <2>0. UNCHANGED <<dpc, epoch, ekFile, zFile>>
    BY <1>3 DEF CoordStep, GatedStart, CoordStart, CoordRun, CoordReadEk, CoordReadZ,
       CoordProbe, CoordOpen, CoordEncaps, CoordAsk, CoordTake, CoordSkip, CoordFinish,
       CoordClose
  <2>1. CASE GatedStart BY <2>0, <2>1 DEF GatedStart, Gate, CoordStart
  <2>2. CASE CoordReadEk BY <2>0, <2>2 DEF CoordReadEk
  <2>3. CASE CoordReadZ BY <2>0, <2>3 DEF CoordReadZ
  <2>4. CASE CoordProbe \/ CoordOpen \/ CoordEncaps \/ CoordAsk \/ CoordTake \/ CoordSkip
             \/ CoordFinish \/ CoordClose
    <3>1. cpc # "off" /\ cpc' # "off" /\ UNCHANGED <<cek, cz, cepoch>>
      BY <2>4 DEF CoordProbe, CoordOpen, CoordEncaps, CoordAsk, CoordTake, CoordSkip,
         CoordFinish, CoordClose
    <3> QED BY <2>0, <3>1
  <2> QED BY <1>3, <2>1, <2>2, <2>3, <2>4 DEF CoordStep, CoordRun
<1>4. CASE BesideStep \/ UNCHANGED vars
  BY <1>4, OthersKeepCore DEF coreVars
<1> QED BY <1>1, <1>2, <1>3, <1>4 DEF Next

(* The coordinator's ek and z are those of the last keypair dealt, unless  *)
(* the dealer was started again after the coordinator.                     *)
THEOREM KeyFilesOfOneKeypair == Spec => []KeyFilesMatch
<1>1. Init => FilesInv
  BY DEF Init, WireInit, DealerInit, CoordInit, FilesInv
<1>2. TInv /\ FilesInv /\ [Next]_vars => (TInv /\ FilesInv)'
  BY TypeStep, FilesStep
<1>3. FilesInv => KeyFilesMatch
  BY DEF FilesInv, KeyFilesMatch
<1> QED BY <1>1, <1>2, <1>3, TypeInit, PTL DEF Spec

-----------------------------------------------------------------------------
(* ThresholdKem implements ShareService.                                   *)

(* A share is sent to its host once, and reaches it at most once.          *)
LEMMA SentOnceDealer ==
  ASSUME ShareInv, SentOnce, DealerNext, UNCHANGED shareholderVars
  PROVE  SentOnce'
<1> USE SizeAssumption, PostTyped DEF shareholderVars, ShareInv, TInv, TypeOK, DealerTypeOK
<1>1. seen' = seen
  OBVIOUS
<1>2. \A h \in Hosts : \A s \in seen[h] : s.ep \in Nat /\ s.pt \in Points
  BY DEF ShareholderTypeOK, Epochs
<1>3. CASE DealerStart
  <2>1. posts' = posts /\ epoch' = epoch + 1
    BY <1>3 DEF DealerStart, wireVars, storeVars
  <2>2. \A h \in Hosts : \A s \in seen[h] : s.ep <= epoch' /\ s.ep # epoch'
    BY <1>2, <2>1 DEF SentOnce
  <2> QED BY <1>1, <2>1, <2>2 DEF SentOnce
<1>4. CASE DealerRefuse \/ DealerOpen \/ DealerWrite \/ DealerProbe \/ DealerKill
  <2>1. posts' = posts /\ epoch' = epoch
    BY <1>4 DEF DealerRefuse, DealerOpen, DealerWrite, DealerProbe, DealerKill,
                wireVars, storeVars
  <2>2. \/ dpc \in {"openEk", "writeEk", "openZ", "writeZ", "probe"}
        \/ dpc' = "exit1"
    BY <1>4 DEF DealerRefuse, DealerOpen, DealerWrite, DealerProbe, DealerKill
  <2> QED BY <1>1, <2>1, <2>2 DEF SentOnce
<1>5. CASE DealerPost
  <2> DEFINE s == [ep |-> epoch, pt |-> di]
             m == [to |-> dealerHosts[di], x |-> di, share |-> s]
  <2>1. /\ dpc = "post" /\ dpc' = "await" /\ posts' \subseteq posts \cup {m}
        /\ UNCHANGED <<epoch, di>>
    BY <1>5 DEF DealerPost
  <2>2. m.to \in Hosts
    <3>1. di \in 1..Len(dealerHosts)
      BY <2>1, HostLists DEF DealerBounds, DealerActive, DealerPCs, DealerStopped, Points
    <3> QED BY <3>1, HostLists
  <2>3. s \notin seen[m.to]
    <3> SUFFICES ASSUME s \in seen[m.to] PROVE FALSE
      OBVIOUS
    <3>1. s.pt < di
      BY <2>1, <2>2 DEF SentOnce
    <3> QED BY <3>1 DEF Points
  <2>4. \A n \in posts' : n.share \notin seen[n.to]
    <3> HIDE DEF m
    <3>1. m.share \notin seen[m.to]
      BY <2>3 DEF m
    <3> QED BY <2>1, <3>1 DEF SentOnce
  <2>5. \A h \in Hosts : \A t \in seen[h] : t.ep = epoch => t.pt <= di
    BY <1>2, <2>1 DEF SentOnce, Points
  <2> QED BY <1>1, <2>1, <2>4, <2>5 DEF SentOnce
<1>6. CASE DealerReturn
  <2>1. /\ dpc = "await" /\ UNCHANGED <<posts, epoch>>
        /\ (dpc' = "post" /\ di' = di + 1) \/ dpc' = "exit0"
    BY <1>6 DEF DealerReturn, NextHost
  <2>2. \A h \in Hosts : \A t \in seen[h] : t.ep = epoch => t.pt < di + 1
    BY <1>2, <2>1 DEF SentOnce, Points
  <2> QED BY <1>1, <2>1, <2>2 DEF SentOnce
<1> QED BY <1>3, <1>4, <1>5, <1>6 DEF DealerNext, DealerRun

LEMMA SentOnceStore ==
  ASSUME ShareInv, SentOnce, NEW h \in Hosts, StoreBegin(h), UNCHANGED dealerVars
  PROVE  SentOnce'
<1> USE SizeAssumption, PostTyped DEF dealerVars, ShareInv, TInv, TypeOK, DealerTypeOK
<1>1. PICK m \in posts :
        /\ m.to = h /\ posts' = posts \ {m}
        /\ seen' = [seen EXCEPT ![h] = @ \cup {m.share}]
  BY DEF StoreBegin
<1>2. m \in StorePost /\ GoodPost(m) /\ Unanswered(m)
  BY DEF DealInv, GoodPosts, PendingUnanswered
<1>3. /\ seen'[h] = seen[h] \cup {m.share}
      /\ \A g \in Hosts : g # h => seen'[g] = seen[g]
  BY <1>1 DEF ShareholderTypeOK
<1>4. \A n \in posts' : n.share \notin seen'[n.to]
  <2> SUFFICES ASSUME NEW n \in posts' PROVE n.share \notin seen'[n.to]
    OBVIOUS
  <2>1. n \in posts /\ n # m /\ n \in StorePost /\ n.to \in Hosts
    BY <1>1
  <2>2. GoodPost(n) /\ n.share \notin seen[n.to]
    BY <2>1 DEF DealInv, GoodPosts, SentOnce
  <2>3. n.to = h => n.share # m.share
    BY <1>1, <1>2, <2>1, <2>2 DEF GoodPost, StorePost
  <2> QED BY <1>3, <2>1, <2>2, <2>3
<1>5. ASSUME NEW g \in Hosts, NEW s \in seen'[g]
      PROVE  /\ s.ep <= epoch
             /\ s.ep = epoch =>
                  /\ dpc \notin {"openEk", "writeEk", "openZ", "writeZ", "probe"}
                  /\ dpc = "post" => s.pt < di
                  /\ dpc = "await" => s.pt <= di
  <2>1. CASE s \in seen[g]
    BY <2>1 DEF SentOnce
  <2>2. CASE s = m.share
    BY <1>2, <2>2 DEF GoodPost, Unanswered
  <2> QED BY <1>3, <1>5, <2>1, <2>2
<1> QED BY <1>4, <1>5 DEF SentOnce

(* What ShareInv, TrialInv and SentOnce say together is an invariant.      *)
ServiceInv == ShareInv /\ TrialInv /\ SentOnce

LEMMA SentOnceStep ==
  ASSUME ShareInv, SentOnce, [Next]_vars
  PROVE  SentOnce'
<1>1. CASE DealerStep
  BY <1>1, SentOnceDealer DEF DealerStep
<1>2. ASSUME NEW h \in Hosts, UNCHANGED dealerVars,
             StoreEnd(h) \/ PartialDecrypt(h) \/ Crash(h) \/ Listen(h)
      PROVE  SentOnce'
  <2>1. posts' \subseteq posts /\ seen' = seen /\ UNCHANGED <<epoch, dpc, di>>
    BY <1>2 DEF StoreEnd, PartialDecrypt, Crash, Listen, dealerVars, shareholderVars, storeVars
  <2> QED BY <2>1 DEF SentOnce
<1>3. CASE ShareholderStep
  BY <1>2, <1>3, SentOnceStore DEF ShareholderStep, ShareholderNext
<1>4. CASE CoordStep \/ BesideStep \/ UNCHANGED vars
  <2>1. UNCHANGED <<posts, seen, epoch, dpc, di>>
    BY <1>4, OthersKeepCore
    DEF CoordStep, GatedStart, CoordStart, CoordRun, CoordReadEk, CoordReadZ, CoordProbe,
        CoordOpen, CoordEncaps, CoordAsk, CoordTake, CoordSkip, CoordFinish, CoordClose,
        coreVars, dealerVars, shareholderVars, wireVars, storeVars
  <2> QED BY <2>1 DEF SentOnce
<1> QED BY <1>1, <1>3, <1>4 DEF Next

LEMMA ServiceInvariant == Spec => []ServiceInv
<1>1. Init => SentOnce
  BY DEF Init, WireInit, ShareholderInit, SentOnce
<1>2. ShareInv /\ SentOnce /\ [Next]_vars => SentOnce'
  BY SentOnceStep
<1> QED BY <1>1, <1>2, TrialInvariant, PTL DEF Spec, ServiceInv

-----------------------------------------------------------------------------
(* The refinement mapping, by the steps of the programs.                   *)

(* Only the coordinator changes the trial, only the others the stores.     *)
storeView == <<epoch, placedAt, heldBy>>
trialView == <<cek, askedHosts, gotAnswers, rowResults>>

LEMMA TrialViewKept == UNCHANGED coordVars => UNCHANGED trialView
BY DEF coordVars, trialView, askedHosts, gotAnswers, rowResults, InTrial

LEMMA StoreViewKept ==
  UNCHANGED <<epoch, seen, storing, g_ready, g_share>> => UNCHANGED storeView
BY DEF storeView, placedAt, heldBy, HeldKeypair

LEMMA AnswerKept == UNCHANGED reply => UNCHANGED lastAnswer
BY DEF lastAnswer

LEMMA NothingHappens ==
  UNCHANGED <<storeView, trialView, lastAnswer>> => UNCHANGED Service!serviceVars
BY DEF storeView, trialView, Service!serviceVars

LEMMA ServiceStart == Init => Service!Init
<1> SUFFICES ASSUME Init PROVE Service!Init
  OBVIOUS
<1>1. /\ epoch = 0 /\ cek = 0 /\ cpc = "off" /\ reply = {} /\ rows = << >>
      /\ seen = [h \in Hosts |-> {}] /\ storing = [h \in Hosts |-> {}]
      /\ g_ready = [h \in Hosts |-> FALSE]
  BY DEF Init, WireInit, DealerInit, ShareholderInit, CoordInit
<1>2. placedAt = [h \in Hosts |-> {}]
  BY <1>1 DEF placedAt
<1>3. heldBy = [h \in Hosts |-> 0]
  BY <1>1 DEF heldBy, HeldKeypair
<1>4. askedHosts = 0 /\ gotAnswers = << >> /\ lastAnswer = {}
  BY <1>1 DEF askedHosts, gotAnswers, lastAnswer, InTrial
<1>5. rowResults = << >>
  BY <1>1 DEF rowResults
<1> QED BY <1>1, <1>2, <1>3, <1>4, <1>5 DEF Service!Init

(* A dealer step deals a keypair, or the service does not notice it.       *)
LEMMA ServiceDealer ==
  ASSUME ServiceInv, DealerStep
  PROVE  Service!Next \/ UNCHANGED Service!serviceVars
<1> USE DEF DealerStep, shareholderVars
<1>1. UNCHANGED reply
  BY DEF DealerNext, DealerRun, DealerStart, DealerRefuse, DealerOpen, DealerWrite,
         DealerProbe, DealerPost, DealerReturn, DealerKill, wireVars, askVars
<1>2. UNCHANGED <<placedAt, heldBy, lastAnswer, trialView>>
  BY <1>1, TrialViewKept, AnswerKept DEF placedAt, heldBy, HeldKeypair
<1>3. CASE DealerStart
  <2>1. epoch + 1 \in Epochs /\ epoch' = epoch + 1
    BY <1>3, SizeAssumption
    DEF DealerStart, Epochs, ServiceInv, ShareInv, TInv, TypeOK, DealerTypeOK
  <2>2. Service!Deal
    BY <1>2, <2>1 DEF Service!Deal, trialView
  <2> QED BY <2>2 DEF Service!Next
<1>4. CASE ~DealerStart
  <2>1. epoch' = epoch
    BY <1>4 DEF DealerNext, DealerRun, DealerRefuse, DealerOpen, DealerWrite,
                DealerProbe, DealerPost, DealerReturn, DealerKill
  <2> QED BY <1>2, <2>1, NothingHappens DEF storeView
<1> QED BY <1>3, <1>4

(* The share of a request reaches its host when the handler has the body.  *)
LEMMA ServicePlace ==
  ASSUME ServiceInv, NEW h \in Hosts, StoreBegin(h), UNCHANGED <<dealerVars, coordVars>>
  PROVE  Service!Next
<1> USE DEF ServiceInv, ShareInv, TInv, TypeOK, ShareholderTypeOK
<1>1. PICK m \in posts :
        /\ m.to = h /\ storing' = [storing EXCEPT ![h] = {m}]
        /\ seen' = [seen EXCEPT ![h] = @ \cup {m.share}]
  BY DEF StoreBegin
<1>2. m \in StorePost /\ GoodPost(m) /\ m.share \notin seen[h]
  BY <1>1, PostTyped DEF DealInv, GoodPosts, SentOnce
<1>3. m.share \in [ep : Epochs, pt : Points] /\ m.x \in Points
  BY <1>2 DEF StorePost
<1> DEFINE e == m.share.ep
<1>4. e \in Epochs /\ e \in 1..epoch
  BY <1>2, <1>3, SizeAssumption DEF GoodPost, Epochs, DealerTypeOK
<1>5. e \notin {s.ep : s \in seen[h]}
  <2> SUFFICES ASSUME NEW s \in seen[h], s.ep = e PROVE FALSE
    OBVIOUS
  <2>1. s \in [ep : Epochs, pt : Points]
    OBVIOUS
  <2>2. s.pt \in 1..Len(dealerHosts) /\ dealerHosts[s.pt] = h
    BY <2>1, HostLists, SizeAssumption DEF SeenOwn, Points
  <2>3. m.share.pt \in 1..Len(dealerHosts) /\ dealerHosts[m.share.pt] = h
    BY <1>1, <1>2, <1>3, HostLists, SizeAssumption DEF GoodPost, Points
  <2>4. s.pt = m.share.pt
    BY <2>2, <2>3, DeploymentAssumption DEF HostsDistinct, Distinct
  <2> QED BY <1>2, <1>3, <2>1, <2>4
<1>6. placedAt' = [placedAt EXCEPT ![h] = @ \cup {e}]
  <2>1. {s.ep : s \in seen[h] \cup {m.share}} = {s.ep : s \in seen[h]} \cup {e}
    OBVIOUS
  <2> QED BY <1>1, <2>1 DEF placedAt
<1>7. heldBy' = [heldBy EXCEPT ![h] = e]
  <2>1. storing'[h] = {m} /\ (CHOOSE n \in {m} : TRUE) = m
    BY <1>1
  <2>2. HeldKeypair(h)' = e
    BY <2>1 DEF HeldKeypair
  <2>3. \A g \in Hosts : g # h => HeldKeypair(g)' = HeldKeypair(g)
    BY <1>1 DEF HeldKeypair, StoreBegin
  <2> QED BY <2>2, <2>3 DEF heldBy
<1>8. UNCHANGED <<epoch, trialView, lastAnswer>>
  BY TrialViewKept, AnswerKept DEF StoreBegin, dealerVars, askVars
<1>9. Service!Place(h, e)
  <2>1. placedAt[h] = {s.ep : s \in seen[h]}
    BY DEF placedAt
  <2> HIDE DEF e
  <2> QED BY <1>4, <1>5, <1>6, <1>7, <1>8, <2>1 DEF Service!Place, trialView
<1> QED BY <1>4, <1>9 DEF Service!Next

(* The rest of the store changes nothing the service has: the buffer was   *)
(* already out of reach.                                                   *)
LEMMA ServiceStored ==
  ASSUME ServiceInv, NEW h \in Hosts, StoreEnd(h), UNCHANGED <<dealerVars, coordVars>>
  PROVE  UNCHANGED Service!serviceVars
<1> USE DEF ServiceInv, ShareInv, TInv, TypeOK, ShareholderTypeOK
<1>1. PICK m \in storing[h] : g_share' = [g_share EXCEPT ![h] = m.share]
  BY DEF StoreEnd
<1>2. storing[h] = {m} /\ (CHOOSE n \in {m} : TRUE) = m
  BY DEF DealInv, GoodPosts
<1>3. HeldKeypair(h)' = HeldKeypair(h)
  <2>1. HeldKeypair(h) = m.share.ep
    BY <1>2 DEF HeldKeypair
  <2>2. storing'[h] = {} /\ g_ready'[h] /\ g_share'[h] = m.share
    BY <1>1 DEF StoreEnd
  <2> QED BY <2>1, <2>2 DEF HeldKeypair
<1>4. \A g \in Hosts : g # h => HeldKeypair(g)' = HeldKeypair(g)
  BY <1>1 DEF HeldKeypair, StoreEnd
<1>5. heldBy' = heldBy /\ placedAt' = placedAt
  BY <1>3, <1>4 DEF heldBy, placedAt, StoreEnd
<1>6. UNCHANGED <<epoch, trialView, lastAnswer>>
  BY TrialViewKept, AnswerKept DEF StoreEnd, dealerVars, askVars
<1> QED BY <1>5, <1>6, NothingHappens DEF storeView

(* A host that holds a share answers with it; a 409 is no answer.          *)
LEMMA ServiceAnswer ==
  ASSUME ServiceInv, NEW h \in Hosts, PartialDecrypt(h), UNCHANGED <<dealerVars, coordVars>>
  PROVE  Service!Next \/ UNCHANGED Service!serviceVars
<1> USE DEF ServiceInv, ShareInv, TInv, TypeOK, CoordTypeOK
<1>1. UNCHANGED storeView /\ UNCHANGED trialView
  BY TrialViewKept, StoreViewKept DEF PartialDecrypt, dealerVars, shareholderVars
<1>2. lastAnswer = {}
  BY DEF PartialDecrypt, lastAnswer
<1>3. CASE ~g_ready[h]
  <2>1. lastAnswer' = {}
    BY <1>3 DEF PartialDecrypt, lastAnswer
  <2> QED BY <1>1, <1>2, <2>1, NothingHappens
<1>4. CASE g_ready[h]
  <2>1. cpc = "wait" /\ h = coordHosts[ci] /\ ci <= Len(coordHosts) /\ Len(got) < K
    BY DEF PartialDecrypt, TrialInv, RepliesBound, CoordBounds
  <2>2. heldBy[h] = g_share[h].ep /\ g_share[h].ep # 0
    BY <1>4 DEF PartialDecrypt, Idle, heldBy, HeldKeypair, SharesBound, GoodShare
  <2>3. lastAnswer' = {g_share[h].ep}
    <3> DEFINE r == [code |-> 200, x |-> g_x[h], share |-> g_share[h]]
    <3>1. reply' = {r} /\ r.code = 200 /\ r.share.ep = g_share[h].ep
      BY <1>4 DEF PartialDecrypt
    <3> HIDE DEF r
    <3> QED BY <3>1 DEF lastAnswer
  <2>4. askedHosts + 1 = ci /\ Len(gotAnswers) = Len(got)
    <3>1. InTrial /\ ci \in Int /\ Len(got) \in Nat
      BY <2>1, SizeAssumption DEF InTrial
    <3>2. askedHosts = ci - 1
      BY <3>1 DEF askedHosts
    <3>3. gotAnswers = [i \in 1..Len(got) |-> got[i].share.ep]
      BY <3>1 DEF gotAnswers
    <3> QED BY <3>1, <3>2, <3>3
  <2>5. Service!Collecting
    <3>1. askedHosts = ci - 1 /\ ci \in Int /\ Len(coordHosts) \in Nat
      BY <2>1, HostLists, SizeAssumption DEF askedHosts, InTrial
    <3> QED BY <2>1, <2>4, <3>1 DEF Service!Collecting
  <2>6. Service!Answer
    BY <1>1, <1>2, <2>1, <2>2, <2>3, <2>4, <2>5
    DEF Service!Answer, storeView, trialView
  <2> QED BY <2>6 DEF Service!Next
<1> QED BY <1>3, <1>4

LEMMA ServiceLose ==
  ASSUME ServiceInv, NEW h \in Hosts, Crash(h), UNCHANGED <<dealerVars, coordVars>>
  PROVE  Service!Next
<1> USE DEF ServiceInv, ShareInv, TInv, TypeOK, ShareholderTypeOK
<1>1. heldBy' = [heldBy EXCEPT ![h] = 0]
  <2>1. HeldKeypair(h)' = 0
    BY DEF HeldKeypair, Crash
  <2>2. \A g \in Hosts : g # h => HeldKeypair(g)' = HeldKeypair(g)
    BY DEF HeldKeypair, Crash
  <2> QED BY <2>1, <2>2 DEF heldBy
<1>2. UNCHANGED <<epoch, placedAt, trialView, lastAnswer>>
  BY TrialViewKept, AnswerKept DEF Crash, dealerVars, askVars, placedAt
<1>3. Service!Lose(h)
  BY <1>1, <1>2 DEF Service!Lose, trialView
<1> QED BY <1>3 DEF Service!Next

LEMMA ServiceShareholder ==
  ASSUME ServiceInv, ShareholderStep
  PROVE  Service!Next \/ UNCHANGED Service!serviceVars
<1>1. ASSUME NEW h \in Hosts, Listen(h)
      PROVE  UNCHANGED Service!serviceVars
  BY <1>1, TrialViewKept, StoreViewKept, AnswerKept, NothingHappens
  DEF ShareholderStep, Listen, dealerVars, shareholderVars, askVars
<1> QED
  BY <1>1, ServicePlace, ServiceStored, ServiceAnswer, ServiceLose
  DEF ShareholderStep, ShareholderNext

(* Outside a trial the service is between trials.                          *)
LEMMA BetweenTrials ==
  ~InTrial => askedHosts = 0 /\ gotAnswers = << >>
BY DEF askedHosts, gotAnswers

LEMMA InATrial ==
  ASSUME ServiceInv, InTrial
  PROVE  /\ askedHosts = ci - 1 /\ ci \in Nat /\ Len(coordHosts) \in Nat
         /\ gotAnswers = [i \in 1..Len(got) |-> got[i].share.ep]
         /\ Len(gotAnswers) = Len(got) /\ Len(got) \in Nat
         /\ got \in Seq(Partial)
         /\ (ci <= Len(coordHosts) /\ Len(got) < K) <=> Service!Collecting
<1> USE DEF ServiceInv, ShareInv, TInv, TypeOK, CoordTypeOK
<1>1. askedHosts = ci - 1 /\ ci \in Nat /\ Len(coordHosts) \in Nat
  BY SizeAssumption, HostLists DEF askedHosts
<1>2. gotAnswers = [i \in 1..Len(got) |-> got[i].share.ep]
  BY DEF gotAnswers
<1>3. got \in Seq(Partial) /\ Len(got) \in Nat /\ Len(gotAnswers) = Len(got)
  BY <1>2
<1> QED BY <1>1, <1>2, <1>3 DEF Service!Collecting

(* Starting, loading the key files, probing and opening the results.       *)
LEMMA ServicePrepare ==
  ASSUME ServiceInv, UNCHANGED <<dealerVars, shareholderVars>>,
         \/ GatedStart \/ CoordReadEk \/ CoordReadZ \/ CoordProbe \/ CoordOpen
         \/ CoordEncaps \/ CoordClose
  PROVE  Service!Next \/ UNCHANGED Service!serviceVars
<1> USE DEF ServiceInv, ShareInv, TInv, TypeOK, CoordTypeOK, WireTypeOK, DealerTypeOK
<1>1. cpc # "wait" /\ ~InTrial /\ UNCHANGED <<reply, storeView>>
  <2>1. cpc # "wait" /\ ~InTrial /\ UNCHANGED reply
    BY DEF GatedStart, CoordStart, CoordReadEk, CoordReadZ, CoordProbe, CoordOpen, CoordEncaps,
       CoordClose, InTrial, CoordStopped, wireVars, askVars
  <2> QED BY <2>1, StoreViewKept DEF dealerVars, shareholderVars
<1>2. lastAnswer = {} /\ lastAnswer' = {}
  BY <1>1, AnswerKept DEF TrialInv, RepliesBound, lastAnswer
<1>3. askedHosts = 0 /\ gotAnswers = << >>
  BY <1>1, BetweenTrials
<1>4. askedHosts' = 0 /\ gotAnswers' = << >>
  <2>1. CASE ~InTrial'
    BY <2>1 DEF askedHosts, gotAnswers
  <2>2. CASE InTrial'
    <3>1. ci' = 1 /\ got' = << >>
      BY <1>1, <2>2 DEF GatedStart, CoordStart, CoordReadEk, CoordReadZ, CoordProbe, CoordOpen,
         CoordEncaps, CoordClose, InTrial
    <3> QED BY <2>2, <3>1 DEF askedHosts, gotAnswers
  <2> QED BY <2>1, <2>2
<1>5. CASE CoordOpen
  <2>1. cek' = cek /\ (rows' = rows \/ rows' = << >>)
    BY <1>5 DEF CoordOpen
  <2>2. CASE rows' = << >>
    <3>1. rowResults' = << >>
      BY <2>2 DEF rowResults
    <3>2. Service!Restart
      BY <1>1, <1>2, <1>3, <1>4, <2>1, <3>1 DEF Service!Restart, storeView
    <3> QED BY <3>2 DEF Service!Next
  <2>3. CASE rows' = rows
    BY <1>1, <1>2, <1>3, <1>4, <2>1, <2>3, NothingHappens DEF trialView, rowResults
  <2> QED BY <2>1, <2>2, <2>3
<1>6. CASE ~CoordOpen
  <2>1. rowResults' = rowResults
    BY <1>6 DEF GatedStart, CoordStart, CoordReadEk, CoordReadZ, CoordProbe, CoordEncaps,
       CoordClose, rowResults
  <2>2. cek' \in {cek, 0, ekFile}
    BY <1>6 DEF GatedStart, CoordStart, CoordReadEk, CoordReadZ, CoordProbe, CoordEncaps,
       CoordClose
  <2>3. cek' \in 0..epoch /\ cek' \in Epochs \cup {0}
    BY <2>2, SizeAssumption DEF TrialInv, Epochs
  <2>4. Service!Choose(cek')
    BY <1>1, <1>2, <1>3, <1>4, <2>1, <2>3 DEF Service!Choose, storeView
  <2> QED BY <2>3, <2>4 DEF Service!Next
<1> QED BY <1>5, <1>6

(* A host's turn: asked, then counted or passed over.                      *)
LEMMA ServiceTurn ==
  ASSUME ServiceInv, UNCHANGED <<dealerVars, shareholderVars>>,
         CoordAsk \/ CoordTake \/ CoordSkip
  PROVE  Service!Next \/ UNCHANGED Service!serviceVars
<1>1. UNCHANGED <<storeView, cek, rowResults>> /\ InTrial /\ InTrial'
  BY StoreViewKept DEF CoordAsk, CoordTake, CoordSkip, dealerVars, shareholderVars,
     rowResults, InTrial
<1>2. askedHosts' = ci' - 1 /\ gotAnswers' = [i \in 1..Len(got') |-> got'[i].share.ep]
  BY <1>1 DEF askedHosts, gotAnswers
<1>3. CASE CoordAsk
  <2>1. lastAnswer = {} /\ lastAnswer' = {}
    BY <1>3 DEF CoordAsk, lastAnswer, ServiceInv, TrialInv, RepliesBound
  <2>2. askedHosts' = askedHosts /\ gotAnswers' = gotAnswers
    BY <1>1, <1>2, <1>3, InATrial DEF CoordAsk
  <2> QED BY <1>1, <2>1, <2>2, NothingHappens DEF trialView
<1>4. CASE CoordTake \/ CoordSkip
  <2>1. ci <= Len(coordHosts) /\ Len(got) < K /\ Service!Collecting
    BY <1>1, <1>4, InATrial DEF CoordTake, CoordSkip, ServiceInv, ShareInv, TInv, CoordBounds
  <2>2. askedHosts' = askedHosts + 1
    BY <1>1, <1>2, <1>4, InATrial DEF CoordTake, CoordSkip
  <2>3. lastAnswer' = {}
    BY <1>4 DEF CoordTake, CoordSkip, lastAnswer
  <2>4. CASE CoordSkip
    <3>1. gotAnswers' = gotAnswers
      BY <1>1, <1>2, <2>4, InATrial DEF CoordSkip
    <3>2. Service!Pass
      BY <1>1, <2>1, <2>2, <2>3, <3>1 DEF Service!Pass, storeView
    <3> QED BY <3>2 DEF Service!Next
  <2>5. CASE CoordTake
    <3>1. PICK r \in reply :
            r.code = 200 /\ got' = Append(got, [x |-> r.x, share |-> r.share, at |-> ci])
      BY <2>5 DEF CoordTake
    <3> DEFINE p == [x |-> r.x, share |-> r.share, at |-> ci]
    <3>2. p.share.ep = r.share.ep /\ r.share.ep \in lastAnswer
      BY <3>1 DEF lastAnswer
    <3> HIDE DEF p
    <3>3. /\ Len(got') = Len(got) + 1 /\ got'[Len(got) + 1] = p
          /\ \A i \in 1..Len(got) : got'[i] = got[i]
      BY <1>1, <3>1, InATrial DEF p
    <3>4. gotAnswers' = Append(gotAnswers, r.share.ep)
      <4>1. Len(gotAnswers) = Len(got) /\ Len(got) \in Nat
            /\ gotAnswers = [i \in 1..Len(got) |-> got[i].share.ep]
        BY <1>1, InATrial
      <4>2. gotAnswers \in Seq(Nat) /\ r.share.ep \in Nat
        <5>1. \A i \in 1..Len(got) : got[i] \in Partial
          BY <1>1, InATrial
        <5>2. \A i \in 1..Len(got) : got[i].share.ep \in Nat
          BY <5>1, SizeAssumption DEF Partial, Share
        <5>3. r.share.ep \in Nat
          BY <3>1, SizeAssumption DEF ServiceInv, ShareInv, TInv, TypeOK, WireTypeOK, Reply, Share
        <5> QED BY <4>1, <5>2, <5>3
      <4>3. \A i \in 1..(Len(got) + 1) :
              got'[i].share.ep = IF i = Len(got) + 1 THEN r.share.ep ELSE gotAnswers[i]
        BY <3>2, <3>3, <4>1
      <4>a. \A i \in 1..(Len(got) + 1) :
              (IF i = Len(got) + 1 THEN r.share.ep ELSE gotAnswers[i]) \in Nat
        <5>1. \A i \in 1..Len(got) : gotAnswers[i] \in Nat
          BY <4>1, <4>2, ElementOfSeq
        <5> QED BY <4>1, <4>2, <5>1
      <4>b. gotAnswers' = [i \in 1..(Len(got) + 1) |->
                             IF i = Len(got) + 1 THEN r.share.ep ELSE gotAnswers[i]]
        BY <1>2, <3>3, <4>3, Zenon
      <4>4. gotAnswers' \in Seq(Nat) /\ Len(gotAnswers') = Len(got) + 1
        BY <4>1, <4>a, <4>b
      <4>c. /\ Append(gotAnswers, r.share.ep)[Len(got) + 1] = r.share.ep
            /\ \A i \in 1..Len(got) : Append(gotAnswers, r.share.ep)[i] = gotAnswers[i]
        BY <4>1, <4>2, AppendProperties
      <4>5. \A i \in 1..(Len(got) + 1) :
              gotAnswers'[i] = Append(gotAnswers, r.share.ep)[i]
        BY <4>1, <4>b, <4>c
      <4>6. /\ Append(gotAnswers, r.share.ep) \in Seq(Nat)
            /\ Len(Append(gotAnswers, r.share.ep)) = Len(got) + 1
        BY <4>1, <4>2
      <4> QED BY <4>4, <4>5, <4>6, SeqEqual
    <3>5. Service!Count
      BY <1>1, <2>1, <2>2, <2>3, <3>2, <3>4 DEF Service!Count, storeView
    <3> QED BY <3>5 DEF Service!Next
  <2> QED BY <1>4, <2>4, <2>5
<1> QED BY <1>3, <1>4

(* A trial recovers the key exactly when its k answers are of the keypair  *)
(* of its ek: with distinct hosts the combination can fail in no other way.*)
LEMMA FinishDecides ==
  ASSUME ServiceInv, cpc = "collect",
         NEW ss_dec, ss_dec = IF Len(got) = K THEN ThresholdDecaps(got, cek, cz) ELSE ZeroKey
  PROVE  /\ Service!Success <=> ss_dec = [kind |-> "shared", of |-> cek]
         /\ Service!Success <=> Len(got) = K /\ ss_dec = [kind |-> "shared", of |-> cek]
<1> USE DEF ServiceInv
<1>1. InTrial
  BY DEF InTrial
<1>2. /\ gotAnswers = [i \in 1..Len(got) |-> got[i].share.ep] /\ Len(gotAnswers) = Len(got)
      /\ got \in Seq(Partial) /\ Collected(epoch, got)
  BY <1>1, InATrial DEF TrialInv
<1>3. CASE Len(got) = K
  <2>1. \A i, j \in 1..Len(got) : i # j => got[i].x # got[j].x
    BY <1>2, CollectedDistinct, DeploymentAssumption DEF HostsDistinct
  <2>2. \A i \in 1..Len(got) : got[i].x = got[i].share.pt
    BY <1>2 DEF Collected, GoodPartial, GoodShare
  <2>3. Recovers(got, cek) <=> \A i \in 1..Len(got) : got[i].share.ep = cek
    BY <2>1, <2>2, DeploymentAssumption DEF Recovers
  <2>4. Service!Success <=> \A i \in 1..Len(got) : got[i].share.ep = cek
    BY <1>2, <1>3 DEF Service!Success
  <2>5. ss_dec = [kind |-> "shared", of |-> cek] <=> Recovers(got, cek)
    <3>1. [kind |-> "rejection", of |-> cz] # [kind |-> "shared", of |-> cek]
      <4>1. [kind |-> "rejection", of |-> cz].kind = "rejection"
        OBVIOUS
      <4>2. [kind |-> "shared", of |-> cek].kind = "shared"
        OBVIOUS
      <4> QED BY <4>1, <4>2
    <3> QED BY <1>3, <3>1 DEF ThresholdDecaps
  <2> QED BY <1>3, <2>3, <2>4, <2>5
<1>4. CASE Len(got) # K
  <2>1. ~Service!Success
    BY <1>2, <1>4 DEF Service!Success
  <2>2. ZeroKey # [kind |-> "shared", of |-> cek]
    <3>1. ZeroKey.kind = "zero"
      BY DEF ZeroKey
    <3>2. [kind |-> "shared", of |-> cek].kind = "shared"
      OBVIOUS
    <3> QED BY <3>1, <3>2
  <2> QED BY <1>4, <2>1, <2>2
<1> QED BY <1>3, <1>4

LEMMA ServiceFinish ==
  ASSUME ServiceInv, UNCHANGED <<dealerVars, shareholderVars>>, CoordFinish
  PROVE  Service!Next
<1> USE DEF ServiceInv, ShareInv, TInv, TypeOK, CoordTypeOK
<1> DEFINE ss_enc == [kind |-> "shared", of |-> cek]
           ss_dec == IF Len(got) = K THEN ThresholdDecaps(got, cek, cz) ELSE ZeroKey
           row == [kem |-> Len(got) = K /\ ss_dec = ss_enc, aes |-> ss_dec = ss_enc,
                   ek |-> cek, used |-> got, failed |-> failed]
           result == [kem |-> row.kem, aes |-> row.aes]
<1>1. /\ cpc = "collect" /\ cpc' = "trial" /\ ~Collecting
      /\ rows' = Append(rows, row) /\ UNCHANGED <<cek, reply>>
  BY DEF CoordFinish, wireVars, askVars
<1>2. row.kem = Service!Success /\ row.aes = Service!Success
  <2>1. /\ Service!Success <=> ss_dec = ss_enc
        /\ Service!Success <=> Len(got) = K /\ ss_dec = ss_enc
    BY <1>1, FinishDecides
  <2>2. Service!Success \in BOOLEAN
    BY DEF Service!Success
  <2> HIDE DEF ss_dec, ss_enc
  <2>3. row.kem = (Len(got) = K /\ ss_dec = ss_enc) /\ row.aes = (ss_dec = ss_enc)
    OBVIOUS
  <2> HIDE DEF row
  <2> QED BY <2>1, <2>2, <2>3
<1>3. InTrial /\ ~Service!Collecting
  <2>1. InTrial
    BY <1>1 DEF InTrial
  <2> QED BY <1>1, <2>1, InATrial DEF Collecting
<1>4. askedHosts' = 0 /\ gotAnswers' = << >>
  BY <1>1 DEF askedHosts, gotAnswers, InTrial
<1>5. UNCHANGED <<storeView, lastAnswer>>
  BY <1>1, StoreViewKept, AnswerKept DEF dealerVars, shareholderVars
<1>6. cek # 0
  BY <1>1 DEF CoordBounds
<1> HIDE DEF row
<1>7. rowResults' = Append(rowResults, [kem |-> Service!Success, aes |-> Service!Success])
  <2> DEFINE R == [kem : BOOLEAN, aes : BOOLEAN]
             new == [kem |-> Service!Success, aes |-> Service!Success]
  <2>1. \A i \in 1..Len(rows) : [kem |-> rows[i].kem, aes |-> rows[i].aes] \in R
    <3>1. \A i \in 1..Len(rows) : rows[i] \in Row
      OBVIOUS
    <3> QED BY <3>1 DEF Row
  <2>2. new \in R /\ new = result
    BY <1>2 DEF Service!Success
  <2>3. Len(rows) \in Nat /\ rows \in Seq(Row)
    OBVIOUS
  <2>4. row \in Row
    <3>1. cek \in Epochs /\ failed \in 0..NParties /\ got \in Seq(Partial)
      BY <1>6, SizeAssumption DEF Epochs
    <3> HIDE DEF ss_dec, ss_enc
    <3> QED BY <3>1, Zenon DEF Row, row
  <2>5. /\ Len(rows') = Len(rows) + 1 /\ rows'[Len(rows) + 1] = row
        /\ \A i \in 1..Len(rows) : rows'[i] = rows[i]
    BY <1>1, <2>3, <2>4
  <2> HIDE DEF R, new
  <2>6. rowResults \in Seq(R) /\ Len(rowResults) = Len(rows)
        /\ \A i \in 1..Len(rows) : rowResults[i] = [kem |-> rows[i].kem, aes |-> rows[i].aes]
    BY <2>1, <2>3 DEF rowResults
  <2>7. rowResults' = [i \in 1..(Len(rows) + 1) |->
                         [kem |-> rows'[i].kem, aes |-> rows'[i].aes]]
    BY <2>5, Zenon DEF rowResults
  <2>8. /\ Append(rowResults, new) \in Seq(R)
        /\ Len(Append(rowResults, new)) = Len(rows) + 1
        /\ Append(rowResults, new)[Len(rows) + 1] = new
        /\ \A i \in 1..Len(rows) : Append(rowResults, new)[i] = rowResults[i]
    BY <2>2, <2>6, AppendProperties
  <2>9. \A i \in 1..(Len(rows) + 1) :
          [kem |-> rows'[i].kem, aes |-> rows'[i].aes] = Append(rowResults, new)[i]
    BY <2>2, <2>3, <2>5, <2>6, <2>8
  <2>10. \A i \in 1..(Len(rows) + 1) : Append(rowResults, new)[i] \in R
    BY <2>3, <2>8, ElementOfSeq
  <2>11. rowResults' \in Seq(R) /\ Len(rowResults') = Len(rows) + 1
         /\ \A i \in 1..(Len(rows) + 1) : rowResults'[i] = Append(rowResults, new)[i]
    <3>1. rowResults' = [i \in 1..(Len(rows) + 1) |-> Append(rowResults, new)[i]]
      BY <2>7, <2>9, Zenon
    <3>2. rowResults' \in [1..(Len(rows) + 1) -> R]
      BY <2>10, <3>1, Zenon
    <3>3. Len(rows) + 1 \in Nat
      BY <2>3
    <3>4. rowResults' \in Seq(R)
      BY <3>2, <3>3, SeqDef
    <3>5. \A i \in 1..(Len(rows) + 1) : rowResults'[i] = Append(rowResults, new)[i]
      BY <3>1, Zenon
    <3>6. DOMAIN rowResults' = 1..(Len(rows) + 1)
      BY <3>1, Zenon
    <3>7. Len(rowResults') = Len(rows) + 1
      BY <3>3, <3>4, <3>6, LenProperties
    <3> QED BY <3>4, <3>5, <3>7
  <2> QED BY <2>8, <2>11, SeqEqual DEF new
<1>8. Service!Finish
  BY <1>1, <1>3, <1>4, <1>5, <1>6, <1>7 DEF Service!Finish, storeView
<1> QED BY <1>8 DEF Service!Next

(* Every behaviour of the deployment is one of the service: stores, losses *)
(* and answers happen as if in one step each, a share reaches its host at  *)
(* most once, and a trial succeeds exactly when k different hosts answered *)
(* with shares of the keypair it encapsulated to.                          *)
THEOREM DeploymentImplementsService == Spec => ImplementsService
<1>1. Init => Service!Init
  BY ServiceStart
<1>2. ServiceInv /\ [Next]_vars => [Service!Next]_Service!serviceVars
  <2> SUFFICES ASSUME ServiceInv, [Next]_vars
               PROVE  Service!Next \/ UNCHANGED Service!serviceVars
    OBVIOUS
  <2>1. CASE CoordStep
    BY <2>1, ServicePrepare, ServiceTurn, ServiceFinish DEF CoordStep, CoordRun
  <2>2. CASE BesideStep \/ UNCHANGED vars
    BY <2>2, OthersKeepCore, StoreViewKept, TrialViewKept, AnswerKept, NothingHappens
    DEF coreVars, dealerVars, shareholderVars, wireVars, askVars
  <2> QED BY <2>1, <2>2, ServiceDealer, ServiceShareholder DEF Next
<1> QED BY <1>1, <1>2, ServiceInvariant, PTL DEF Spec, ImplementsService, Service!Spec
=============================================================================
