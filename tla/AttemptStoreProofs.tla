------------------------- MODULE AttemptStoreProofs -------------------------
(* Theorems about AttemptStore, for every set of jobs, top-ups and pairs   *)
(* and every bound.                                                        *)
EXTENDS AttemptStore, TLAPS, FiniteSetTheorems

\* The columns of an attempt.
LEMMA AttemptColumns ==
    ASSUME NEW a \in Attempts
    PROVE  /\ a.pair \in Pairs /\ a.nonce \in Nonces /\ a.owner \in Owners
           /\ a.purpose \in Purposes
           /\ a.purpose = "job" => a.owner \in Jobs
BY DEF Attempts, Attempt

LEMMA NonceIsNat ==
    ASSUME NEW n \in Nonces
    PROVE  /\ n \in Int /\ n \in Nat /\ 0 <= n /\ n <= MaxNonce
           /\ n - 1 \in Nonces \cup {-1}
BY StoreConstants DEF Nonces

\* An event appended to a job's outbox is a row, and the counter moves on.
LEMMA AnnounceType ==
    ASSUME TypeOK, NEW j \in Jobs, NEW e \in Events, Announce(j, e)
    PROVE  webhookSeq' \in [Jobs -> Nat] /\ outbox' \in [Jobs -> Seq(Row)]
<1>1. webhookSeq[j] \in Nat /\ webhookSeq[j] + 1 \in Nat
  BY DEF TypeOK
<1>2. Delivery(j, e, webhookSeq[j] + 1) \in Row
  BY <1>1 DEF Delivery, Row
<1>3. outbox[j] \in Seq(Row)
  BY DEF TypeOK
<1>4. Append(outbox[j], Delivery(j, e, webhookSeq[j] + 1)) \in Seq(Row)
  BY <1>2, <1>3
<1> QED
  BY <1>1, <1>4 DEF TypeOK, Announce

LEMMA FailNowType ==
    ASSUME TypeOK, NEW j \in Jobs, FailNow(j)
    PROVE  /\ jobStatus' \in [Jobs -> JobStatus]
           /\ webhookSeq' \in [Jobs -> Nat] /\ outbox' \in [Jobs -> Seq(Row)]
           /\ rollup' \in [{"mined", "failed"} -> Nat]
<1>1. Announce(j, "failed") /\ "failed" \in Events
  BY DEF FailNow, Events
<1>2. webhookSeq' \in [Jobs -> Nat] /\ outbox' \in [Jobs -> Seq(Row)]
  BY <1>1, AnnounceType
<1>3. jobStatus' \in [Jobs -> JobStatus]
  BY DEF FailNow, SetJob, TypeOK, JobStatus
<1>4. rollup' \in [{"mined", "failed"} -> Nat]
  BY DEF FailNow, BumpRollup, TypeOK
<1> QED
  BY <1>2, <1>3, <1>4

LEMMA BindType ==
    ASSUME TypeOK, NEW a \in Attempts, NEW kind \in BindKinds, NEW e, BindAttempt(e, a, kind)
    PROVE  TypeOK'
<1> USE AttemptColumns
<1>1. jobStatus' \in [Jobs -> JobStatus] /\ topupStatus' \in [Topups -> TopupStatus]
  BY DEF TypeOK, BindAttempt, BoundOwner, SetJob, SetTopup, JobStatus, TopupStatus, BindKinds
<1>2. status' \in [Attempts -> AttemptStatus \cup {"absent"}] /\ raw' \in [Attempts -> BOOLEAN]
  BY DEF TypeOK, BindAttempt, AttemptStatus
<1>3. slot' \in [Pairs -> [Nonces -> Owners \cup {NoOwner}]]
  BY DEF TypeOK, BindAttempt
<1>4. hwm' \in [Pairs -> Nonces \cup {-1}]
  BY DEF TypeOK, BindAttempt
<1> QED
  BY <1>1, <1>2, <1>3, <1>4 DEF TypeOK, BindAttempt

\* The parts of a row that a transaction may touch, one lemma per column.
LEMMA GasType ==
    ASSUME TypeOK, NEW a \in Attempts, NEW d \in Int, AddGas(a.pair, a.purpose, d)
    PROVE  gas' \in [Pairs -> [Purposes -> Int]]
BY AttemptColumns DEF TypeOK, AddGas

LEMMA WonType ==
    ASSUME TypeOK, NEW a \in Attempts, NEW s \in AttemptStatus
    PROVE  Won(a, s) \in [Attempts -> AttemptStatus \cup {"absent"}]
BY DEF TypeOK, Won, AttemptStatus

LEMMA ForgottenType ==
    ASSUME TypeOK, NEW a \in Attempts
    PROVE  Forgotten(a) \in [Attempts -> BOOLEAN]
<1> SUFFICES ASSUME NEW b \in Attempts
             PROVE  (raw[b] /\ b # a /\ ~(SameNonce(a, b) /\ status'[b] = "replaced")) \in BOOLEAN
  BY Zenon DEF Forgotten
<1> QED
  BY Zenon

LEMMA CancelConfirmedType ==
    ASSUME TypeOK, NEW j \in Jobs, CancelConfirmed(j)
    PROVE  /\ jobStatus' \in [Jobs -> JobStatus]
           /\ webhookSeq' \in [Jobs -> Nat] /\ outbox' \in [Jobs -> Seq(Row)]
           /\ rollup' \in [{"mined", "failed"} -> Nat]
<1>1. CASE FailNow(j)
  BY <1>1, FailNowType
<1>2. CASE Silent /\ UNCHANGED <<jobStatus, rollup>>
  BY <1>2 DEF TypeOK, Silent
<1> QED
  BY <1>1, <1>2 DEF CancelConfirmed

LEMMA SettleInclusionType ==
    ASSUME TypeOK, NEW a \in Attempts, SettleInclusion(a)
    PROVE  TypeOK'
<1>1. status' \in [Attempts -> AttemptStatus \cup {"absent"}]
  BY WonType DEF SettleInclusion, AttemptStatus
<1>2. gas' \in [Pairs -> [Purposes -> Int]]
  BY GasType DEF SettleInclusion
<1>3. /\ jobStatus' \in [Jobs -> JobStatus] /\ topupStatus' \in [Topups -> TopupStatus]
      /\ webhookSeq' \in [Jobs -> Nat] /\ outbox' \in [Jobs -> Seq(Row)]
  <2>1. CASE /\ a.owner \in Jobs /\ SetJob(a.owner, "included")
             /\ Announce(a.owner, "included") /\ UNCHANGED topupStatus
    BY <2>1, AnnounceType DEF TypeOK, SetJob, JobStatus, Events
  <2>2. CASE Silent /\ UNCHANGED <<jobStatus, topupStatus>>
    BY <2>2 DEF TypeOK, Silent
  <2>3. CASE a.owner \in Topups /\ MoveTopup(a.owner, "sent", "included") /\ Silent /\ UNCHANGED jobStatus
    BY <2>3 DEF TypeOK, Silent, MoveTopup, TopupStatus
  <2> QED
    BY <2>1, <2>2, <2>3 DEF SettleInclusion
<1> QED
  BY <1>1, <1>2, <1>3 DEF TypeOK, SettleInclusion

LEMMA SettleConfirmationType ==
    ASSUME TypeOK, NEW a \in Attempts, SettleConfirmation(a)
    PROVE  TypeOK'
<1>1. status' \in [Attempts -> AttemptStatus \cup {"absent"}]
  BY DEF SettleConfirmation, AttemptStatus, TypeOK
<1>2. raw' \in [Attempts -> BOOLEAN]
  BY ForgottenType DEF SettleConfirmation
<1>3. /\ jobStatus' \in [Jobs -> JobStatus] /\ topupStatus' \in [Topups -> TopupStatus]
      /\ webhookSeq' \in [Jobs -> Nat] /\ outbox' \in [Jobs -> Seq(Row)]
      /\ rollup' \in [{"mined", "failed"} -> Nat]
  <2>1. CASE /\ a.owner \in Jobs /\ SetJob(a.owner, "confirmed")
             /\ Announce(a.owner, "confirmed") /\ BumpRollup("mined") /\ UNCHANGED topupStatus
    <3>1. rollup' \in [{"mined", "failed"} -> Nat]
      BY <2>1 DEF TypeOK, BumpRollup
    <3> QED
      BY <2>1, <3>1, AnnounceType DEF TypeOK, SetJob, JobStatus, Events
  <2>2. CASE Silent /\ UNCHANGED <<jobStatus, rollup>> /\ UNCHANGED topupStatus
    BY <2>2 DEF TypeOK, Silent
  <2>3. CASE a.owner \in Jobs /\ CancelConfirmed(a.owner) /\ UNCHANGED topupStatus
    BY <2>3, CancelConfirmedType DEF TypeOK
  <2>4. CASE /\ a.owner \in Topups /\ MoveTopup(a.owner, "included", "confirmed") /\ Silent
             /\ UNCHANGED <<jobStatus, rollup>>
    BY <2>4 DEF TypeOK, Silent, MoveTopup, TopupStatus
  <2> QED
    BY <2>1, <2>2, <2>3, <2>4 DEF SettleConfirmation
<1> QED
  BY <1>1, <1>2, <1>3 DEF TypeOK, SettleConfirmation

LEMMA SettleFinalType ==
    ASSUME TypeOK, NEW a \in Attempts, SettleFinal(a)
    PROVE  TypeOK'
<1>1. status' \in [Attempts -> AttemptStatus \cup {"absent"}]
  BY WonType DEF SettleFinal, AttemptStatus
<1>2. raw' \in [Attempts -> BOOLEAN]
  BY ForgottenType DEF SettleFinal
<1>3. gas' \in [Pairs -> [Purposes -> Int]]
  BY GasType DEF SettleFinal
<1>4. /\ jobStatus' \in [Jobs -> JobStatus] /\ topupStatus' \in [Topups -> TopupStatus]
      /\ webhookSeq' \in [Jobs -> Nat] /\ outbox' \in [Jobs -> Seq(Row)]
      /\ rollup' \in [{"mined", "failed"} -> Nat]
  <2>1. CASE a.owner \in Jobs /\ a.purpose = "job"
    <3> DEFINE j == a.owner
               in == Delivery(j, "included", webhookSeq[j] + 1)
               fin == Delivery(j, "confirmed", webhookSeq[j] + 2)
    <3>1. j \in Jobs /\ webhookSeq[j] \in Nat /\ outbox[j] \in Seq(Row)
      BY <2>1 DEF TypeOK
    <3>2. in \in Row /\ fin \in Row
      BY <3>1 DEF Delivery, Row, Events
    <3>3. Append(Append(outbox[j], in), fin) \in Seq(Row)
      BY <3>1, <3>2
    <3>4. a.owner \notin Topups /\ a.purpose = "job"
      BY <2>1, StoreConstants
    <3>5. /\ SetJob(j, "confirmed") /\ BumpRollup("mined") /\ UNCHANGED topupStatus
          /\ webhookSeq' = [webhookSeq EXCEPT ![j] = @ + 2]
          /\ outbox' = [outbox EXCEPT ![j] = Append(Append(@, in), fin)]
      BY <3>4 DEF SettleFinal
    <3>6. rollup' \in [{"mined", "failed"} -> Nat]
      BY <3>5 DEF TypeOK, BumpRollup
    <3> QED
      BY <3>1, <3>3, <3>5, <3>6, SMTT(30) DEF TypeOK, SetJob, JobStatus
  <2>2. CASE a.owner \in Jobs /\ CancelConfirmed(a.owner) /\ UNCHANGED topupStatus
    BY <2>2, CancelConfirmedType DEF TypeOK
  <2>3. CASE a.owner \in Topups
    <3>1. a.owner \notin Jobs
      BY <2>3, StoreConstants
    <3> QED
      BY <2>3, <3>1 DEF SettleFinal, TypeOK, Silent, TopupStatus
  <2> QED
    BY <2>1, <2>2, <2>3 DEF SettleFinal
<1> QED
  BY <1>1, <1>2, <1>3, <1>4 DEF TypeOK, SettleFinal

LEMMA DemoteType ==
    ASSUME TypeOK, NEW a \in Attempts, DemoteInclusion(a)
    PROVE  TypeOK'
<1>1. status' \in [Attempts -> AttemptStatus \cup {"absent"}]
  BY DEF DemoteInclusion, AttemptStatus, TypeOK
<1>2. gas' \in [Pairs -> [Purposes -> Int]]
  BY GasType DEF DemoteInclusion
<1>3. jobStatus' \in [Jobs -> JobStatus] /\ topupStatus' \in [Topups -> TopupStatus]
  BY ZenonT(60) DEF DemoteInclusion, SetJob, MoveTopup, TypeOK, JobStatus, TopupStatus
<1> QED
  BY <1>1, <1>2, <1>3 DEF TypeOK, DemoteInclusion

LEMMA VoidType ==
    ASSUME TypeOK, NEW a \in Attempts, NEW e, NEW mode \in VoidModes, NEW d \in Dispositions,
           VoidBinding(e, a, mode, d)
    PROVE  TypeOK'
<1>1. status' \in [Attempts -> AttemptStatus \cup {"absent"}]
  BY DEF VoidBinding, AttemptStatus, TypeOK
<1>2. raw' \in [Attempts -> BOOLEAN]
  <2> SUFFICES ASSUME NEW b \in Attempts
               PROVE  (raw[b] /\ ~Voided(a, b)) \in BOOLEAN
    BY Zenon DEF VoidBinding
  <2> QED
    BY Zenon
<1>3. slot' \in [Pairs -> [Nonces -> Owners \cup {NoOwner}]] /\ hwm' \in [Pairs -> Nonces \cup {-1}]
  <2>1. CASE ReleaseNonce(a)
    BY <2>1, AttemptColumns, NonceIsNat DEF ReleaseNonce, TypeOK
  <2>2. CASE UNCHANGED <<slot, hwm>>
    BY <2>2 DEF TypeOK
  <2> QED
    BY <2>1, <2>2 DEF VoidBinding
<1>4. /\ jobStatus' \in [Jobs -> JobStatus] /\ topupStatus' \in [Topups -> TopupStatus]
      /\ webhookSeq' \in [Jobs -> Nat] /\ outbox' \in [Jobs -> Seq(Row)]
      /\ rollup' \in [{"mined", "failed"} -> Nat]
  <2>1. CASE a.owner \in Jobs /\ FailNow(a.owner) /\ UNCHANGED topupStatus
    BY <2>1, FailNowType DEF TypeOK
  <2>2. CASE Silent /\ UNCHANGED <<jobStatus, rollup>> /\ UNCHANGED topupStatus
    BY <2>2 DEF TypeOK, Silent
  <2>3. CASE /\ a.owner \in Jobs /\ Silent /\ UNCHANGED <<topupStatus, rollup>>
             /\ SetJob(a.owner, IF jobStatus[a.owner] \in {"sent", "cancelling"}
                                  THEN "queued" ELSE jobStatus[a.owner])
    BY <2>3 DEF TypeOK, Silent, SetJob, JobStatus
  <2>4. CASE /\ a.owner \in Topups /\ MoveTopup(a.owner, "sent", "failed") /\ Silent
             /\ UNCHANGED <<jobStatus, rollup>>
    BY <2>4 DEF TypeOK, Silent, MoveTopup, TopupStatus
  <2> QED
    BY <2>1, <2>2, <2>3, <2>4 DEF VoidBinding
<1> QED
  BY <1>1, <1>2, <1>3, <1>4 DEF TypeOK, VoidBinding

LEMMA TypeStep == TypeOK /\ [StoreNext]_storeVars => TypeOK'
<1> SUFFICES ASSUME TypeOK, [StoreNext]_storeVars PROVE TypeOK'
  OBVIOUS
<1>1. CASE BumpEpoch
  BY <1>1, StoreConstants DEF BumpEpoch, TypeOK
<1>2. ASSUME NEW j \in Jobs, FailJob(j) PROVE TypeOK'
  BY <1>2, FailNowType DEF FailJob, TypeOK
<1>3. ASSUME NEW t \in Topups, CreateTopup(t) \/ FailTopup(t) PROVE TypeOK'
  BY <1>3 DEF CreateTopup, FailTopup, SetTopup, TypeOK, TopupStatus
<1>4. CASE FailUnboundTopups
  BY <1>4 DEF FailUnboundTopups, TypeOK, TopupStatus
<1>5. CASE UNCHANGED storeVars
  BY <1>5 DEF storeVars, TypeOK
<1> QED
  BY <1>1, <1>2, <1>3, <1>4, <1>5, BindType, SettleInclusionType, SettleConfirmationType,
     SettleFinalType, DemoteType, VoidType DEF StoreNext

LEMMA InitType == StoreInit => TypeOK
BY StoreConstants
   DEF StoreInit, TypeOK, JobStatus, TopupStatus, AttemptStatus, Nonces

\* Every table keeps its column types, whatever transactions run.
THEOREM TypeCorrect == StoreSpec => []TypeOK
BY InitType, TypeStep, PTL DEF StoreSpec

-----------------------------------------------------------------------------
(* The nonce, the attempts and the job agree (StoreInv).                   *)

\* A job is only ever sent or cancelled: the two shapes its attempts have.
LEMMA JobPurposes ==
    \A a \in Attempts : a.owner \in Jobs => a.purpose \in {"job", "cancel"}
BY StoreConstants DEF Attempts, Attempt, Purposes

\* bind_attempt keeps the invariant for every kind of bind.
LEMMA BindInv ==
    ASSUME StoreInv, NEW a \in Attempts, NEW kind \in BindKinds, NEW e,
           BindCaller(a, kind), BindAttempt(e, a, kind)
    PROVE  StoreInv'
<1> USE AttemptColumns
<1> DEFINE jobAfter == IF kind = "First" THEN "sent"
                       ELSE IF kind = "Cancel" THEN "cancelling" ELSE jobStatus[a.owner]
<1>1. TypeOK /\ TypeOK'
  BY BindType DEF StoreInv
<1>2. \A b \in Attempts : status'[b] = IF b = a THEN "broadcast" ELSE status[b]
  BY <1>1 DEF BindAttempt, TypeOK
<1>3. \A p \in Pairs, n \in Nonces :
        slot'[p][n] = IF p = a.pair /\ n = a.nonce THEN a.owner ELSE slot[p][n]
  BY <1>1 DEF BindAttempt, TypeOK
<1>4. \A j \in Jobs : jobStatus'[j] = IF j = a.owner THEN jobAfter ELSE jobStatus[j]
  BY <1>1, StoreConstants DEF BindAttempt, BoundOwner, SetJob, TypeOK, BindKinds
<1>5. status[a] = "absent" /\ (a.purpose = "cancel" <=> kind = "Cancel")
  BY DEF BindCaller, FreshAttempt
<1>6. slot[a.pair][a.nonce] = IF kind = "First" THEN NoOwner ELSE a.owner
  BY DEF BindAttempt, SlotGranted
<1>7. kind # "First" =>
        \E b \in Attempts : SameNonce(a, b) /\ b.owner = a.owner /\ status[b] = "broadcast"
  BY DEF BindCaller, AttemptsAt, SameNonce
<1>8. a.owner \in Jobs =>
        jobStatus[a.owner] \in (IF kind = "First" THEN {"queued"} ELSE {"sent", "cancelling"})
  BY StoreConstants DEF BindAttempt, Bindable
<1>9. NonceBelongsToOwner'
  <2>1. \A p \in Pairs : hwm'[p] = IF p = a.pair /\ hwm[p] < a.nonce THEN a.nonce ELSE hwm[p]
    BY <1>1 DEF BindAttempt, TypeOK
  <2>2. \A b \in Attempts : status'[b] \in {"broadcast", "included", "confirmed", "replaced"}
          => slot'[b.pair][b.nonce] = b.owner
    BY <1>2, <1>3, <1>6, StoreConstants DEF StoreInv, NonceBelongsToOwner, Owners
  <2>3. \A p \in Pairs, n \in Nonces : slot'[p][n] # NoOwner => n <= hwm'[p]
    <3>1. \A p \in Pairs : hwm[p] \in Int
      BY <1>1, NonceIsNat DEF TypeOK
    <3> QED
      BY <1>1, <1>3, <2>1, <3>1, NonceIsNat DEF StoreInv, NonceBelongsToOwner
  <2> QED
    BY <2>2, <2>3 DEF NonceBelongsToOwner
<1>10. OneWinnerPerNonce'
  <2>1. \A b \in Attempts : SameNonce(a, b) => status[b] \notin Mined
    BY <1>6, <1>7, StoreConstants
       DEF StoreInv, OneWinnerPerNonce, NonceBelongsToOwner, SameNonce, Owners, Mined
  <2> QED
    BY <1>2, <2>1 DEF StoreInv, OneWinnerPerNonce, SameNonce, Mined
<1>11. OneHome'
  <2>1. \A b \in Attempts : a.owner \in Jobs /\ b.owner = a.owner /\ status[b] \in Live \cup Mined
          => SameNonce(a, b)
    <3>1. CASE kind = "First"
      BY <3>1, <1>8, JobPurposes DEF StoreInv, AttemptsDriveJob, Live, Mined
    <3>2. CASE kind # "First"
      BY <3>2, <1>7 DEF StoreInv, OneHome, Live, Mined, SameNonce
    <3> QED
      BY <3>1, <3>2
  <2> QED
    BY <1>2, <2>1 DEF StoreInv, OneHome, SameNonce
<1>12. AttemptsDriveJob'
  <2> SUFFICES ASSUME NEW b \in Attempts, b.owner \in Jobs
               PROVE  /\ b.purpose = "job" =>
                           /\ status'[b] = "broadcast" => jobStatus'[b.owner] \in {"sent", "cancelling"}
                           /\ status'[b] = "included" => jobStatus'[b.owner] = "included"
                           /\ status'[b] = "confirmed" => jobStatus'[b.owner] = "confirmed"
                      /\ b.purpose = "cancel" =>
                           /\ status'[b] \in Live => jobStatus'[b.owner] = "cancelling"
                           /\ status'[b] = "confirmed" => jobStatus'[b.owner] = "failed"
    BY DEF AttemptsDriveJob
  <2> QED
    BY <1>2, <1>4, <1>5, <1>8 DEF StoreInv, AttemptsDriveJob, Live, BindKinds
<1>13. JobHasAttempt'
  BY <1>2, <1>4, <1>5, <1>8 DEF StoreInv, JobHasAttempt, Live
<1>14. LiveHasBytes'
  <2>1. \A b \in Attempts : raw'[b] = IF b = a THEN TRUE ELSE raw[b]
    BY <1>1 DEF BindAttempt, TypeOK
  <2> QED
    BY <1>2, <2>1 DEF StoreInv, LiveHasBytes
<1> QED
  BY <1>1, <1>9, <1>10, <1>11, <1>12, <1>13, <1>14 DEF StoreInv

\* An attempt wins its nonce: what settle_inclusion does to the invariant,
\* with (s = "confirmed") or without (s = "included") confirm_now.
LEMMA WinInv ==
    ASSUME StoreInv, TypeOK', NEW a \in Attempts, NEW s \in Mined,
           status[a] = "broadcast", status' = Won(a, s),
           slot' = slot, hwm' = hwm,
           \A j \in Jobs : jobStatus'[j] =
               IF j # a.owner THEN jobStatus[j]
               ELSE IF a.purpose = "job" THEN s
               ELSE IF s = "confirmed" THEN "failed" ELSE jobStatus[j],
           \A b \in Attempts : status'[b] \in Live => raw'[b] = raw[b]
    PROVE  StoreInv'
<1> USE AttemptColumns
<1>1. \A b \in Attempts :
        status'[b] = IF b = a THEN s
                     ELSE IF SameNonce(a, b) /\ status[b] = "broadcast" THEN "replaced"
                     ELSE status[b]
  BY DEF Won
<1>2. \A b \in Attempts : SameNonce(a, b) => status[b] \notin Mined
  BY DEF StoreInv, OneWinnerPerNonce, SameNonce, Mined
<1>3. \A b \in Attempts : a.owner \in Jobs /\ b.owner = a.owner /\ b # a
        => status'[b] \notin Live \cup Mined
  BY <1>1, <1>2 DEF StoreInv, OneHome, Live, Mined
<1>4. \A b \in Attempts : b # a => status'[b] = status[b] \/ status'[b] = "replaced"
  BY <1>1
<1>5. NonceBelongsToOwner'
  <2>1. \A b \in Attempts : status'[b] \in {"broadcast", "included", "confirmed", "replaced"}
          => slot'[b.pair][b.nonce] = b.owner
    BY <1>1 DEF StoreInv, NonceBelongsToOwner
  <2> QED
    BY <2>1 DEF StoreInv, NonceBelongsToOwner
<1>6. OneWinnerPerNonce'
  BY <1>1, <1>2 DEF StoreInv, OneWinnerPerNonce, SameNonce, Mined
<1>7. OneHome'
  BY <1>3, <1>4 DEF StoreInv, OneHome, SameNonce, Live, Mined
<1>8. AttemptsDriveJob'
  <2> SUFFICES ASSUME NEW b \in Attempts, b.owner \in Jobs
               PROVE  /\ b.purpose = "job" =>
                           /\ status'[b] = "broadcast" => jobStatus'[b.owner] \in {"sent", "cancelling"}
                           /\ status'[b] = "included" => jobStatus'[b.owner] = "included"
                           /\ status'[b] = "confirmed" => jobStatus'[b.owner] = "confirmed"
                      /\ b.purpose = "cancel" =>
                           /\ status'[b] \in Live => jobStatus'[b.owner] = "cancelling"
                           /\ status'[b] = "confirmed" => jobStatus'[b.owner] = "failed"
    BY DEF AttemptsDriveJob
  <2>1. CASE b = a
    BY <2>1, <1>1 DEF StoreInv, AttemptsDriveJob, Live, Mined
  <2>2. CASE b # a /\ b.owner = a.owner
    BY <2>2, <1>3 DEF Live, Mined
  <2>3. CASE b.owner # a.owner
    BY <2>3, <1>4 DEF StoreInv, AttemptsDriveJob, Live
  <2> QED
    BY <2>1, <2>2, <2>3
<1>9. JobHasAttempt'
  <2> SUFFICES ASSUME NEW j \in Jobs
               PROVE  /\ jobStatus'[j] \in {"sent", "cancelling"} =>
                           \E b \in Attempts : b.owner = j /\ status'[b] \in Live
                      /\ jobStatus'[j] = "included" =>
                           \E b \in Attempts : b.owner = j /\ b.purpose = "job" /\ status'[b] \in {"included"}
                      /\ jobStatus'[j] = "confirmed" =>
                           \E b \in Attempts : b.owner = j /\ b.purpose = "job" /\ status'[b] \in {"confirmed"}
    BY DEF JobHasAttempt
  <2>1. CASE j = a.owner
    BY <2>1, <1>1, JobPurposes DEF StoreInv, AttemptsDriveJob, Live, Mined
  <2>2. CASE j # a.owner
    <3>1. \A b \in Attempts : b.owner = j => status'[b] = status[b]
      BY <2>2, <1>1 DEF StoreInv, NonceBelongsToOwner, SameNonce
    <3> QED
      BY <2>2, <3>1 DEF StoreInv, JobHasAttempt
  <2> QED
    BY <2>1, <2>2
<1>10. LiveHasBytes'
  BY <1>1 DEF StoreInv, LiveHasBytes, Live, Mined
<1> QED
  BY <1>5, <1>6, <1>7, <1>8, <1>9, <1>10 DEF StoreInv

LEMMA SettleInclusionInv ==
    ASSUME StoreInv, NEW a \in Attempts, SettleInclusion(a)
    PROVE  StoreInv'
<1> USE AttemptColumns
<1>1. TypeOK /\ TypeOK'
  BY SettleInclusionType DEF StoreInv
<1>2. \A j \in Jobs : jobStatus'[j] =
        IF j = a.owner /\ a.purpose = "job" THEN "included" ELSE jobStatus[j]
  BY <1>1, StoreConstants DEF SettleInclusion, SetJob, TypeOK
<1>3. "included" \in Mined
  BY DEF Mined
<1> QED
  BY <1>1, <1>2, <1>3, WinInv DEF SettleInclusion

LEMMA SettleFinalInv ==
    ASSUME StoreInv, NEW a \in Attempts, SettleFinal(a)
    PROVE  StoreInv'
<1> USE AttemptColumns
<1>1. TypeOK /\ TypeOK'
  BY SettleFinalType DEF StoreInv
<1>2. \A j \in Jobs : jobStatus'[j] =
        IF j # a.owner THEN jobStatus[j] ELSE IF a.purpose = "job" THEN "confirmed" ELSE "failed"
  <2>1. CASE a.owner \in Jobs /\ a.purpose = "job"
    BY <2>1, <1>1, StoreConstants, ZenonT(60) DEF SettleFinal, SetJob, TypeOK
  <2>2. CASE a.owner \in Jobs /\ a.purpose # "job"
    <3>1. jobStatus[a.owner] = "cancelling"
      BY <2>2, JobPurposes DEF SettleFinal, StoreInv, AttemptsDriveJob, Live
    <3>2. CancelConfirmed(a.owner)
      BY <2>2, StoreConstants DEF SettleFinal
    <3> QED
      BY <2>2, <3>1, <3>2, <1>1 DEF CancelConfirmed, FailNow, SetJob, TypeOK
  <2>3. CASE a.owner \in Topups
    BY <2>3, StoreConstants DEF SettleFinal
  <2> QED
    BY <2>1, <2>2, <2>3 DEF Owners
<1>3. "confirmed" \in Mined
  BY DEF Mined
<1>4. \A b \in Attempts : status'[b] \in Live => raw'[b] = raw[b]
  <2> SUFFICES ASSUME NEW b \in Attempts, status'[b] \in Live
               PROVE  raw'[b] = raw[b]
    OBVIOUS
  <2>1. status'[b] # "replaced" /\ b # a
    BY DEF SettleFinal, Won, Live
  <2>2. raw'[b] = (raw[b] /\ b # a /\ ~(SameNonce(a, b) /\ status'[b] = "replaced"))
    BY Zenon DEF SettleFinal, Forgotten
  <2>3. raw[b] \in BOOLEAN
    BY <1>1 DEF TypeOK
  <2> QED
    BY <2>1, <2>2, <2>3
<1> QED
  BY <1>1, <1>2, <1>3, <1>4, WinInv DEF SettleFinal

\* A mined attempt moves between "included", "confirmed" and "broadcast"
\* while it is alone at its nonce: confirm_in_tx and demote_inclusion.
LEMMA LoneInv ==
    ASSUME StoreInv, TypeOK', NEW a \in Attempts, NEW s \in {"broadcast", "confirmed"},
           status[a] = "included", status' = [status EXCEPT ![a] = s],
           slot' = slot, hwm' = hwm,
           \A j \in Jobs : jobStatus'[j] =
               IF j # a.owner THEN jobStatus[j]
               ELSE IF s = "confirmed" THEN (IF a.purpose = "job" THEN "confirmed" ELSE "failed")
               ELSE IF a.purpose = "job" THEN "sent" ELSE jobStatus[j],
           \A b \in Attempts : status'[b] \in Live => raw'[b] = raw[b]
    PROVE  StoreInv'
<1> USE AttemptColumns
<1>1. \A b \in Attempts : status'[b] = IF b = a THEN s ELSE status[b]
  BY DEF StoreInv, TypeOK
<1>2. \A b \in Attempts : SameNonce(a, b) /\ b # a => status[b] \notin Live \cup Mined
  BY DEF StoreInv, OneWinnerPerNonce, Mined, Live
<1>3. \A b \in Attempts : a.owner \in Jobs /\ b.owner = a.owner /\ b # a
        => status[b] \notin Live \cup Mined
  BY <1>2 DEF StoreInv, OneHome, Live
<1>4. NonceBelongsToOwner'
  BY <1>1 DEF StoreInv, NonceBelongsToOwner
<1>5. OneWinnerPerNonce'
  BY <1>1, <1>2 DEF StoreInv, OneWinnerPerNonce, SameNonce, Live, Mined
<1>6. OneHome'
  BY <1>1, <1>3 DEF StoreInv, OneHome, SameNonce
<1>7. AttemptsDriveJob'
  <2> SUFFICES ASSUME NEW b \in Attempts, b.owner \in Jobs
               PROVE  /\ b.purpose = "job" =>
                           /\ status'[b] = "broadcast" => jobStatus'[b.owner] \in {"sent", "cancelling"}
                           /\ status'[b] = "included" => jobStatus'[b.owner] = "included"
                           /\ status'[b] = "confirmed" => jobStatus'[b.owner] = "confirmed"
                      /\ b.purpose = "cancel" =>
                           /\ status'[b] \in Live => jobStatus'[b.owner] = "cancelling"
                           /\ status'[b] = "confirmed" => jobStatus'[b.owner] = "failed"
    BY DEF AttemptsDriveJob
  <2>1. CASE b = a
    BY <2>1, <1>1 DEF StoreInv, AttemptsDriveJob, Live
  <2>2. CASE b # a /\ b.owner = a.owner
    BY <2>2, <1>1, <1>3 DEF Live, Mined
  <2>3. CASE b.owner # a.owner
    BY <2>3, <1>1 DEF StoreInv, AttemptsDriveJob
  <2> QED
    BY <2>1, <2>2, <2>3
<1>8. JobHasAttempt'
  BY <1>1, JobPurposes DEF StoreInv, AttemptsDriveJob, JobHasAttempt, Live
<1>9. LiveHasBytes'
  BY <1>1 DEF StoreInv, LiveHasBytes, Live
<1> QED
  BY <1>4, <1>5, <1>6, <1>7, <1>8, <1>9 DEF StoreInv

LEMMA SettleConfirmationInv ==
    ASSUME StoreInv, NEW a \in Attempts, SettleConfirmation(a)
    PROVE  StoreInv'
<1> USE AttemptColumns
<1>1. TypeOK /\ TypeOK'
  BY SettleConfirmationType DEF StoreInv
<1>2. \A j \in Jobs : jobStatus'[j] =
        IF j # a.owner THEN jobStatus[j] ELSE IF a.purpose = "job" THEN "confirmed" ELSE "failed"
  <2>1. CASE a.owner \in Jobs /\ a.purpose = "job"
    <3>1. jobStatus[a.owner] = "included"
      BY <2>1 DEF SettleConfirmation, StoreInv, AttemptsDriveJob
    <3> QED
      BY <2>1, <3>1, <1>1, StoreConstants DEF SettleConfirmation, SetJob, TypeOK
  <2>2. CASE a.owner \in Jobs /\ a.purpose # "job"
    <3>1. jobStatus[a.owner] = "cancelling"
      BY <2>2, JobPurposes DEF SettleConfirmation, StoreInv, AttemptsDriveJob, Live
    <3>2. CancelConfirmed(a.owner)
      BY <2>2, StoreConstants DEF SettleConfirmation
    <3> QED
      BY <2>2, <3>1, <3>2, <1>1 DEF CancelConfirmed, FailNow, SetJob, TypeOK
  <2>3. CASE a.owner \in Topups
    BY <2>3, StoreConstants DEF SettleConfirmation
  <2> QED
    BY <2>1, <2>2, <2>3 DEF Owners
<1>3. \A b \in Attempts : status'[b] \in Live => raw'[b] = raw[b]
  <2> SUFFICES ASSUME NEW b \in Attempts, status'[b] \in Live
               PROVE  raw'[b] = raw[b]
    OBVIOUS
  <2>1. status'[b] # "replaced" /\ b # a
    BY <1>1 DEF SettleConfirmation, TypeOK, Live
  <2>2. raw'[b] = (raw[b] /\ b # a /\ ~(SameNonce(a, b) /\ status'[b] = "replaced"))
    BY Zenon DEF SettleConfirmation, Forgotten
  <2>3. raw[b] \in BOOLEAN
    BY <1>1 DEF TypeOK
  <2> QED
    BY <2>1, <2>2, <2>3
<1> QED
  BY <1>1, <1>2, <1>3, LoneInv DEF SettleConfirmation

LEMMA DemoteInv ==
    ASSUME StoreInv, NEW a \in Attempts, DemoteInclusion(a)
    PROVE  StoreInv'
<1> USE AttemptColumns
<1>1. TypeOK /\ TypeOK'
  BY DemoteType DEF StoreInv
<1>2. \A j \in Jobs : jobStatus'[j] =
        IF j = a.owner /\ a.purpose = "job" THEN "sent" ELSE jobStatus[j]
  <2>1. a.purpose = "job" => jobStatus[a.owner] = "included"
    BY DEF DemoteInclusion, StoreInv, AttemptsDriveJob
  <2> QED
    BY <1>1, <2>1, StoreConstants DEF DemoteInclusion, SetJob, TypeOK
<1> QED
  BY <1>1, <1>2, LoneInv, ZenonT(60) DEF DemoteInclusion

\* void_binding keeps the invariant because its caller holds the newest
\* nonce and no attempt of it was ever mined.
LEMMA VoidInv ==
    ASSUME StoreInv, NEW a \in Attempts, NEW mode \in VoidModes, NEW d \in Dispositions,
           NEW e, VoidCaller(a, mode, d), VoidBinding(e, a, mode, d)
    PROVE  StoreInv'
<1> USE AttemptColumns
<1>1. TypeOK /\ TypeOK'
  BY VoidType DEF StoreInv
<1>2. \A b \in Attempts : status'[b] = IF Voided(a, b) THEN "dropped" ELSE status[b]
  BY DEF VoidBinding
<1>3. \A b \in Attempts : SameNonce(a, b) => status'[b] \in {"absent", "dropped"}
  BY <1>2 DEF VoidCaller, AttemptsAt, Voided, SameNonce
<1>4. \A b \in Attempts : ~SameNonce(a, b) => status'[b] = status[b]
  BY <1>2 DEF Voided
<1>5. \A b \in Attempts : Voided(a, b) => b.owner = a.owner
  BY DEF StoreInv, NonceBelongsToOwner, Voided, SameNonce, VoidCaller
<1>6. \A b \in Attempts : a.owner \in Jobs /\ b.owner = a.owner => status'[b] \notin Live \cup Mined
  BY <1>3, <1>4 DEF StoreInv, OneHome, Live, Mined, VoidCaller
<1>7. \A j \in Jobs : j # a.owner => jobStatus'[j] = jobStatus[j]
  BY <1>1, SMTT(30) DEF VoidBinding, SetJob, FailNow, TypeOK
<1>8. a.owner \in Jobs => jobStatus'[a.owner] \in {"queued", "failed"}
  <2>1. a.owner \in Jobs => jobStatus[a.owner] \in {"sent", "cancelling"}
    BY JobPurposes DEF VoidCaller, StoreInv, AttemptsDriveJob, Live
  <2> QED
    BY <1>1, <2>1, StoreConstants DEF VoidBinding, SetJob, FailNow, TypeOK
<1>9. NonceBelongsToOwner'
  <2>1. \A p \in Pairs, n \in Nonces :
          p # a.pair \/ n # a.nonce => slot'[p][n] = slot[p][n]
    BY <1>1 DEF VoidBinding, ReleaseNonce, TypeOK
  <2>2. \A b \in Attempts : status'[b] \in {"broadcast", "included", "confirmed", "replaced"}
          => slot'[b.pair][b.nonce] = b.owner
    BY <1>3, <1>4, <2>1 DEF StoreInv, NonceBelongsToOwner, SameNonce
  <2>3. \A p \in Pairs, n \in Nonces : slot'[p][n] # NoOwner => n <= hwm'[p]
    <3>1. CASE mode = "NonceUnused"
      <4>1. slot[a.pair][a.nonce] = a.owner
        BY DEF StoreInv, NonceBelongsToOwner, VoidCaller
      <4>2. slot'[a.pair][a.nonce] = NoOwner
        BY <3>1, <4>1, <1>1 DEF VoidBinding, ReleaseNonce, TypeOK
      <4>3. \A p \in Pairs : hwm'[p] = IF p = a.pair THEN a.nonce - 1 ELSE hwm[p]
        BY <3>1, <1>1, ZenonT(60) DEF VoidBinding, ReleaseNonce, VoidCaller, TypeOK
      <4>4. \A p \in Pairs, n \in Nonces : slot[p][n] # NoOwner => n <= hwm[p]
        BY DEF StoreInv, NonceBelongsToOwner
      <4> QED
        BY <2>1, <4>2, <4>3, <4>4, NonceIsNat DEF VoidCaller
    <3>2. CASE mode # "NonceUnused"
      BY <3>2 DEF VoidBinding, StoreInv, NonceBelongsToOwner
    <3> QED
      BY <3>1, <3>2
  <2> QED
    BY <2>2, <2>3 DEF NonceBelongsToOwner
<1>10. OneWinnerPerNonce'
  BY <1>2 DEF StoreInv, OneWinnerPerNonce, Mined
<1>11. OneHome'
  BY <1>2 DEF StoreInv, OneHome, Live, Mined
<1>12. AttemptsDriveJob'
  <2> SUFFICES ASSUME NEW b \in Attempts, b.owner \in Jobs
               PROVE  /\ b.purpose = "job" =>
                           /\ status'[b] = "broadcast" => jobStatus'[b.owner] \in {"sent", "cancelling"}
                           /\ status'[b] = "included" => jobStatus'[b.owner] = "included"
                           /\ status'[b] = "confirmed" => jobStatus'[b.owner] = "confirmed"
                      /\ b.purpose = "cancel" =>
                           /\ status'[b] \in Live => jobStatus'[b.owner] = "cancelling"
                           /\ status'[b] = "confirmed" => jobStatus'[b.owner] = "failed"
    BY DEF AttemptsDriveJob
  <2>1. CASE b.owner = a.owner
    BY <2>1, <1>6 DEF Live, Mined
  <2>2. CASE b.owner # a.owner
    BY <2>2, <1>2, <1>5, <1>7 DEF StoreInv, AttemptsDriveJob
  <2> QED
    BY <2>1, <2>2
<1>13. JobHasAttempt'
  BY <1>2, <1>5, <1>7, <1>8 DEF StoreInv, JobHasAttempt
<1>14. LiveHasBytes'
  <2> SUFFICES ASSUME NEW b \in Attempts, status'[b] \in Live
               PROVE  raw'[b]
    BY DEF LiveHasBytes
  <2>1. status[b] \in Live /\ ~Voided(a, b)
    BY <1>2 DEF Live
  <2>2. raw[b]
    BY <2>1 DEF StoreInv, LiveHasBytes
  <2>3. raw'[b] = (raw[b] /\ ~Voided(a, b))
    BY Zenon DEF VoidBinding
  <2> QED
    BY <2>1, <2>2, <2>3, Zenon
<1> QED
  BY <1>1, <1>9, <1>10, <1>11, <1>12, <1>13, <1>14 DEF StoreInv

LEMMA FailJobInv ==
    ASSUME StoreInv, NEW j \in Jobs, FailJob(j)
    PROVE  StoreInv'
<1> USE AttemptColumns
<1>1. TypeOK /\ TypeOK'
  BY TypeStep DEF StoreInv, StoreNext
<1>2. \A k \in Jobs : jobStatus'[k] = IF k = j THEN "failed" ELSE jobStatus[k]
  BY <1>1 DEF FailJob, FailNow, SetJob, TypeOK
<1>3. status' = status /\ raw' = raw /\ slot' = slot /\ hwm' = hwm /\ jobStatus[j] = "queued"
  BY DEF FailJob
<1>4. NonceBelongsToOwner' /\ OneWinnerPerNonce' /\ OneHome' /\ LiveHasBytes'
  BY <1>3 DEF StoreInv, NonceBelongsToOwner, OneWinnerPerNonce, OneHome, LiveHasBytes
<1>5. AttemptsDriveJob'
  BY <1>2, <1>3 DEF StoreInv, AttemptsDriveJob, Live
<1>6. JobHasAttempt'
  BY <1>2, <1>3 DEF StoreInv, JobHasAttempt
<1> QED
  BY <1>1, <1>4, <1>5, <1>6 DEF StoreInv

\* Steps that touch neither jobs, attempts nor nonces.
LEMMA QuietInv ==
    ASSUME StoreInv, TypeOK', UNCHANGED <<jobStatus, status, raw, slot, hwm>>
    PROVE  StoreInv'
<1>1. NonceBelongsToOwner'
  BY DEF StoreInv, NonceBelongsToOwner
<1>2. OneWinnerPerNonce'
  BY DEF StoreInv, OneWinnerPerNonce
<1>3. OneHome'
  BY DEF StoreInv, OneHome
<1>4. AttemptsDriveJob'
  BY DEF StoreInv, AttemptsDriveJob
<1>5. JobHasAttempt'
  BY DEF StoreInv, JobHasAttempt
<1>6. LiveHasBytes'
  BY DEF StoreInv, LiveHasBytes
<1> QED
  BY <1>1, <1>2, <1>3, <1>4, <1>5, <1>6 DEF StoreInv

LEMMA InvStep ==
    ASSUME StoreInv, [StoreNext]_storeVars
    PROVE  StoreInv'
<1>1. TypeOK'
  BY TypeStep DEF StoreInv
<1>2. CASE BumpEpoch
  BY <1>1, <1>2, QuietInv DEF BumpEpoch
<1>3. ASSUME NEW j \in Jobs, FailJob(j) PROVE StoreInv'
  BY <1>3, FailJobInv
<1>4. ASSUME NEW t \in Topups, CreateTopup(t) \/ FailTopup(t) PROVE StoreInv'
  BY <1>1, <1>4, QuietInv DEF CreateTopup, FailTopup
<1>5. CASE FailUnboundTopups
  BY <1>1, <1>5, QuietInv DEF FailUnboundTopups
<1>6. ASSUME NEW e \in 0 .. MaxEpoch, NEW a \in Attempts, NEW kind \in BindKinds,
             BindAttempt(e, a, kind) /\ BindCaller(a, kind)
      PROVE  StoreInv'
  BY <1>6, BindInv
<1>7. ASSUME NEW a \in Attempts, SettleInclusion(a) PROVE StoreInv'
  BY <1>7, SettleInclusionInv
<1>8. ASSUME NEW a \in Attempts, SettleConfirmation(a) PROVE StoreInv'
  BY <1>8, SettleConfirmationInv
<1>9. ASSUME NEW a \in Attempts, SettleFinal(a) PROVE StoreInv'
  BY <1>9, SettleFinalInv
<1>10. ASSUME NEW a \in Attempts, DemoteInclusion(a) PROVE StoreInv'
  BY <1>10, DemoteInv
<1>11. ASSUME NEW e \in 0 .. MaxEpoch, NEW a \in Attempts, NEW mode \in VoidModes,
              NEW d \in Dispositions, VoidCaller(a, mode, d) /\ VoidBinding(e, a, mode, d)
       PROVE  StoreInv'
  BY <1>11, VoidInv
<1>12. CASE UNCHANGED storeVars
  BY <1>1, <1>12, QuietInv DEF storeVars
<1> QED
  BY <1>2, <1>3, <1>4, <1>5, <1>6, <1>7, <1>8, <1>9, <1>10, <1>11, <1>12 DEF StoreNext

\* The transactions of the store keep nonces, attempts and jobs in agreement,
\* in every order in which bind, settle, confirm, demote and void can run.
THEOREM StoreIsSafe == StoreSpec => []StoreInv
<1>1. StoreInit => StoreInv
  <2> SUFFICES ASSUME StoreInit PROVE StoreInv
    OBVIOUS
  <2>1. TypeOK
    BY InitType
  <2>2. NonceBelongsToOwner /\ OneWinnerPerNonce /\ OneHome
    BY AttemptColumns DEF StoreInit, NonceBelongsToOwner, OneWinnerPerNonce, OneHome, Mined, Live
  <2>3. AttemptsDriveJob /\ JobHasAttempt /\ LiveHasBytes
    BY DEF StoreInit, AttemptsDriveJob, JobHasAttempt, LiveHasBytes, Live
  <2> QED
    BY <2>1, <2>2, <2>3 DEF StoreInv
<1>2. StoreInv /\ [StoreNext]_storeVars => StoreInv'
  BY InvStep
<1> QED
  BY <1>1, <1>2, PTL DEF StoreSpec

\* bind_attempt never hands a nonce to a second owner and the unique index on
\* mined attempts is never hit.
THEOREM NoncesAreSafe == StoreSpec => [](NonceBelongsToOwner /\ OneWinnerPerNonce)
<1>1. StoreInv => NonceBelongsToOwner /\ OneWinnerPerNonce
  BY DEF StoreInv
<1> QED
  BY <1>1, StoreIsSafe, PTL

\* Whatever attempt is mined, settle_inclusion can record it: no settlement
\* is ever parked as a dead letter.
THEOREM NoSettlementIsParked == StoreSpec => []SettlementApplies
<1>1. StoreInv => SettlementApplies
  BY DEF StoreInv, AttemptsDriveJob, OneWinnerPerNonce, SettlementApplies,
         InclusionConflict, SameNonce
<1> QED
  BY <1>1, StoreIsSafe, PTL

\* The job row agrees with its attempts, and a job in flight can always be
\* picked up by recovery.
THEOREM JobsAreNotLost == StoreSpec => [](JobFollowsAttempts /\ InFlightIsRecoverable)
<1>1. StoreInv => JobFollowsAttempts
  BY JobPurposes DEF StoreInv, AttemptsDriveJob, JobHasAttempt, JobFollowsAttempts, Live
<1>2. StoreInv => InFlightIsRecoverable
  <2> SUFFICES ASSUME StoreInv, NEW j \in Jobs, jobStatus[j] \in {"sent", "cancelling", "included"}
               PROVE  \E a \in Attempts : a.owner = j /\ status[a] \in Live /\ raw[a]
    BY DEF InFlightIsRecoverable
  <2>1. PICK a \in Attempts : a.owner = j /\ status[a] \in Live
    BY DEF StoreInv, JobHasAttempt, Live
  <2>2. raw[a]
    BY <2>1 DEF StoreInv, LiveHasBytes
  <2> QED
    BY <2>1, <2>2, Zenon
<1> QED
  BY <1>1, <1>2, StoreIsSafe, PTL
=============================================================================
