------------------------ MODULE AttemptStoreCounters ------------------------
(* The gas ledger and the terminal-state rollup count what they claim to   *)
(* count, for every set of jobs, top-ups and pairs and every bound.  Both  *)
(* sets being counted start empty and change by one element per step, so   *)
(* they are finite whatever the constants are.                             *)
EXTENDS AttemptStoreProofs

\* A counter agrees with the finite set S it counts.
Counts(n, S) == IsFiniteSet(S) /\ n = Cardinality(S)

LEMMA CountZero == Counts(0, {})
BY FS_EmptySet DEF Counts

LEMMA CountUp ==
    ASSUME NEW n, NEW S, NEW x, Counts(n, S), x \notin S
    PROVE  Counts(n + 1, S \cup {x})
BY FS_AddElement DEF Counts

LEMMA CountDown ==
    ASSUME NEW n, NEW S, NEW x \in S, Counts(n, S)
    PROVE  Counts(n - 1, S \ {x})
BY FS_RemoveElement DEF Counts

-----------------------------------------------------------------------------
GasInv == \A p \in Pairs, u \in Purposes : Counts(gas[p][u], MinedBy(p, u))

\* The ledger moves by one for the attempt that enters or leaves the chain.
LEMMA GasSame ==
    ASSUME GasInv, UNCHANGED gas,
           \A b \in Attempts : status'[b] \in Mined <=> status[b] \in Mined
    PROVE  GasInv'
<1>1. \A p \in Pairs, u \in Purposes : MinedBy(p, u)' = MinedBy(p, u)
  BY DEF MinedBy
<1> QED
  BY <1>1 DEF GasInv

LEMMA GasUp ==
    ASSUME TypeOK, GasInv, NEW a \in Attempts, AddGas(a.pair, a.purpose, 1),
           status[a] \notin Mined, status'[a] \in Mined,
           \A b \in Attempts : b # a => (status'[b] \in Mined <=> status[b] \in Mined)
    PROVE  GasInv'
<1> USE AttemptColumns
<1> SUFFICES ASSUME NEW p \in Pairs, NEW u \in Purposes
             PROVE  Counts(gas'[p][u], MinedBy(p, u)')
  BY DEF GasInv
<1>1. CASE p = a.pair /\ u = a.purpose
  <2>1. MinedBy(p, u)' = MinedBy(p, u) \cup {a} /\ a \notin MinedBy(p, u)
    BY <1>1 DEF MinedBy
  <2>2. gas'[p][u] = gas[p][u] + 1
    BY <1>1 DEF AddGas, TypeOK
  <2> QED
    BY <2>1, <2>2, CountUp DEF GasInv
<1>2. CASE ~(p = a.pair /\ u = a.purpose)
  <2>1. MinedBy(p, u)' = MinedBy(p, u)
    BY <1>2 DEF MinedBy
  <2>2. gas'[p][u] = gas[p][u]
    BY <1>2 DEF AddGas, TypeOK
  <2> QED
    BY <2>1, <2>2 DEF GasInv
<1> QED
  BY <1>1, <1>2

LEMMA GasDown ==
    ASSUME TypeOK, GasInv, NEW a \in Attempts, AddGas(a.pair, a.purpose, -1),
           status[a] \in Mined, status'[a] \notin Mined,
           \A b \in Attempts : b # a => status'[b] = status[b]
    PROVE  GasInv'
<1> USE AttemptColumns
<1> SUFFICES ASSUME NEW p \in Pairs, NEW u \in Purposes
             PROVE  Counts(gas'[p][u], MinedBy(p, u)')
  BY DEF GasInv
<1>1. CASE p = a.pair /\ u = a.purpose
  <2>1. MinedBy(p, u)' = MinedBy(p, u) \ {a} /\ a \in MinedBy(p, u)
    BY <1>1 DEF MinedBy
  <2>2. gas'[p][u] = gas[p][u] - 1
    BY <1>1 DEF AddGas, TypeOK
  <2> QED
    BY <2>1, <2>2, CountDown DEF GasInv
<1>2. CASE ~(p = a.pair /\ u = a.purpose)
  <2>1. MinedBy(p, u)' = MinedBy(p, u)
    BY <1>2 DEF MinedBy
  <2>2. gas'[p][u] = gas[p][u]
    BY <1>2 DEF AddGas, TypeOK
  <2> QED
    BY <2>1, <2>2 DEF GasInv
<1> QED
  BY <1>1, <1>2

LEMMA GasStep ==
    ASSUME TypeOK, GasInv, [StoreNext]_storeVars
    PROVE  GasInv'
<1>1. CASE \/ BumpEpoch \/ FailUnboundTopups \/ UNCHANGED storeVars
           \/ \E j \in Jobs : FailJob(j)
           \/ \E t \in Topups : CreateTopup(t) \/ FailTopup(t)
  <2>1. UNCHANGED <<gas, status>>
    BY <1>1 DEF BumpEpoch, FailUnboundTopups, storeVars, FailJob, CreateTopup, FailTopup
  <2> QED
    BY <2>1, GasSame
<1>2. ASSUME NEW e, NEW a \in Attempts, NEW kind \in BindKinds,
             BindAttempt(e, a, kind), BindCaller(a, kind)
      PROVE  GasInv'
  <2>1. UNCHANGED gas /\ status[a] = "absent"
    BY <1>2 DEF BindAttempt, BindCaller, FreshAttempt
  <2>2. \A b \in Attempts : status'[b] = IF b = a THEN "broadcast" ELSE status[b]
    BY <1>2 DEF BindAttempt, TypeOK
  <2> QED
    BY <2>1, <2>2, GasSame DEF Mined
<1>3. ASSUME NEW a \in Attempts, SettleInclusion(a) \/ SettleFinal(a) PROVE GasInv'
  <2>1. /\ status[a] = "broadcast" /\ AddGas(a.pair, a.purpose, 1)
        /\ status' = Won(a, "included") \/ status' = Won(a, "confirmed")
    BY <1>3 DEF SettleInclusion, SettleFinal
  <2>2. status'[a] \in Mined
    BY <2>1 DEF Won, Mined
  <2>3. \A b \in Attempts : b # a => (status'[b] \in Mined <=> status[b] \in Mined)
    BY <2>1 DEF Won, Mined
  <2> QED
    BY <2>1, <2>2, <2>3, GasUp DEF Mined
<1>4. ASSUME NEW a \in Attempts, SettleConfirmation(a) PROVE GasInv'
  <2>1. UNCHANGED gas /\ status[a] = "included" /\ status' = [status EXCEPT ![a] = "confirmed"]
    BY <1>4 DEF SettleConfirmation
  <2> QED
    BY <2>1, GasSame DEF TypeOK, Mined
<1>5. ASSUME NEW a \in Attempts, DemoteInclusion(a) PROVE GasInv'
  BY <1>5, GasDown DEF DemoteInclusion, TypeOK, Mined
<1>6. ASSUME NEW e, NEW a \in Attempts, NEW mode, NEW d, VoidBinding(e, a, mode, d)
      PROVE  GasInv'
  BY <1>6, GasSame DEF VoidBinding, Voided, Mined
<1> QED
  BY <1>1, <1>2, <1>3, <1>4, <1>5, <1>6 DEF StoreNext

\* gas_ledger.tx_count is the number of mined transactions, however often one
\* is settled again, taken back by a re-org or confirmed.
THEOREM GasIsCountedOnce == StoreSpec => []GasCountedOnce
<1>1. StoreInit => GasInv
  <2> SUFFICES ASSUME StoreInit, NEW p \in Pairs, NEW u \in Purposes
               PROVE  Counts(gas[p][u], MinedBy(p, u))
    BY DEF GasInv
  <2>1. MinedBy(p, u) = {}
    BY DEF StoreInit, MinedBy, Mined
  <2> QED
    BY <2>1, CountZero DEF StoreInit
<1>2. TypeOK /\ GasInv /\ [StoreNext]_storeVars => GasInv'
  BY GasStep
<1>3. GasInv => GasCountedOnce
  BY DEF GasInv, GasCountedOnce, Counts
<1> QED
  BY <1>1, <1>2, <1>3, TypeCorrect, PTL DEF StoreSpec

-----------------------------------------------------------------------------
InState(s) == {j \in Jobs : jobStatus[j] = s}

RollupInv == Counts(rollup["mined"], InState("confirmed")) /\ Counts(rollup["failed"], InState("failed"))

\* A job becomes terminal and the bucket of its new status moves by one ...
LEMMA RollupUp ==
    ASSUME TypeOK, RollupInv, NEW j \in Jobs, jobStatus[j] \notin Terminal,
           \/ SetJob(j, "confirmed") /\ BumpRollup("mined")
           \/ SetJob(j, "failed") /\ BumpRollup("failed")
    PROVE  RollupInv'
<1>1. CASE SetJob(j, "confirmed") /\ BumpRollup("mined")
  <2>1. /\ InState("confirmed")' = InState("confirmed") \cup {j} /\ j \notin InState("confirmed")
        /\ InState("failed")' = InState("failed")
    BY <1>1 DEF InState, SetJob, TypeOK, Terminal
  <2>2. rollup'["mined"] = rollup["mined"] + 1 /\ rollup'["failed"] = rollup["failed"]
    BY <1>1 DEF BumpRollup, TypeOK
  <2> QED
    BY <2>1, <2>2, CountUp DEF RollupInv
<1>2. CASE SetJob(j, "failed") /\ BumpRollup("failed")
  <2>1. /\ InState("failed")' = InState("failed") \cup {j} /\ j \notin InState("failed")
        /\ InState("confirmed")' = InState("confirmed")
    BY <1>2 DEF InState, SetJob, TypeOK, Terminal
  <2>2. rollup'["failed"] = rollup["failed"] + 1 /\ rollup'["mined"] = rollup["mined"]
    BY <1>2 DEF BumpRollup, TypeOK
  <2> QED
    BY <2>1, <2>2, CountUp DEF RollupInv
<1> QED
  BY <1>1, <1>2

\* ... and nothing else touches either.
LEMMA RollupSame ==
    ASSUME RollupInv, UNCHANGED rollup,
           \A j \in Jobs : \/ jobStatus'[j] = jobStatus[j]
                           \/ jobStatus[j] \notin Terminal /\ jobStatus'[j] \notin Terminal
    PROVE  RollupInv'
<1>1. InState("confirmed")' = InState("confirmed") /\ InState("failed")' = InState("failed")
  BY DEF InState, Terminal
<1> QED
  BY <1>1 DEF RollupInv

LEMMA RollupMove ==
    ASSUME TypeOK, RollupInv, UNCHANGED rollup, NEW j \in Jobs, NEW s, SetJob(j, s),
           jobStatus[j] \notin Terminal, s \notin Terminal
    PROVE  RollupInv'
<1>1. \A k \in Jobs : jobStatus'[k] = IF k = j THEN s ELSE jobStatus[k]
  BY DEF SetJob, TypeOK
<1> QED
  BY <1>1, RollupSame

LEMMA RollupCancel ==
    ASSUME TypeOK, RollupInv, NEW j \in Jobs, CancelConfirmed(j)
    PROVE  RollupInv'
BY RollupUp, RollupSame DEF CancelConfirmed, FailNow, Terminal

LEMMA RollupStep ==
    ASSUME TypeOK, RollupInv, [StoreNext]_storeVars
    PROVE  RollupInv'
<1> USE AttemptColumns, StoreConstants DEF Owners
<1>1. CASE \/ BumpEpoch \/ FailUnboundTopups \/ UNCHANGED storeVars
           \/ \E t \in Topups : CreateTopup(t) \/ FailTopup(t)
  BY <1>1, RollupSame DEF BumpEpoch, FailUnboundTopups, storeVars, CreateTopup, FailTopup
<1>2. ASSUME NEW j \in Jobs, FailJob(j) PROVE RollupInv'
  BY <1>2, RollupUp DEF FailJob, FailNow, Terminal
<1>3. ASSUME NEW e, NEW a \in Attempts, NEW kind \in BindKinds, BindAttempt(e, a, kind)
      PROVE  RollupInv'
  <2>1. CASE a.owner \in Jobs
    <3>1. jobStatus[a.owner] \in {"queued", "sent", "cancelling"} /\ UNCHANGED rollup
      BY <1>3, <2>1 DEF BindAttempt, Bindable
    <3>2. \E s \in {"sent", "cancelling", jobStatus[a.owner]} : SetJob(a.owner, s)
      BY <1>3, <2>1 DEF BindAttempt, BoundOwner, BindKinds
    <3> QED
      BY <2>1, <3>1, <3>2, RollupMove DEF Terminal
  <2>2. CASE a.owner \in Topups
    BY <1>3, <2>2, RollupSame DEF BindAttempt, BoundOwner
  <2> QED
    BY <2>1, <2>2
<1>4. ASSUME NEW a \in Attempts, SettleInclusion(a) PROVE RollupInv'
  <2>1. CASE a.owner \in Jobs /\ a.purpose = "job"
    BY <1>4, <2>1, RollupMove DEF SettleInclusion, InclusionConflict, Terminal
  <2>2. CASE ~(a.owner \in Jobs /\ a.purpose = "job")
    BY <1>4, <2>2, RollupSame DEF SettleInclusion
  <2> QED
    BY <2>1, <2>2
<1>5. ASSUME NEW a \in Attempts, SettleConfirmation(a) PROVE RollupInv'
  <2>1. CASE a.owner \in Jobs /\ a.purpose = "job"
    BY <1>5, <2>1, RollupUp, RollupSame DEF SettleConfirmation, Terminal
  <2>2. CASE a.owner \in Jobs /\ a.purpose # "job"
    BY <1>5, <2>2, RollupCancel DEF SettleConfirmation
  <2>3. CASE a.owner \in Topups
    BY <1>5, <2>3, RollupSame DEF SettleConfirmation
  <2> QED
    BY <2>1, <2>2, <2>3
<1>6. ASSUME NEW a \in Attempts, SettleFinal(a) PROVE RollupInv'
  <2>1. CASE a.owner \in Jobs /\ a.purpose = "job"
    BY <1>6, <2>1, RollupUp DEF SettleFinal, InclusionConflict, Terminal
  <2>2. CASE a.owner \in Jobs /\ a.purpose # "job"
    BY <1>6, <2>2, RollupCancel DEF SettleFinal
  <2>3. CASE a.owner \in Topups
    BY <1>6, <2>3, RollupSame DEF SettleFinal
  <2> QED
    BY <2>1, <2>2, <2>3
<1>7. ASSUME NEW a \in Attempts, DemoteInclusion(a) PROVE RollupInv'
  <2>1. CASE a.owner \in Jobs /\ a.purpose = "job"
    <3>1. CASE jobStatus[a.owner] = "included"
      BY <1>7, <2>1, <3>1, RollupMove DEF DemoteInclusion, Terminal
    <3>2. CASE jobStatus[a.owner] # "included"
      BY <1>7, <2>1, <3>2, RollupSame DEF DemoteInclusion, SetJob, TypeOK
    <3> QED
      BY <3>1, <3>2
  <2>2. CASE ~(a.owner \in Jobs /\ a.purpose = "job")
    BY <1>7, <2>2, RollupSame DEF DemoteInclusion
  <2> QED
    BY <2>1, <2>2
<1>8. ASSUME NEW e, NEW a \in Attempts, NEW mode, NEW d \in Dispositions, VoidBinding(e, a, mode, d)
      PROVE  RollupInv'
  <2>1. CASE a.owner \in Jobs /\ d = "Requeue"
    <3>1. CASE jobStatus[a.owner] \in {"sent", "cancelling"}
      BY <1>8, <2>1, <3>1, RollupMove DEF VoidBinding, Terminal
    <3>2. CASE jobStatus[a.owner] \notin {"sent", "cancelling"}
      BY <1>8, <2>1, <3>2, RollupSame DEF VoidBinding, SetJob, TypeOK
    <3> QED
      BY <3>1, <3>2
  <2>2. CASE a.owner \in Jobs /\ d = "Fail"
    BY <1>8, <2>2, RollupUp, RollupSame DEF VoidBinding, FailNow, Terminal
  <2>3. CASE a.owner \in Topups
    BY <1>8, <2>3, RollupSame DEF VoidBinding
  <2> QED
    BY <2>1, <2>2, <2>3 DEF Dispositions
<1> QED
  BY <1>1, <1>2, <1>3, <1>4, <1>5, <1>6, <1>7, <1>8 DEF StoreNext

\* stats_rollup counts every confirmed and every failed job exactly once.
THEOREM RollupIsExact == StoreSpec => []RollupCountsTerminalJobs
<1>1. StoreInit => RollupInv
  <2> SUFFICES ASSUME StoreInit PROVE RollupInv
    OBVIOUS
  <2>1. InState("confirmed") = {} /\ InState("failed") = {}
    BY DEF StoreInit, InState
  <2> QED
    BY <2>1, CountZero DEF StoreInit, RollupInv
<1>2. TypeOK /\ RollupInv /\ [StoreNext]_storeVars => RollupInv'
  BY RollupStep
<1>3. RollupInv => RollupCountsTerminalJobs
  BY DEF RollupInv, RollupCountsTerminalJobs, Counts, InState
<1> QED
  BY <1>1, <1>2, <1>3, TypeCorrect, PTL DEF StoreSpec
=============================================================================
