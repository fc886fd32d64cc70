----------------------- MODULE AttemptStoreRefinement -----------------------
(* The store implements the clients' contract, for every set of jobs,      *)
(* top-ups and pairs and every bound.                                      *)
EXTENDS AttemptStoreProofs

\* jobs.webhook_seq is the number of events in the outbox.
SeqInv == \A j \in Jobs : webhookSeq[j] = Len(outbox[j])

\* A move of the job row is a move of what the client sees.
LEMMA MoveShown ==
    ASSUME TypeOK, NEW j \in Jobs, NEW from, Shown(jobStatus[j]) \in from,
           NEW s, SetJob(j, s)
    PROVE  Contract!Move(j, from, Shown(s))
BY DEF TypeOK, SetJob, Contract!Move

\* The row outbox::enqueue inserts is the event the contract announces.
LEMMA AnnounceSaid ==
    ASSUME SeqInv, NEW j \in Jobs, NEW e, Announce(j, e)
    PROVE  Contract!Say(j, e)
<1>1. webhookSeq[j] = Len(outbox[j])
  BY DEF SeqInv
<1>2. Delivery(j, e, webhookSeq[j] + 1) = Contract!Announced(j, e)
  BY <1>1, Zenon DEF Delivery, Contract!Announced
<1> QED
  BY <1>2 DEF Announce, Contract!Say

LEMMA AnnounceCounted ==
    ASSUME TypeOK, SeqInv, NEW j \in Jobs, NEW e \in Events, Announce(j, e)
    PROVE  SeqInv'
<1>1. \A k \in Jobs : outbox[k] \in Seq(Row) /\ webhookSeq[k] \in Nat
  BY DEF TypeOK
<1>2. Len(Append(outbox[j], Delivery(j, e, webhookSeq[j] + 1))) = Len(outbox[j]) + 1
  BY <1>1
<1> QED
  BY <1>1, <1>2 DEF SeqInv, Announce, TypeOK

LEMMA SilentCounted ==
    ASSUME SeqInv, Silent PROVE SeqInv'
BY DEF SeqInv, Silent

\* What a transaction does to one job, as the client sees it.
Steps == SeqInv' /\ [Contract!ContractNext]_(Contract!contractVars)

LEMMA Unseen ==
    ASSUME SeqInv, Silent, \A j \in Jobs : Shown(jobStatus'[j]) = Shown(jobStatus[j])
    PROVE  Steps
BY SilentCounted DEF Steps, Silent, Contract!contractVars

LEMMA FailSeen ==
    ASSUME StoreInv, SeqInv, NEW j \in Jobs, FailNow(j),
           jobStatus[j] \in {"queued", "sent", "cancelling"}
    PROVE  Steps
<1>1. Contract!Move(j, {"queued", "sent"}, Shown("failed"))
  BY MoveShown DEF StoreInv, FailNow, Shown
<1>2. Contract!Say(j, "failed") /\ SeqInv'
  BY AnnounceSaid, AnnounceCounted DEF StoreInv, FailNow, Events
<1> QED
  BY <1>1, <1>2 DEF Steps, Shown, Contract!ContractNext, Contract!Fail

LEMMA BindSeen ==
    ASSUME StoreInv, SeqInv, NEW a \in Attempts, NEW kind \in BindKinds, NEW e,
           BindAttempt(e, a, kind)
    PROVE  Steps
<1> USE AttemptColumns
<1>1. Silent /\ TypeOK
  BY DEF BindAttempt, Silent, StoreInv
<1>2. CASE a.owner \in Jobs /\ kind = "First"
  <2>1. SetJob(a.owner, "sent") /\ jobStatus[a.owner] = "queued"
    BY <1>2, StoreConstants DEF BindAttempt, BoundOwner, Bindable
  <2>2. Contract!Move(a.owner, {"queued"}, Shown("sent"))
    BY <1>1, <1>2, <2>1, MoveShown DEF Shown
  <2> QED
    BY <1>1, <1>2, <2>2, SilentCounted DEF Silent, Steps, Shown, Contract!ContractNext, Contract!Send
<1>3. CASE a.owner \in Jobs /\ kind # "First"
  <2>1. jobStatus[a.owner] \in {"sent", "cancelling"}
    BY <1>3, StoreConstants DEF BindAttempt, Bindable
  <2>2. SetJob(a.owner, "cancelling") \/ SetJob(a.owner, jobStatus[a.owner])
    BY <1>3, StoreConstants DEF BindAttempt, BoundOwner, BindKinds
  <2> QED
    BY <1>1, <2>1, <2>2, Unseen DEF Shown, SetJob, TypeOK
<1>4. CASE a.owner \in Topups
  BY <1>1, <1>4, StoreConstants, Unseen DEF BindAttempt, BoundOwner
<1> QED
  BY <1>2, <1>3, <1>4 DEF Owners

\* The owner's part of a cancel that is confirmed: the job fails, or nothing.
LEMMA CancelSeen ==
    ASSUME StoreInv, SeqInv, NEW j \in Jobs, CancelConfirmed(j)
    PROVE  Steps
<1>1. CASE jobStatus[j] = "cancelling"
  BY <1>1, FailSeen DEF CancelConfirmed
<1>2. CASE jobStatus[j] # "cancelling"
  BY <1>2, Unseen DEF CancelConfirmed
<1> QED
  BY <1>1, <1>2

LEMMA SettleInclusionSeen ==
    ASSUME StoreInv, SeqInv, NEW a \in Attempts, SettleInclusion(a)
    PROVE  Steps
<1> USE AttemptColumns
<1>1. CASE a.owner \in Jobs /\ a.purpose = "job"
  <2>1. /\ jobStatus[a.owner] \in {"sent", "cancelling"}
        /\ SetJob(a.owner, "included") /\ Announce(a.owner, "included")
    BY <1>1, StoreConstants DEF SettleInclusion, InclusionConflict
  <2>2. Contract!Move(a.owner, {"sent"}, Shown("included"))
    BY <1>1, <2>1, MoveShown DEF StoreInv, Shown
  <2>3. Contract!Say(a.owner, "included") /\ SeqInv'
    BY <1>1, <2>1, AnnounceSaid, AnnounceCounted DEF StoreInv, Events
  <2> QED
    BY <1>1, <2>2, <2>3 DEF Steps, Shown, Contract!ContractNext, Contract!Include
<1>2. CASE ~(a.owner \in Jobs /\ a.purpose = "job")
  BY <1>2, Unseen DEF SettleInclusion
<1> QED
  BY <1>1, <1>2

LEMMA SettleConfirmationSeen ==
    ASSUME StoreInv, SeqInv, NEW a \in Attempts, SettleConfirmation(a)
    PROVE  Steps
<1> USE AttemptColumns
<1>1. CASE a.owner \in Jobs /\ a.purpose = "job"
  <2>1. jobStatus[a.owner] = "included"
    BY <1>1 DEF SettleConfirmation, StoreInv, AttemptsDriveJob
  <2>2. SetJob(a.owner, "confirmed") /\ Announce(a.owner, "confirmed")
    BY <1>1, <2>1, StoreConstants DEF SettleConfirmation
  <2>3. Contract!Move(a.owner, {"included"}, Shown("confirmed"))
    BY <1>1, <2>1, <2>2, MoveShown DEF StoreInv, Shown
  <2>4. Contract!Say(a.owner, "confirmed") /\ SeqInv'
    BY <1>1, <2>2, AnnounceSaid, AnnounceCounted DEF StoreInv, Events
  <2> QED
    BY <1>1, <2>3, <2>4 DEF Steps, Shown, Contract!ContractNext, Contract!Confirm
<1>2. CASE a.owner \in Jobs /\ a.purpose # "job"
  BY <1>2, StoreConstants, CancelSeen DEF SettleConfirmation
<1>3. CASE a.owner \in Topups
  BY <1>3, StoreConstants, Unseen DEF SettleConfirmation
<1> QED
  BY <1>1, <1>2, <1>3 DEF Owners

LEMMA SettleFinalSeen ==
    ASSUME StoreInv, SeqInv, NEW a \in Attempts, SettleFinal(a)
    PROVE  Steps
<1> USE AttemptColumns
<1>1. CASE a.owner \in Jobs /\ a.purpose = "job"
  <2> DEFINE j == a.owner
             first == Delivery(j, "included", webhookSeq[j] + 1)
             second == Delivery(j, "confirmed", webhookSeq[j] + 2)
             seen == [event |-> "confirmed", sequence |-> Len(outbox[j]) + 2, reincluded |-> FALSE]
  <2>1. /\ jobStatus[j] \in {"sent", "cancelling"} /\ SetJob(j, "confirmed")
        /\ webhookSeq' = [webhookSeq EXCEPT ![j] = @ + 2]
        /\ outbox' = [outbox EXCEPT ![j] = Append(Append(@, first), second)]
    BY <1>1, StoreConstants DEF SettleFinal, InclusionConflict
  <2>2. Contract!Move(j, {"sent"}, Shown("confirmed"))
    BY <1>1, <2>1, MoveShown DEF StoreInv, Shown
  <2>3. webhookSeq[j] = Len(outbox[j])
    BY <1>1 DEF SeqInv
  <2>4. first = Contract!Announced(j, "included")
    BY <2>3, Zenon DEF Delivery, Contract!Announced
  <2>5. second = seen
    BY <2>3 DEF Delivery
  <2>6. Contract!IncludeFinal(j)
    BY <2>1, <2>2, <2>4, <2>5 DEF Contract!IncludeFinal, Shown
  <2>7. SeqInv'
    <3>1. \A k \in Jobs : outbox[k] \in Seq(Row) /\ webhookSeq[k] \in Nat
      BY DEF StoreInv, TypeOK
    <3>2. Len(Append(Append(outbox[j], first), second)) = Len(outbox[j]) + 2
      BY <3>1, <1>1
    <3> HIDE DEF first, second
    <3> QED
      BY <2>1, <2>3, <3>1, <3>2 DEF StoreInv, SeqInv, TypeOK
  <2> QED
    BY <1>1, <2>6, <2>7 DEF Steps, Contract!ContractNext
<1>2. CASE a.owner \in Jobs /\ a.purpose # "job"
  BY <1>2, StoreConstants, CancelSeen DEF SettleFinal
<1>3. CASE a.owner \in Topups
  BY <1>3, StoreConstants, Unseen DEF SettleFinal
<1> QED
  BY <1>1, <1>2, <1>3 DEF Owners

LEMMA DemoteSeen ==
    ASSUME StoreInv, SeqInv, NEW a \in Attempts, DemoteInclusion(a)
    PROVE  Steps
<1> USE AttemptColumns
<1>1. Silent
  BY DEF DemoteInclusion, Silent
<1>2. CASE a.owner \in Jobs /\ a.purpose = "job"
  <2>1. jobStatus[a.owner] = "included" /\ SetJob(a.owner, "sent")
    BY <1>2, StoreConstants DEF DemoteInclusion, StoreInv, AttemptsDriveJob
  <2>2. Contract!Move(a.owner, {"included"}, Shown("sent"))
    BY <1>2, <2>1, MoveShown DEF StoreInv, Shown
  <2> QED
    BY <1>1, <1>2, <2>2, SilentCounted DEF Silent, Steps, Shown, Contract!ContractNext, Contract!Demote
<1>3. CASE ~(a.owner \in Jobs /\ a.purpose = "job")
  BY <1>1, <1>3, Unseen DEF DemoteInclusion
<1> QED
  BY <1>2, <1>3

LEMMA VoidSeen ==
    ASSUME StoreInv, SeqInv, NEW a \in Attempts, NEW mode \in VoidModes, NEW d \in Dispositions,
           NEW e, VoidCaller(a, mode, d), VoidBinding(e, a, mode, d)
    PROVE  Steps
<1> USE AttemptColumns
<1>1. a.owner \in Jobs => jobStatus[a.owner] \in {"sent", "cancelling"}
  BY JobPurposes DEF VoidCaller, StoreInv, AttemptsDriveJob, Live
<1>2. CASE a.owner \in Jobs /\ d = "Requeue"
  <2>1. SetJob(a.owner, "queued") /\ Silent
    BY <1>1, <1>2, StoreConstants DEF VoidBinding
  <2>2. Contract!Move(a.owner, {"sent"}, Shown("queued"))
    BY <1>1, <1>2, <2>1, MoveShown DEF StoreInv, Shown
  <2> QED
    BY <1>2, <2>1, <2>2, SilentCounted DEF Silent, Steps, Shown, Contract!ContractNext, Contract!Requeue
<1>3. CASE a.owner \in Jobs /\ d = "Fail"
  <2>1. FailNow(a.owner)
    BY <1>1, <1>3, StoreConstants DEF VoidBinding
  <2> QED
    BY <1>1, <1>3, <2>1, FailSeen
<1>4. CASE a.owner \in Topups
  BY <1>4, StoreConstants, Unseen DEF VoidBinding
<1> QED
  BY <1>2, <1>3, <1>4 DEF Owners, Dispositions

LEMMA StoreSteps ==
    ASSUME StoreInv, SeqInv, [StoreNext]_storeVars
    PROVE  Steps
<1>1. CASE BumpEpoch \/ FailUnboundTopups \/ UNCHANGED storeVars
  BY <1>1, Unseen DEF BumpEpoch, FailUnboundTopups, storeVars, Silent
<1>2. ASSUME NEW j \in Jobs, FailJob(j) PROVE Steps
  BY <1>2, FailSeen DEF FailJob
<1>3. ASSUME NEW t \in Topups, CreateTopup(t) \/ FailTopup(t) PROVE Steps
  BY <1>3, Unseen DEF CreateTopup, FailTopup, Silent
<1> QED
  BY <1>1, <1>2, <1>3, BindSeen, SettleInclusionSeen, SettleConfirmationSeen,
     SettleFinalSeen, DemoteSeen, VoidSeen DEF StoreNext

\* Binding, settling, confirming, demoting and voiding, in any order the
\* callers can produce, show every client a legal history of its job.
THEOREM StoreKeepsContract == StoreSpec => KeepsContract
<1>1. StoreInit => SeqInv /\ Contract!ContractInit
  BY DEF StoreInit, SeqInv, Contract!ContractInit, Shown
<1>2. StoreInv /\ SeqInv /\ [StoreNext]_storeVars => Steps
  BY StoreSteps
<1>3. StoreSpec => [](StoreInv /\ SeqInv)
  BY <1>1, <1>2, StoreIsSafe, PTL DEF StoreSpec, Steps
<1> QED
  BY <1>1, <1>2, <1>3, PTL DEF StoreSpec, Steps, KeepsContract, Contract!ContractSpec

-----------------------------------------------------------------------------
(* What the contract says about the outbox, carried over to the store.     *)

Told == INSTANCE JobContractProofs
    WITH state <- [j \in Jobs |-> Shown(jobStatus[j])], log <- outbox

LEMMA CounterCounts == StoreSpec => []SeqInv
<1>1. StoreInit => SeqInv
  BY DEF StoreInit, SeqInv
<1>2. StoreInv /\ SeqInv /\ [StoreNext]_storeVars => SeqInv'
  BY StoreSteps DEF Steps
<1> QED
  BY <1>1, <1>2, StoreIsSafe, PTL DEF StoreSpec

\* The webhook events of a job are numbered without gaps, end with its
\* terminal status and mark exactly the repeated inclusions.
THEOREM OutboxIsAStory == StoreSpec => []OutboxTellsTheStory
<1>1. Contract!ContractInit => Told!ContractInit
  BY DEF Contract!ContractInit, Told!ContractInit
<1>2. [Contract!ContractNext]_(Contract!contractVars) => [Told!ContractNext]_(Told!contractVars)
  BY DEF Contract!ContractNext, Told!ContractNext, Contract!contractVars, Told!contractVars,
         Contract!Send, Told!Send, Contract!Requeue, Told!Requeue, Contract!Include, Told!Include,
         Contract!Demote, Told!Demote, Contract!Confirm, Told!Confirm,
         Contract!IncludeFinal, Told!IncludeFinal, Contract!Fail, Told!Fail,
         Contract!Move, Told!Move, Contract!Say, Told!Say, Contract!Announced, Told!Announced
<1>3. StoreSpec => Told!ContractSpec
  BY <1>1, <1>2, StoreKeepsContract, PTL
     DEF KeepsContract, Contract!ContractSpec, Told!ContractSpec
<1>4. StoreSpec => []Told!LogTellsTheStory
  BY <1>3, Told!ContractTellsTheStory, PTL
<1>5. TypeOK /\ SeqInv /\ Told!LogTellsTheStory => OutboxTellsTheStory
  <2> SUFFICES ASSUME TypeOK, SeqInv, Told!LogTellsTheStory, NEW j \in Jobs
               PROVE  /\ webhookSeq[j] = Len(outbox[j])
                      /\ \A i \in DOMAIN outbox[j] :
                           LET row == outbox[j][i] IN
                           /\ row.sequence = i
                           /\ row.event \in Terminal => i = Len(outbox[j]) /\ jobStatus[j] = row.event
                           /\ row.event = "confirmed" => i > 1 /\ outbox[j][i - 1].event = "included"
                           /\ row.reincluded <=> (row.event = "included" /\ i > 1)
                      /\ jobStatus[j] \in Terminal =>
                           outbox[j] # <<>> /\ outbox[j][Len(outbox[j])].event = jobStatus[j]
                      /\ jobStatus[j] = "included" =>
                           outbox[j] # <<>> /\ outbox[j][Len(outbox[j])].event = "included"
    BY DEF OutboxTellsTheStory
  <2>1. webhookSeq[j] = Len(outbox[j]) /\ DOMAIN outbox[j] = 1 .. Len(outbox[j])
    BY DEF SeqInv, TypeOK
  <2>2. Told!Story(Shown(jobStatus[j]), outbox[j])
    BY DEF Told!LogTellsTheStory
  <2>3. \A s \in Terminal \cup {"included"} : Shown(jobStatus[j]) = s <=> jobStatus[j] = s
    BY DEF Shown, Terminal
  <2>4. ASSUME NEW i \in DOMAIN outbox[j]
        PROVE  LET row == outbox[j][i] IN
               /\ row.sequence = i
               /\ row.event \in Terminal => i = Len(outbox[j]) /\ jobStatus[j] = row.event
               /\ row.event = "confirmed" => i > 1 /\ outbox[j][i - 1].event = "included"
               /\ row.reincluded <=> (row.event = "included" /\ i > 1)
    BY <2>1, <2>2, <2>3 DEF Told!Story, Told!Ends, Terminal
  <2>5. Len(<<>>) = 0
    OBVIOUS
  <2>6. jobStatus[j] \in Terminal \cup {"included"} =>
          outbox[j] # <<>> /\ outbox[j][Len(outbox[j])].event = jobStatus[j]
    BY <2>2, <2>3, <2>5 DEF Told!Story, Told!Ends, Terminal
  <2> QED
    BY <2>1, <2>4, <2>6 DEF Terminal
<1> QED
  BY <1>4, <1>5, TypeCorrect, CounterCounts, PTL

\* A job that is confirmed or failed never changes again and announces
\* nothing more, whatever settlement still arrives for its attempts.
THEOREM TerminalStaysTerminal == StoreSpec => TerminalIsForever
<1> DEFINE Kept == \A j \in Jobs : jobStatus[j] \in Terminal =>
                      jobStatus'[j] = jobStatus[j] /\ outbox'[j] = outbox[j]
<1>1. TypeOK /\ SeqInv /\ StoreInv /\ [StoreNext]_storeVars => Kept
  <2> SUFFICES ASSUME TypeOK, SeqInv, StoreInv, [StoreNext]_storeVars,
                      NEW k \in Jobs, jobStatus[k] \in Terminal
               PROVE  jobStatus'[k] = jobStatus[k] /\ outbox'[k] = outbox[k]
    OBVIOUS
  <2>1. CASE UNCHANGED Contract!contractVars
    BY <2>1 DEF Contract!contractVars, Shown, Terminal
  <2>2. ASSUME NEW j \in Jobs, NEW s, jobStatus[j] \notin Terminal,
               [i \in Jobs |-> Shown(jobStatus[i])]' = [[i \in Jobs |-> Shown(jobStatus[i])] EXCEPT ![j] = s],
               outbox' = outbox \/ \E r : outbox' = [outbox EXCEPT ![j] = r]
        PROVE  jobStatus'[k] = jobStatus[k] /\ outbox'[k] = outbox[k]
    BY <2>2 DEF Shown, Terminal, TypeOK
  <2>3. ASSUME NEW j \in Jobs, Contract!Send(j) \/ Contract!Requeue(j) \/ Contract!Demote(j)
        PROVE  jobStatus'[k] = jobStatus[k] /\ outbox'[k] = outbox[k]
    BY <2>2, <2>3 DEF Contract!Send, Contract!Requeue, Contract!Demote, Contract!Move, Shown, Terminal
  <2>4. ASSUME NEW j \in Jobs,
               Contract!Include(j) \/ Contract!Confirm(j) \/ Contract!Fail(j) \/ Contract!IncludeFinal(j)
        PROVE  jobStatus'[k] = jobStatus[k] /\ outbox'[k] = outbox[k]
    BY <2>2, <2>4 DEF Contract!Include, Contract!Confirm, Contract!Fail, Contract!IncludeFinal,
                      Contract!Move, Contract!Say, Shown, Terminal
  <2> QED
    BY <2>1, <2>3, <2>4, StoreSteps DEF Steps, Contract!ContractNext
<1>2. TypeOK /\ SeqInv /\ StoreInv /\ [StoreNext]_storeVars => [Kept]_storeVars
  BY <1>1
<1> HIDE DEF Kept
<1>3. StoreSpec => [][Kept]_storeVars
  BY <1>2, TypeCorrect, CounterCounts, StoreIsSafe, PTL DEF StoreSpec
<1> QED
  BY <1>3 DEF Kept, TerminalIsForever
=============================================================================
