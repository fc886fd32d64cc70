---------------------------- MODULE AttemptStore ----------------------------
(***************************************************************************)
(* The durable life of jobs, top-ups and signed transactions: the tables   *)
(* of store/attempts.rs and the transactions that write them.  Every       *)
(* action below is one Postgres transaction, so it is one atomic step.     *)
(*                                                                         *)
(* An attempt is a signed transaction.  What is signed never changes, so   *)
(* an attempt is a record of its immutable columns, and the mutable ones   *)
(* (status, raw_tx) are functions over the set of all attempts that could  *)
(* ever be signed.  A status of "absent" means that there is no such row.  *)
(*                                                                         *)
(* Callers are not modelled here.  A settlement, a confirmation or a       *)
(* demotion is not gated on the lease, so a superseded leader can still    *)
(* issue one for any attempt it remembers: these actions may be taken for  *)
(* any attempt, in any order.  Binding and voiding are gated on the lease  *)
(* epoch and obey the driver's discipline, written down as BindCaller and  *)
(* VoidCaller; module Relay checks that the driver keeps it.               *)
(***************************************************************************)
EXTENDS Integers, Sequences, FiniteSets

CONSTANTS
    Jobs,       \* job ids
    Topups,     \* top-up ids
    Pairs,      \* (signer, chain) pairs
    NoOwner,    \* the owner of a nonce that nobody claimed
    MaxNonce,   \* bound: highest nonce that is ever bound
    MaxSerial,  \* bound: attempts ever signed for one nonce
    MaxEpoch,   \* bound: how often leadership changes hands
    MaxEvents   \* bound: webhook events of one job (caps re-inclusions)

ASSUME StoreConstants ==
    /\ Jobs \cap Topups = {}
    /\ NoOwner \notin Jobs \cup Topups
    /\ MaxNonce \in Nat /\ MaxSerial \in Nat
    /\ MaxEpoch \in Nat /\ MaxEvents \in Nat

VARIABLES
    jobStatus,    \* jobs.status
    topupStatus,  \* topups.status
    status,       \* tx_attempts.status, "absent" when there is no row
    raw,          \* tx_attempts.raw_tx is present
    slot,         \* nonce_slots.owner_id
    hwm,          \* pairs.nonce_hwm, -1 for NULL
    epoch,        \* lease_epoch.epoch
    gas,          \* gas_ledger.tx_count per pair and purpose
    rollup,       \* stats_rollup.count per terminal bucket
    webhookSeq,   \* jobs.webhook_seq
    outbox        \* webhook_deliveries of a job, in insertion order

storeVars == <<jobStatus, topupStatus, status, raw, slot, hwm, epoch, gas,
               rollup, webhookSeq, outbox>>

Owners   == Jobs \cup Topups
Nonces   == 0 .. MaxNonce
Serials  == 1 .. MaxSerial
Purposes == {"job", "topup", "cancel"}

JobStatus == {"queued", "sent", "included", "confirmed", "cancelling", "failed"}
TopupStatus == {"absent", "requested", "sent", "included", "confirmed", "failed"}
AttemptStatus == {"broadcast", "included", "confirmed", "replaced", "dropped"}
Events == {"included", "confirmed", "failed"}

Attempt == [pair : Pairs, nonce : Nonces, owner : Owners, purpose : Purposes,
            serial : Serials]

Attempts == {a \in Attempt : /\ a.purpose = "job" => a.owner \in Jobs
                             /\ a.purpose = "topup" => a.owner \in Topups}

Terminal == {"confirmed", "failed"}
Mined    == {"included", "confirmed"}
Live     == {"broadcast", "included"}

SameNonce(a, b) == a.pair = b.pair /\ a.nonce = b.nonce

\* The attempts of one nonce, and the ones the ledger should have counted.
AttemptsAt(p, n) == {a \in Attempts : a.pair = p /\ a.nonce = n}
MinedBy(p, u) == {a \in Attempts : a.pair = p /\ a.purpose = u /\ status[a] \in Mined}

-----------------------------------------------------------------------------
(* Pieces of a transaction: the statements several transactions share.     *)

\* Mutant of Delivery: nobody looks for an earlier "included".
DeliveryPlain(j, e, seq) == [event |-> e, sequence |-> seq, reincluded |-> FALSE]

\* outbox::enqueue: the row carries the sequence number the job row just
\* received; a second "included" of a job says that it is a re-inclusion.
Delivery(j, e, seq) ==
    [event |-> e, sequence |-> seq,
     reincluded |-> e = "included" /\ \E i \in DOMAIN outbox[j] : outbox[j][i].event = "included"]

\* Mutant of Announce: jobs.webhook_seq is read and not raised.
AnnounceUnnumbered(j, e) ==
    /\ UNCHANGED webhookSeq
    /\ outbox' = [outbox EXCEPT ![j] = Append(@, Delivery(j, e, webhookSeq[j] + 1))]

Announce(j, e) ==
    /\ webhookSeq' = [webhookSeq EXCEPT ![j] = @ + 1]
    /\ outbox' = [outbox EXCEPT ![j] = Append(@, Delivery(j, e, webhookSeq[j] + 1))]

Silent == UNCHANGED <<webhookSeq, outbox>>

\* Mutant of AddGas: a negative count is clamped to zero before it is added.
AddGasClamped(p, u, d) == gas' = [gas EXCEPT ![p][u] = @ + (IF d > 0 THEN d ELSE 0)]

\* misc::add_gas and misc::bump_rollup.
AddGas(p, u, d) == gas' = [gas EXCEPT ![p][u] = @ + d]
BumpRollup(b) == rollup' = [rollup EXCEPT ![b] = @ + 1]

SetJob(j, s) == jobStatus' = [jobStatus EXCEPT ![j] = s]
SetTopup(t, s) == topupStatus' = [topupStatus EXCEPT ![t] = s]

\* UPDATE topups SET status = s WHERE id = t AND status = from.
MoveTopup(t, from, s) ==
    topupStatus' = [topupStatus EXCEPT ![t] = IF @ = from THEN s ELSE @]

\* Mutant of FailNow: the rollup is forgotten.
FailUncounted(j) == SetJob(j, "failed") /\ Announce(j, "failed") /\ UNCHANGED rollup

\* Marks a job failed, with its event and its rollup.
FailNow(j) == SetJob(j, "failed") /\ Announce(j, "failed") /\ BumpRollup("failed")

-----------------------------------------------------------------------------
(* Leadership, jobs and top-ups.                                           *)

StoreInit ==
    /\ jobStatus = [j \in Jobs |-> "queued"]
    /\ topupStatus = [t \in Topups |-> "absent"]
    /\ status = [a \in Attempts |-> "absent"]
    /\ raw = [a \in Attempts |-> FALSE]
    /\ slot = [p \in Pairs |-> [n \in Nonces |-> NoOwner]]
    /\ hwm = [p \in Pairs |-> -1]
    /\ epoch = 0
    /\ gas = [p \in Pairs |-> [u \in Purposes |-> 0]]
    /\ rollup = [b \in {"mined", "failed"} |-> 0]
    /\ webhookSeq = [j \in Jobs |-> 0]
    /\ outbox = [j \in Jobs |-> <<>>]

\* Lease::acquire bumps the fencing epoch.
BumpEpoch ==
    /\ epoch < MaxEpoch
    /\ epoch' = epoch + 1
    /\ UNCHANGED <<jobStatus, topupStatus, status, raw, slot, hwm, gas, rollup,
                   webhookSeq, outbox>>

\* Mutant of FailJob: the status is not checked.
FailAnyJob(j) ==
    /\ webhookSeq[j] < MaxEvents
    /\ FailNow(j)
    /\ UNCHANGED <<topupStatus, status, raw, slot, hwm, epoch, gas>>

\* Store::fail_job with from = [Queued]: every caller, cancel_queued
\* included, fails a job only while it is queued.
FailJob(j) ==
    /\ jobStatus[j] = "queued"
    /\ webhookSeq[j] < MaxEvents
    /\ FailNow(j)
    /\ UNCHANGED <<topupStatus, status, raw, slot, hwm, epoch, gas>>

CreateTopup(t) ==
    /\ topupStatus[t] = "absent"
    /\ SetTopup(t, "requested")
    /\ UNCHANGED <<jobStatus, status, raw, slot, hwm, epoch, gas, rollup,
                   webhookSeq, outbox>>

\* Store::fail_topup; fail_unbound_topups does the same to every such row.
FailTopup(t) ==
    /\ topupStatus[t] = "requested"
    /\ SetTopup(t, "failed")
    /\ UNCHANGED <<jobStatus, status, raw, slot, hwm, epoch, gas, rollup,
                   webhookSeq, outbox>>

FailUnboundTopups ==
    /\ \E t \in Topups : topupStatus[t] = "requested"
    /\ topupStatus' = [t \in Topups |->
          IF topupStatus[t] = "requested" THEN "failed" ELSE topupStatus[t]]
    /\ UNCHANGED <<jobStatus, status, raw, slot, hwm, epoch, gas, rollup,
                   webhookSeq, outbox>>

-----------------------------------------------------------------------------
(* Store::bind_attempt.  A bind that is fenced, finds its slot taken or    *)
(* finds its owner in another state rolls back and changes nothing.        *)

BindKinds == {"First", "Replacement", "Cancel"}

\* Mutant of SlotGranted: a first bind takes the slot whoever holds it.
SlotSeized(a, kind) == kind = "First" \/ slot[a.pair][a.nonce] = a.owner

SlotGranted(a, kind) ==
    slot[a.pair][a.nonce] = (IF kind = "First" THEN NoOwner ELSE a.owner)

\* Mutant of Bindable: a first bind accepts a job that is already in flight.
BindableAgain(a, kind) ==
    \/ a.owner \in Jobs /\ jobStatus[a.owner] \in {"queued", "sent", "cancelling"}
    \/ a.owner \in Topups /\ topupStatus[a.owner] \in {"requested", "sent"}

Bindable(a, kind) ==
    \/ /\ a.owner \in Jobs
       /\ jobStatus[a.owner] \in (IF kind = "First" THEN {"queued"} ELSE {"sent", "cancelling"})
    \/ /\ a.owner \in Topups
       /\ topupStatus[a.owner] = (IF kind = "First" THEN "requested" ELSE "sent")

\* Mutant of BoundOwner: a job counts as failed once its cancel is sent.
BoundOwnerFails(a, kind) ==
    \/ /\ a.owner \in Jobs
       /\ SetJob(a.owner, CASE kind = "First" -> "sent"
                            [] kind = "Cancel" -> "failed"
                            [] OTHER -> jobStatus[a.owner])
       /\ UNCHANGED topupStatus
    \/ /\ a.owner \in Topups
       /\ SetTopup(a.owner, "sent")
       /\ UNCHANGED jobStatus

\* What the owner's row becomes.
BoundOwner(a, kind) ==
    \/ /\ a.owner \in Jobs
       /\ SetJob(a.owner, CASE kind = "First" -> "sent"
                            [] kind = "Cancel" -> "cancelling"
                            [] OTHER -> jobStatus[a.owner])
       /\ UNCHANGED topupStatus
    \/ /\ a.owner \in Topups
       /\ SetTopup(a.owner, "sent")
       /\ UNCHANGED jobStatus

BindAttempt(e, a, kind) ==
    /\ e = epoch
    /\ SlotGranted(a, kind)
    /\ Bindable(a, kind)
    /\ slot' = [slot EXCEPT ![a.pair][a.nonce] = a.owner]
    /\ status' = [status EXCEPT ![a] = "broadcast"]
    /\ raw' = [raw EXCEPT ![a] = TRUE]
    /\ BoundOwner(a, kind)
    /\ hwm' = [hwm EXCEPT ![a.pair] = IF @ < a.nonce THEN a.nonce ELSE @]
    /\ UNCHANGED <<epoch, gas, rollup, webhookSeq, outbox>>

-----------------------------------------------------------------------------
(* Store::settle_inclusion and Store::settle_confirmation.                 *)

\* Mutant of Won: the rivals stay in flight.
WonAlone(a, s) == [status EXCEPT ![a] = s]

\* The attempts after `a` was mined: `a` is in state s, its rivals lost.
Won(a, s) == [b \in Attempts |->
    CASE b = a -> s
      [] b # a /\ SameNonce(a, b) /\ status[b] = "broadcast" -> "replaced"
      [] OTHER -> status[b]]

\* The write fails for good (and is parked in dead_letters): the job is not
\* in flight, or tx_attempts_mined_idx already holds this nonce.
InclusionConflict(a) ==
    \/ a.purpose = "job" /\ jobStatus[a.owner] \notin {"sent", "cancelling"}
    \/ \E b \in Attempts : b # a /\ SameNonce(a, b) /\ status[b] \in Mined

SettleInclusion(a) ==
    /\ status[a] = "broadcast"
    /\ ~InclusionConflict(a)
    /\ a.owner \in Jobs => webhookSeq[a.owner] < MaxEvents
    /\ status' = Won(a, "included")
    /\ AddGas(a.pair, a.purpose, 1)
    /\ \/ /\ a.owner \in Jobs /\ a.purpose = "job"
          /\ SetJob(a.owner, "included") /\ Announce(a.owner, "included")
          /\ UNCHANGED topupStatus
       \/ /\ a.owner \in Jobs /\ a.purpose # "job"
          /\ Silent /\ UNCHANGED <<jobStatus, topupStatus>>
       \/ /\ a.owner \in Topups
          /\ MoveTopup(a.owner, "sent", "included")
          /\ Silent /\ UNCHANGED jobStatus
    /\ UNCHANGED <<raw, slot, hwm, epoch, rollup>>

\* Mutant of Forgotten: the bytes of the whole pair go, not of the nonce.
ForgottenPair(a) == [b \in Attempts |-> raw[b] /\ b.pair # a.pair]

\* raw_tx is dropped once it can never be needed again.
Forgotten(a) == [b \in Attempts |->
    raw[b] /\ b # a /\ ~(SameNonce(a, b) /\ status'[b] = "replaced")]

\* The owner's part of confirm_in_tx for a cancel: only now may the job fail.
CancelConfirmed(j) ==
    IF jobStatus[j] = "cancelling"
      THEN FailNow(j)
      ELSE Silent /\ UNCHANGED <<jobStatus, rollup>>

\* confirm_in_tx
SettleConfirmation(a) ==
    /\ status[a] = "included"
    /\ a.owner \in Jobs => webhookSeq[a.owner] < MaxEvents
    /\ status' = [status EXCEPT ![a] = "confirmed"]
    /\ raw' = Forgotten(a)
    /\ \/ /\ a.owner \in Jobs /\ a.purpose = "job"
          /\ IF jobStatus[a.owner] = "included"
               THEN /\ SetJob(a.owner, "confirmed") /\ Announce(a.owner, "confirmed")
                    /\ BumpRollup("mined")
               ELSE Silent /\ UNCHANGED <<jobStatus, rollup>>
          /\ UNCHANGED topupStatus
       \/ /\ a.owner \in Jobs /\ a.purpose # "job"
          /\ CancelConfirmed(a.owner)
          /\ UNCHANGED topupStatus
       \/ /\ a.owner \in Topups
          /\ MoveTopup(a.owner, "included", "confirmed")
          /\ Silent /\ UNCHANGED <<jobStatus, rollup>>
    /\ UNCHANGED <<slot, hwm, epoch, gas>>

\* settle_inclusion with confirm_now: both in one transaction, for a chain
\* that finalizes on inclusion.
SettleFinal(a) ==
    /\ status[a] = "broadcast"
    /\ ~InclusionConflict(a)
    /\ a.owner \in Jobs => webhookSeq[a.owner] + 1 < MaxEvents
    /\ status' = Won(a, "confirmed")
    /\ raw' = Forgotten(a)
    /\ AddGas(a.pair, a.purpose, 1)
    /\ \/ /\ a.owner \in Jobs /\ a.purpose = "job"
          /\ SetJob(a.owner, "confirmed")
          /\ webhookSeq' = [webhookSeq EXCEPT ![a.owner] = @ + 2]
          /\ outbox' = [outbox EXCEPT ![a.owner] =
                Append(Append(@, Delivery(a.owner, "included", webhookSeq[a.owner] + 1)),
                       Delivery(a.owner, "confirmed", webhookSeq[a.owner] + 2))]
          /\ BumpRollup("mined")
          /\ UNCHANGED topupStatus
       \/ /\ a.owner \in Jobs /\ a.purpose # "job"
          /\ CancelConfirmed(a.owner)
          /\ UNCHANGED topupStatus
       \/ /\ a.owner \in Topups
          /\ topupStatus' = [topupStatus EXCEPT ![a.owner] =
                IF @ \in {"sent", "included"} THEN "confirmed" ELSE @]
          /\ Silent /\ UNCHANGED <<jobStatus, rollup>>
    /\ UNCHANGED <<slot, hwm, epoch>>

-----------------------------------------------------------------------------
(* Store::demote_inclusion and Store::void_binding.                        *)

\* Mutant of DemoteInclusion: the owner's row is left alone.
DemoteAttemptOnly(a) ==
    /\ status[a] = "included"
    /\ status' = [status EXCEPT ![a] = "broadcast"]
    /\ AddGas(a.pair, a.purpose, -1)
    /\ UNCHANGED <<jobStatus, topupStatus, raw, slot, hwm, epoch, rollup, webhookSeq, outbox>>

\* Takes an inclusion back.  Only the attempt and its owner return to where
\* they were: attempts that became "replaced" stay "replaced", and a job
\* that was "cancelling" comes back as "sent".
DemoteInclusion(a) ==
    /\ status[a] = "included"
    /\ status' = [status EXCEPT ![a] = "broadcast"]
    /\ AddGas(a.pair, a.purpose, -1)
    /\ \/ /\ a.owner \in Jobs /\ a.purpose = "job"
          /\ SetJob(a.owner, IF jobStatus[a.owner] = "included" THEN "sent" ELSE jobStatus[a.owner])
          /\ UNCHANGED topupStatus
       \/ /\ a.owner \in Jobs /\ a.purpose # "job"
          /\ UNCHANGED <<jobStatus, topupStatus>>
       \/ /\ a.owner \in Topups
          /\ MoveTopup(a.owner, "included", "sent")
          /\ UNCHANGED jobStatus
    /\ UNCHANGED <<raw, slot, hwm, epoch, rollup, webhookSeq, outbox>>

VoidModes == {"NonceUnused", "NonceTakenByForeignTx"}
Dispositions == {"Requeue", "Fail"}

\* The live attempts of the nonce are dropped for good, with their bytes.
Voided(a, b) == SameNonce(a, b) /\ status[b] = "broadcast"

\* Mutant of ReleaseNonce: the mark steps back one nonce too far.
ReleaseNonceTwice(a) ==
    /\ slot' = [slot EXCEPT ![a.pair][a.nonce] = IF @ = a.owner THEN NoOwner ELSE @]
    /\ hwm' = [hwm EXCEPT ![a.pair] = IF @ = a.nonce THEN a.nonce - 2 ELSE @]

\* NonceUnused gives the nonce back: the slot is released by its owner and
\* the high-water mark steps back if it stands at this nonce.
ReleaseNonce(a) ==
    /\ slot' = [slot EXCEPT ![a.pair][a.nonce] = IF @ = a.owner THEN NoOwner ELSE @]
    /\ hwm' = [hwm EXCEPT ![a.pair] = IF @ = a.nonce THEN a.nonce - 1 ELSE @]

VoidBinding(e, a, mode, disposition) ==
    /\ e = epoch
    /\ status' = [b \in Attempts |-> IF Voided(a, b) THEN "dropped" ELSE status[b]]
    /\ raw' = [b \in Attempts |-> raw[b] /\ ~Voided(a, b)]
    /\ IF mode = "NonceUnused" THEN ReleaseNonce(a) ELSE UNCHANGED <<slot, hwm>>
    /\ \/ /\ a.owner \in Jobs /\ disposition = "Requeue"
          /\ SetJob(a.owner, IF jobStatus[a.owner] \in {"sent", "cancelling"}
                               THEN "queued" ELSE jobStatus[a.owner])
          /\ Silent /\ UNCHANGED <<topupStatus, rollup>>
       \/ /\ a.owner \in Jobs /\ disposition = "Fail"
          /\ webhookSeq[a.owner] < MaxEvents
          /\ IF jobStatus[a.owner] \in {"sent", "cancelling"}
               THEN FailNow(a.owner)
               ELSE Silent /\ UNCHANGED <<jobStatus, rollup>>
          /\ UNCHANGED topupStatus
       \/ /\ a.owner \in Topups
          /\ MoveTopup(a.owner, "sent", "failed")
          /\ Silent /\ UNCHANGED <<jobStatus, rollup>>
    /\ UNCHANGED <<epoch, gas>>

-----------------------------------------------------------------------------
(* The discipline of the driver that binds and voids.                      *)

\* Ids are fresh, and attempts of a nonce are signed one after another.
FreshAttempt(a) ==
    /\ status[a] = "absent"
    /\ {b.serial : b \in {c \in AttemptsAt(a.pair, a.nonce) : status[c] # "absent"}}
         = 1 .. (a.serial - 1)

\* A replacement or a cancel is signed by the driver that is still waiting
\* for an earlier attempt of the same owner and nonce.
BindCaller(a, kind) ==
    /\ FreshAttempt(a)
    /\ (a.purpose = "cancel") <=> (kind = "Cancel")
    /\ kind # "First" =>
         \E b \in AttemptsAt(a.pair, a.nonce) : b.owner = a.owner /\ status[b] = "broadcast"

\* TxDriver::void: the attempt is in flight, no attempt of its nonce was
\* ever settled, and the nonce is the highest one bound.  The driver only
\* ever fails an unused nonce and requeues a foreign one.
VoidCaller(a, mode, disposition) ==
    /\ status[a] = "broadcast"
    /\ \A b \in AttemptsAt(a.pair, a.nonce) : status[b] \in {"absent", "broadcast", "dropped"}
    /\ hwm[a.pair] = a.nonce
    /\ (mode = "NonceUnused") <=> (disposition = "Fail")

StoreNext ==
    \/ BumpEpoch
    \/ \E j \in Jobs : FailJob(j)
    \/ \E t \in Topups : CreateTopup(t) \/ FailTopup(t)
    \/ FailUnboundTopups
    \/ \E e \in 0 .. MaxEpoch, a \in Attempts, kind \in BindKinds :
          BindAttempt(e, a, kind) /\ BindCaller(a, kind)
    \/ \E a \in Attempts : SettleInclusion(a)
    \/ \E a \in Attempts : SettleConfirmation(a)
    \/ \E a \in Attempts : SettleFinal(a)
    \/ \E a \in Attempts : DemoteInclusion(a)
    \/ \E e \in 0 .. MaxEpoch, a \in Attempts, mode \in VoidModes, d \in Dispositions :
          VoidCaller(a, mode, d) /\ VoidBinding(e, a, mode, d)

StoreSpec == StoreInit /\ [][StoreNext]_storeVars

-----------------------------------------------------------------------------
(* What the store promises.                                                *)

Row == [event : Events, sequence : Nat, reincluded : BOOLEAN]

\* Every table holds values of its column types.
TypeOK ==
    /\ jobStatus \in [Jobs -> JobStatus]
    /\ topupStatus \in [Topups -> TopupStatus]
    /\ status \in [Attempts -> AttemptStatus \cup {"absent"}]
    /\ raw \in [Attempts -> BOOLEAN]
    /\ slot \in [Pairs -> [Nonces -> Owners \cup {NoOwner}]]
    /\ hwm \in [Pairs -> Nonces \cup {-1}]
    /\ epoch \in 0 .. MaxEpoch
    /\ gas \in [Pairs -> [Purposes -> Int]]
    /\ rollup \in [{"mined", "failed"} -> Nat]
    /\ webhookSeq \in [Jobs -> Nat]
    /\ outbox \in [Jobs -> Seq(Row)]

\* A transaction that may still execute, or that did, keeps its nonce for its
\* owner, and no bound nonce lies above the high-water mark: the next nonce
\* (hwm + 1) is always free and no nonce is handed to a second owner.
NonceBelongsToOwner ==
    /\ \A a \in Attempts : status[a] \in {"broadcast", "included", "confirmed", "replaced"}
          => slot[a.pair][a.nonce] = a.owner
    /\ \A p \in Pairs, n \in Nonces : slot[p][n] # NoOwner => n <= hwm[p]

\* One attempt per nonce is mined and it has no rival left in flight
\* (tx_attempts_mined_idx is never hit).
OneWinnerPerNonce ==
    \A a \in Attempts : status[a] \in Mined =>
        \A b \in Attempts : SameNonce(a, b) /\ a # b => status[b] \notin Mined \cup {"broadcast"}

\* settle.rs never has to park a write: whatever attempt the chain mines, in
\* whatever order settlements, demotions and binds ran before, its inclusion
\* can be recorded.
SettlementApplies == \A a \in Attempts : status[a] = "broadcast" => ~InclusionConflict(a)

\* The job row says what its attempts say: it is mined exactly when its own
\* transaction is (a mined cancel does not count) and it fails after being
\* sent only when its nonce went to the cancel or was given up.
JobFollowsAttempts ==
    \A j \in Jobs :
        LET own(s) == \E a \in Attempts : a.owner = j /\ a.purpose = "job" /\ status[a] = s
            live == \E a \in Attempts : a.owner = j /\ status[a] \in Live
        IN  /\ jobStatus[j] = "included" <=> own("included")
            /\ jobStatus[j] = "confirmed" <=> own("confirmed")
            /\ jobStatus[j] \in {"queued", "failed", "confirmed"} => ~live

\* A job that left the queue is never lost: until it is terminal, recovery
\* (load_live_attempts_for) finds an attempt of it whose bytes can be resent.
InFlightIsRecoverable ==
    \A j \in Jobs : jobStatus[j] \in {"sent", "cancelling", "included"} =>
        \E a \in Attempts : a.owner = j /\ status[a] \in Live /\ raw[a]

\* The gas ledger counts every mined transaction once, however often it is
\* settled again, demoted or confirmed.
GasCountedOnce ==
    \A p \in Pairs, u \in Purposes : gas[p][u] = Cardinality(MinedBy(p, u))

\* The rollup counts every terminal job once.
RollupCountsTerminalJobs ==
    /\ rollup["mined"] = Cardinality({j \in Jobs : jobStatus[j] = "confirmed"})
    /\ rollup["failed"] = Cardinality({j \in Jobs : jobStatus[j] = "failed"})

\* The webhooks of a job tell its story: sequence numbers are 1, 2, 3, ...;
\* the terminal event is there exactly when the job is terminal, once and
\* last; "confirmed" comes right after "included"; an "included" is marked
\* as a re-inclusion exactly when it is not the first one.
OutboxTellsTheStory ==
    \A j \in Jobs :
        /\ webhookSeq[j] = Len(outbox[j])
        /\ \A i \in DOMAIN outbox[j] :
             LET row == outbox[j][i] IN
             /\ row.sequence = i
             /\ row.event \in Terminal => i = Len(outbox[j]) /\ jobStatus[j] = row.event
             /\ row.event = "confirmed" => i > 1 /\ outbox[j][i - 1].event = "included"
             /\ row.reincluded <=> (row.event = "included" /\ i > 1)
        /\ jobStatus[j] \in Terminal =>
             outbox[j] # <<>> /\ outbox[j][Len(outbox[j])].event = jobStatus[j]
        /\ jobStatus[j] = "included" =>
             outbox[j] # <<>> /\ outbox[j][Len(outbox[j])].event = "included"

\* A terminal job never changes again and gets no further webhook, whatever
\* late settlement, confirmation or demotion still arrives.
TerminalIsForever ==
    [][\A j \in Jobs : jobStatus[j] \in Terminal =>
          jobStatus'[j] = jobStatus[j] /\ outbox'[j] = outbox[j]]_storeVars

\* What the clients see: a job being cancelled is still "sent".
Shown(s) == IF s = "cancelling" THEN "sent" ELSE s

Contract == INSTANCE JobContract
    WITH state <- [j \in Jobs |-> Shown(jobStatus[j])], log <- outbox

\* The store keeps the contract of docs/api-contract.md: a job's status and
\* its webhook events only ever move together, one legal step at a time.
KeepsContract == Contract!ContractSpec

-----------------------------------------------------------------------------
(* The inductive invariant behind the promises above.                      *)

\* The attempts of a job that can execute or did are all at one nonce.
OneHome ==
    \A a, b \in Attempts :
        /\ a.owner \in Jobs /\ a.owner = b.owner
        /\ status[a] \in Live \cup Mined /\ status[b] \in Live \cup Mined
        => SameNonce(a, b)

\* What an attempt's status says about its job ...
AttemptsDriveJob ==
    \A a \in Attempts :
        /\ a.purpose = "job" =>
             /\ status[a] = "broadcast" => jobStatus[a.owner] \in {"sent", "cancelling"}
             /\ status[a] = "included" => jobStatus[a.owner] = "included"
             /\ status[a] = "confirmed" => jobStatus[a.owner] = "confirmed"
        /\ a.purpose = "cancel" /\ a.owner \in Jobs =>
             /\ status[a] \in Live => jobStatus[a.owner] = "cancelling"
             /\ status[a] = "confirmed" => jobStatus[a.owner] = "failed"

\* ... and what the job's status says about its attempts.
JobHasAttempt ==
    \A j \in Jobs :
        LET some(S) == \E a \in Attempts : a.owner = j /\ status[a] \in S
            own(S) == \E a \in Attempts : a.owner = j /\ a.purpose = "job" /\ status[a] \in S
        IN  /\ jobStatus[j] \in {"sent", "cancelling"} => some(Live)
            /\ jobStatus[j] = "included" => own({"included"})
            /\ jobStatus[j] = "confirmed" => own({"confirmed"})

LiveHasBytes == \A a \in Attempts : status[a] \in Live => raw[a]

\* The nonce, the attempts and the job agree with one another.
StoreInv ==
    /\ TypeOK
    /\ NonceBelongsToOwner
    /\ OneWinnerPerNonce
    /\ OneHome
    /\ AttemptsDriveJob
    /\ JobHasAttempt
    /\ LiveHasBytes
=============================================================================
