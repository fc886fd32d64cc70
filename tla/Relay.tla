------------------------------- MODULE Relay -------------------------------
(***************************************************************************)
(* The relayer at work: one engine instance, with a worker per (signer,    *)
(* chain) pair that drives one nonce at a time (pipeline/tx.rs, worker.rs, *)
(* recovery.rs), the write-behind settler (settle.rs), the confirmation    *)
(* verifier (confirm.rs), the durable store (AttemptStore) and the chain.  *)
(*                                                                         *)
(* A worker is a record: pc says where TxDriver::resolve stands.           *)
(*   idle     at the top of the loop of worker::run, nothing in hand       *)
(*   wait     in its select, or on the way there: no job is waiting        *)
(*   prepare  process(): a job in hand, nothing bound yet                  *)
(*   send     about to broadcast the newest attempt (broadcast_pending)    *)
(*   poll     waiting for a receipt of any attempt of the nonce            *)
(*   low      in on_nonce_too_low                                          *)
(*   flush    recover_pair waits behind its settle barrier                 *)
(*   walk     recover_pair goes through the live nonces, lowest first      *)
(*                                                                         *)
(* The instance can stop between any two steps; the one that takes over    *)
(* bumps the lease epoch and starts from the store.  All of memory is then *)
(* lost: the queue, what the workers track and writes not yet applied.     *)
(*                                                                         *)
(* The chain is the environment: it mines what the nodes hold, may drop or *)
(* re-org what is not final, and may mine a transaction the engine did not *)
(* send.  What goes wrong is chosen from Mishaps, at most MaxMishaps times *)
(* in a behaviour, so that each configuration says which faults it allows. *)
(***************************************************************************)
EXTENDS AttemptStore, FiniteSetsExt

CONSTANTS
    Ladder,       \* ChainAdapter::stuck_ladder
    MaxBumps,     \* tunables.max_bumps
    Immediate,    \* ConfirmCheck::Immediate: an inclusion is final
    TrustRejects, \* Capabilities.trust_stateless_rejects
    InvalidJobs,  \* jobs whose transaction every node rejects statelessly
    Mishaps,      \* the faults a configuration allows, see Suffer
    MaxMishaps,   \* bound: mishaps in one behaviour
    Foreign       \* a transaction of the signer that the engine did not send

ASSUME RelayConstants ==
    /\ Topups = {}
    /\ InvalidJobs \subseteq Jobs
    /\ Foreign \notin Attempts
    /\ \A i \in DOMAIN Ladder : Ladder[i] \in {"Rebroadcast", "Diagnose", "Bump", "Noop"}
    /\ Mishaps \subseteq {"requeue", "bind", "void", "lost", "fee", "funds", "stale",
                          "drop", "foreign", "reorg", "rival", "admin", "recover", "cap"}

VARIABLES
    queue,       \* jobs waiting in the chain's in-memory queue
    work,        \* what the worker of a pair is doing
    todo,        \* recover_pair: live attempts still to be looked at
    hadLive,     \* recover_pair: it found live attempts
    nextNonce,   \* Pair::next_nonce
    recReq,      \* Pair::request_recovery was called
    paused,      \* Pair's pause reason, "none" when running
    settleQ,     \* the settler's FIFO queue
    dead,        \* attempts whose write was parked in dead_letters
    confirming,  \* the confirmer's pending list
    vanished,    \* what the confirmer is demoting, behind its settle barrier
    mined,       \* the canonical chain, per pair: what took nonce 0, 1, ...
    final,       \* how many of these can no longer be re-orged
    pool,        \* transactions some node holds
    capped,      \* the base fee is more than max_fee_cap_wei pays for
    mishaps,     \* mishaps so far
    reorgs       \* re-orgs so far; tells the blocks of different forks apart

memVars   == <<queue, work, todo, hadLive, nextNonce, recReq, paused>>
chainVars == <<mined, final, pool, capped, reorgs>>
confVars  == <<confirming, vanished>>
relayVars == <<memVars, settleQ, dead, confVars, chainVars, mishaps>>
allVars   == <<storeVars, relayVars>>

Reasons == {"none", "booting", "drift", "reorg", "stuck", "funds"}

-----------------------------------------------------------------------------
(* Vocabulary.                                                             *)

Suffer(m) == m \in Mishaps /\ mishaps < MaxMishaps /\ mishaps' = mishaps + 1
Fine == UNCHANGED mishaps

ChainNonce(p) == Len(mined[p])
OnChain(a) == \E i \in DOMAIN mined[a.pair] : mined[a.pair][i].tx = a
BlockOf(a) == mined[a.pair][CHOOSE i \in DOMAIN mined[a.pair] : mined[a.pair][i].tx = a].blk
FinalCount(p) == IF Immediate THEN ChainNonce(p) ELSE final[p]
IsFinal(a) == \E i \in 1 .. FinalCount(a.pair) : mined[a.pair][i].tx = a

\* A node that holds every nonce below takes the bytes; the one that does
\* not may still park them.  A stateless reject never enters any pool.
Invalid(a) == a.purpose = "job" /\ a.owner \in InvalidJobs
Acceptable(a) == ~Invalid(a) /\ a.nonce >= ChainNonce(a.pair)
Gapped(a) == \E n \in ChainNonce(a.pair) .. a.nonce - 1 : ~ \E b \in pool : b.pair = a.pair /\ b.nonce = n

Idle == [pc |-> "idle", rec |-> FALSE, owner |-> NoOwner, nonce |-> 0, atts |-> {},
         pos |-> 1, bumps |-> 0, fresh |-> FALSE, parked |-> FALSE, esc |-> FALSE]
Walking == [Idle EXCEPT !.pc = "walk", !.rec = TRUE]

At(p, pc) == work[p].pc = pc
Do(p, w) == work' = [work EXCEPT ![p] = w]
Goto(p, pc) == Do(p, [work[p] EXCEPT !.pc = pc])

Newest(p) == CHOOSE a \in work[p].atts : \A b \in work[p].atts : b.serial <= a.serial

\* Mutant of Signed: the first attempt's row is used again.
SignedAgain(p, n, o, purpose) ==
    [pair |-> p, nonce |-> n, owner |-> o, purpose |-> purpose, serial |-> 1]

\* The attempt that TxDriver::sign would make now.
Signed(p, n, o, purpose) ==
    [pair |-> p, nonce |-> n, owner |-> o, purpose |-> purpose,
     serial |-> 1 + Cardinality({a \in AttemptsAt(p, n) : status[a] # "absent"})]

Pause(p, r) == paused' = [paused EXCEPT ![p] = r]
ResumeIf(p, rs) == paused' = [paused EXCEPT ![p] = IF @ \in rs THEN "none" ELSE @]
RequestRecovery(p) == recReq' = [recReq EXCEPT ![p] = TRUE]

\* notify_waiters, called by another task: it leaves no permit, so the worker
\* that waits is woken and the one that is just about to wait is not.
WakePair(p) == UNCHANGED work \/ (At(p, "wait") /\ Goto(p, "idle"))

\* Leaving the driver without a result: recover_pair returns as well.
Leave(p) == Do(p, Idle) /\ todo' = [todo EXCEPT ![p] = {}]

-----------------------------------------------------------------------------
(* Starting: leader::start loads the queued jobs; every pair boots paused  *)
(* and recovers first (Pair::new, start_chain).                            *)

Queued == {j \in Jobs : jobStatus[j] = "queued"}

Booted(pending) ==
    /\ queue' = pending
    /\ work' = [p \in Pairs |-> Idle]
    /\ todo' = [p \in Pairs |-> {}]
    /\ hadLive' = [p \in Pairs |-> FALSE]
    /\ nextNonce' = [p \in Pairs |-> 0]
    /\ recReq' = [p \in Pairs |-> TRUE]
    /\ paused' = [p \in Pairs |-> "booting"]
    /\ settleQ' = <<>>
    /\ confirming' = {}
    /\ vanished' = {}

RelayInit ==
    /\ StoreInit
    /\ queue = Jobs
    /\ work = [p \in Pairs |-> Idle]
    /\ todo = [p \in Pairs |-> {}]
    /\ hadLive = [p \in Pairs |-> FALSE]
    /\ nextNonce = [p \in Pairs |-> 0]
    /\ recReq = [p \in Pairs |-> TRUE]
    /\ paused = [p \in Pairs |-> "booting"]
    /\ settleQ = <<>>
    /\ dead = {}
    /\ confirming = {}
    /\ vanished = {}
    /\ mined = [p \in Pairs |-> <<>>]
    /\ final = [p \in Pairs |-> 0]
    /\ pool = {}
    /\ capped = FALSE
    /\ mishaps = 0
    /\ reorgs = 0

\* The process stops; a new leader takes the lease and starts.
Restart == BumpEpoch /\ Booted(Queued) /\ UNCHANGED <<dead, chainVars, mishaps>>

-----------------------------------------------------------------------------
(* worker::run and worker::process.                                        *)

Running(p) == ~recReq[p] /\ paused[p] = "none"

\* Nothing is asked of the pair and the queue is empty: wait, without a
\* timer, for a job or a wake-up.  (A paused pair looks again every second.)
Sleep(p) ==
    /\ At(p, "idle") /\ Running(p) /\ queue = {}
    /\ Goto(p, "wait") /\ Fine
    /\ UNCHANGED <<storeVars, queue, todo, hadLive, nextNonce, recReq, paused, settleQ, dead,
                   confVars, chainVars>>

\* A job ends the wait.  A pair that was paused or must recover hands it
\* back untouched; the other one goes on with Pop.
Awake(p) ==
    /\ At(p, "wait") /\ queue # {}
    /\ Goto(p, "idle") /\ Fine
    /\ UNCHANGED <<storeVars, queue, todo, hadLive, nextNonce, recReq, paused, settleQ, dead,
                   confVars, chainVars>>

Pop(p) ==
    /\ At(p, "idle") /\ Running(p)
    /\ nextNonce[p] <= MaxNonce
    /\ \E j \in queue :
          /\ queue' = queue \ {j}
          /\ Do(p, [Idle EXCEPT !.pc = "prepare", !.owner = j, !.nonce = nextNonce[p]])
    /\ Fine
    /\ UNCHANGED <<storeVars, todo, hadLive, nextNonce, recReq, paused, settleQ, dead,
                   confVars, chainVars>>

\* fail_unbound: the deadline passed, the estimate reverted, the cost is too
\* high.  A job that an operator cancelled meanwhile is dropped.
FailUnbound(p) ==
    /\ At(p, "prepare")
    /\ IF jobStatus[work[p].owner] = "queued" THEN FailJob(work[p].owner) ELSE UNCHANGED storeVars
    /\ Do(p, Idle)
    /\ Fine
    /\ UNCHANGED <<queue, todo, hadLive, nextNonce, recReq, paused, settleQ, dead,
                   confVars, chainVars>>

PushFront(p) == queue' = queue \cup {work[p].owner}

\* Fees, gas estimate, funds or signer are not available right now.
RequeueUnbound(p) ==
    /\ At(p, "prepare") /\ Suffer("requeue")
    /\ PushFront(p) /\ Do(p, Idle)
    /\ UNCHANGED <<storeVars, todo, hadLive, nextNonce, recReq, paused, settleQ, dead,
                   confVars, chainVars>>

\* TxDriver::execute up to the broadcast: sign, bind, advance the nonce.
\* A slot that is taken sends the job back to the queue (NotBound::Store), a
\* job that is no longer queued is dropped (NotBound::OwnerGone).
Execute(p) ==
    /\ At(p, "prepare") /\ Fine
    /\ LET w == work[p]
           a == Signed(p, w.nonce, w.owner, "job")
       IN  IF ~SlotGranted(a, "First")
             THEN /\ PushFront(p) /\ Do(p, Idle)
                  /\ UNCHANGED <<storeVars, nextNonce>>
             ELSE IF ~Bindable(a, "First")
             THEN /\ Do(p, Idle) /\ UNCHANGED <<storeVars, nextNonce, queue>>
             ELSE /\ a.serial <= MaxSerial
                  /\ BindAttempt(epoch, a, "First")
                  /\ nextNonce' = [nextNonce EXCEPT ![p] = @ + 1]
                  /\ Do(p, [w EXCEPT !.pc = "send", !.atts = {a}, !.fresh = TRUE])
                  /\ UNCHANGED queue
    /\ UNCHANGED <<todo, hadLive, recReq, paused, settleQ, dead, confVars, chainVars>>

\* The commit went through but its answer was lost, and so was the answer of
\* attempt_exists: the retry finds the slot taken and the bind is reported
\* as NotBound.
ExecuteUnsure(p) ==
    /\ At(p, "prepare") /\ Suffer("bind")
    /\ LET a == Signed(p, work[p].nonce, work[p].owner, "job")
       IN  a.serial <= MaxSerial /\ BindAttempt(epoch, a, "First")
    /\ PushFront(p) /\ Do(p, Idle)
    /\ UNCHANGED <<todo, hadLive, nextNonce, recReq, paused, settleQ, dead, confVars, chainVars>>

-----------------------------------------------------------------------------
(* TxDriver::resolve: results.                                             *)

\* on_receipt: the inclusion is queued for the settler and the confirmer,
\* and a stuck or funds pause is over.
Settle(p, a) ==
    /\ settleQ' = Append(settleQ, <<"inclusion", a>>)
    /\ confirming' = IF Immediate THEN confirming
                     ELSE confirming \cup {[att |-> a, blk |-> BlockOf(a), misses |-> 0]}
    /\ ResumeIf(p, {"stuck", "funds"})
    /\ Do(p, IF work[p].rec THEN Walking ELSE Idle)
    /\ UNCHANGED <<storeVars, queue, todo, hadLive, nextNonce, recReq, dead, vanished, chainVars>>

\* Outcome::NeedsRecovery, in worker::process and in recover_pair.
NeedsRecovery(p) ==
    /\ Pause(p, "reorg")
    /\ IF work[p].rec THEN UNCHANGED recReq ELSE RequestRecovery(p)
    /\ Leave(p)

\* TxDriver::void of the newest attempt.  When the write is reported as failed
\* (it may have committed all the same) the driver goes on polling.
Void(p, mode, disposition) ==
    \/ /\ Fine
       /\ VoidBinding(epoch, Newest(p), mode, disposition)
       /\ nextNonce' = IF mode = "NonceUnused"
                         THEN [nextNonce EXCEPT ![p] = work[p].nonce] ELSE nextNonce
       /\ IF disposition = "Requeue" THEN PushFront(p) ELSE UNCHANGED queue
       /\ Do(p, Idle)
    \/ /\ Suffer("void")
       /\ VoidBinding(epoch, Newest(p), mode, disposition) \/ UNCHANGED storeVars
       /\ Goto(p, "poll")
       /\ UNCHANGED <<nextNonce, queue>>

\* replace_with_fresh_fees and cancel: one more attempt at the nonce.  When
\* no fee within the cap outbids the last one, or the signer or the store
\* does not answer, the driver polls on; the bind it gave up ("bind") may
\* have been committed all the same.
BindMore(p, kind, w) ==
    \/ LET a == Signed(p, w.nonce, w.owner, IF kind = "Cancel" THEN "cancel" ELSE "job")
       IN  /\ a.serial <= MaxSerial
           /\ kind = "Replacement" =>
                /\ ~capped /\ w.bumps < Max({MaxBumps, 1}) /\ \E b \in w.atts : b.purpose = "job"
           /\ BindAttempt(epoch, a, kind)
           /\ \/ Do(p, [w EXCEPT !.pc = "send", !.atts = @ \cup {a},
                                 !.bumps = IF kind = "Replacement" THEN @ + 1 ELSE @])
              \/ "bind" \in Mishaps /\ Do(p, [w EXCEPT !.pc = "poll"])
    \/ UNCHANGED storeVars /\ Do(p, [w EXCEPT !.pc = "poll"])

-----------------------------------------------------------------------------
(* TxDriver::resolve: one broadcast and what the node answers.             *)

\* Accepted, or already known.
SendAccepted(p) ==
    /\ At(p, "send") /\ Acceptable(Newest(p))
    /\ pool' = pool \cup {Newest(p)}
    /\ Do(p, [work[p] EXCEPT !.pc = "poll", !.fresh = FALSE])
    /\ Fine
    /\ UNCHANGED <<storeVars, queue, todo, hadLive, nextNonce, recReq, paused, settleQ, dead,
                   confVars, mined, final, capped, reorgs>>

\* The answer is lost: the bytes may or may not have arrived.  Indeterminate
\* polls; a retry inside the call that ends in a throttle or an open breaker
\* counts as "definitely not delivered" and sends again.
SendLost(p) ==
    /\ At(p, "send") /\ Suffer("lost")
    /\ pool' \in {pool} \cup {pool \cup {a} : a \in {b \in {Newest(p)} : Acceptable(b)}}
    /\ \E pc \in {"poll", "send"} : Goto(p, pc)
    /\ UNCHANGED <<storeVars, queue, todo, hadLive, nextNonce, recReq, paused, settleQ, dead,
                   confVars, mined, final, capped, reorgs>>

SendTooLow(p) ==
    /\ At(p, "send") /\ Newest(p).nonce < ChainNonce(p) /\ ~Invalid(Newest(p))
    /\ Do(p, [work[p] EXCEPT !.pc = "low", !.esc = FALSE])
    /\ Fine
    /\ UNCHANGED <<storeVars, queue, todo, hadLive, nextNonce, recReq, paused, settleQ, dead,
                   confVars, chainVars>>

SendTooHigh(p) ==
    /\ At(p, "send") /\ Gapped(Newest(p))
    /\ NeedsRecovery(p)
    /\ Fine
    /\ UNCHANGED <<storeVars, queue, hadLive, nextNonce, settleQ, dead, confVars, chainVars>>

SendFeeTooLow(p) ==
    /\ At(p, "send") /\ Suffer("fee") /\ Acceptable(Newest(p))
    /\ BindMore(p, "Replacement", work[p])
    /\ UNCHANGED <<queue, todo, hadLive, nextNonce, recReq, paused, settleQ, dead,
                   confVars, chainVars>>

\* fund_and_retry: the top-up fails and the pair pauses, or it arrives.
SendNoFunds(p) ==
    /\ At(p, "send") /\ Suffer("funds")
    /\ Pause(p, "funds") \/ ResumeIf(p, {"funds"})
    /\ UNCHANGED <<storeVars, queue, work, todo, hadLive, nextNonce, recReq, settleQ, dead,
                   confVars, chainVars>>

SendRejected(p) ==
    /\ At(p, "send") /\ Invalid(Newest(p))
    /\ IF work[p].fresh /\ TrustRejects
         THEN Void(p, "NonceUnused", "Fail")
         ELSE Goto(p, "poll") /\ Fine /\ UNCHANGED <<storeVars, queue, nextNonce>>
    /\ UNCHANGED <<todo, hadLive, recReq, paused, settleQ, dead, confVars, chainVars>>

\* on_nonce_too_low found a receipt of one of our own attempts.
LowReceipt(p) ==
    /\ At(p, "low") /\ Fine
    /\ \E a \in work[p].atts : OnChain(a) /\ Settle(p, a)

\* It found none, in any of its rounds: either there is none, or every
\* answer was null or an error.
LowNothing(p) ==
    /\ At(p, "low")
    /\ IF \E a \in work[p].atts : OnChain(a) THEN Suffer("stale") ELSE Fine
    /\ ~(work[p].fresh /\ ~work[p].esc)
    /\ Pause(p, "drift")
    /\ IF work[p].esc
         THEN /\ Do(p, [work[p] EXCEPT !.pc = "poll", !.parked = TRUE])
              /\ UNCHANGED todo
         ELSE Leave(p)
    /\ UNCHANGED <<storeVars, queue, hadLive, nextNonce, recReq, settleQ, dead, confVars, chainVars>>

\* Mutant of LowForeign: every "nonce too low" is blamed on somebody else.
LowForeignAlways(p) ==
    /\ At(p, "low")
    /\ Void(p, "NonceTakenByForeignTx", "Requeue")
    /\ RequestRecovery(p)
    /\ UNCHANGED <<todo, hadLive, paused, settleQ, dead, confVars, chainVars>>

\* The same, while nobody acknowledged the bytes: the nonce is taken to be
\* somebody else's and the job goes back to the queue.
LowForeign(p) ==
    /\ At(p, "low") /\ work[p].fresh /\ ~work[p].esc
    /\ IF \E a \in work[p].atts : OnChain(a)
         THEN /\ Suffer("stale")
              /\ VoidBinding(epoch, Newest(p), "NonceTakenByForeignTx", "Requeue")
              /\ PushFront(p) /\ Do(p, Idle) /\ UNCHANGED nextNonce
         ELSE Void(p, "NonceTakenByForeignTx", "Requeue")
    /\ RequestRecovery(p)
    /\ UNCHANGED <<todo, hadLive, paused, settleQ, dead, confVars, chainVars>>

-----------------------------------------------------------------------------
(* TxDriver::resolve: waiting, and the stuck ladder (escalate).            *)

PollReceipt(p) ==
    /\ At(p, "poll") /\ Fine
    /\ \E a \in work[p].atts : OnChain(a) /\ Settle(p, a)

\* The nonce counts as stuck: no receipt for a while although blocks came.
Stuck(p, m) ==
    /\ At(p, "poll") /\ ~work[p].parked
    /\ IF \E a \in work[p].atts : OnChain(a) THEN Suffer("stale")
       ELSE IF m = "" THEN Fine ELSE Suffer(m)

Rung(p) == IF work[p].pos <= Len(Ladder) THEN Ladder[work[p].pos] ELSE "None"
Down(p) == [work[p] EXCEPT !.pos = @ + 1]

Rebroadcast(p) ==
    /\ Stuck(p, "") /\ Rung(p) = "Rebroadcast"
    /\ Do(p, [Down(p) EXCEPT !.pc = "send"])
    /\ UNCHANGED <<storeVars, queue, todo, hadLive, nextNonce, recReq, paused, settleQ, dead,
                   confVars, chainVars>>

\* Where does the chain stand?  Below our nonce something is missing, above
\* it ours is done, and at it fees or funds are short.
Diagnose(p) ==
    /\ Stuck(p, "") /\ Rung(p) = "Diagnose"
    /\ IF ChainNonce(p) < work[p].nonce
         THEN NeedsRecovery(p)
         ELSE /\ Do(p, IF ChainNonce(p) > work[p].nonce
                         THEN [Down(p) EXCEPT !.pc = "low", !.esc = TRUE] ELSE Down(p))
              /\ UNCHANGED <<todo, recReq, paused>>
    /\ UNCHANGED <<storeVars, queue, hadLive, nextNonce, settleQ, dead, confVars, chainVars>>

DiagnoseFunds(p) ==
    /\ Stuck(p, "funds") /\ Rung(p) = "Diagnose" /\ ChainNonce(p) = work[p].nonce
    /\ Do(p, [Down(p) EXCEPT !.pc = "send"])
    /\ Pause(p, "funds") \/ ResumeIf(p, {"funds"})
    /\ UNCHANGED <<storeVars, queue, todo, hadLive, nextNonce, recReq, settleQ, dead,
                   confVars, chainVars>>

\* The base fee rose above the attempt's fee: replace it and stay here.  With
\* no quote within the cap the driver stays without a step, for as long as
\* the base fee does.
BumpFee(p) ==
    /\ Stuck(p, "fee") /\ Rung(p) = "Bump" /\ work[p].bumps < MaxBumps
    /\ BindMore(p, "Replacement", work[p])
    /\ UNCHANGED <<queue, todo, hadLive, nextNonce, recReq, paused, settleQ, dead,
                   confVars, chainVars>>

\* Fees are fine, and the node may have dropped it, or no bump is left.
BumpNotNeeded(p) ==
    /\ Stuck(p, "") /\ Rung(p) = "Bump"
    /\ capped => work[p].bumps >= MaxBumps
    /\ Do(p, [Down(p) EXCEPT !.pc = "send"])
    /\ UNCHANGED <<storeVars, queue, todo, hadLive, nextNonce, recReq, paused, settleQ, dead,
                   confVars, chainVars>>

Cancel(p) ==
    /\ Stuck(p, "") /\ Rung(p) = "Noop"
    /\ BindMore(p, "Cancel", Down(p))
    /\ UNCHANGED <<queue, todo, hadLive, nextNonce, recReq, paused, settleQ, dead,
                   confVars, chainVars>>

\* Mutant of Park: the pause is forgotten.
ParkSilently(p) ==
    /\ Stuck(p, "") /\ Rung(p) = "None"
    /\ Do(p, [work[p] EXCEPT !.parked = TRUE])
    /\ UNCHANGED <<storeVars, queue, todo, hadLive, nextNonce, recReq, paused, settleQ, dead,
                   confVars, chainVars>>

\* Every remedy was tried: the pair waits for an operator and keeps polling.
Park(p) ==
    /\ Stuck(p, "") /\ Rung(p) = "None"
    /\ Pause(p, "stuck")
    /\ Do(p, [work[p] EXCEPT !.parked = TRUE])
    /\ UNCHANGED <<storeVars, queue, todo, hadLive, nextNonce, recReq, settleQ, dead,
                   confVars, chainVars>>

-----------------------------------------------------------------------------
(* recover_pair.                                                           *)

\* Mutant of RecoverFlush: the pause is looked at before the request.
RecoverWhenRunning(p) ==
    /\ At(p, "idle") /\ recReq[p] /\ paused[p] = "none" /\ Fine
    /\ recReq' = [recReq EXCEPT ![p] = FALSE]
    /\ Pause(p, "drift")
    /\ settleQ' = Append(settleQ, <<"flush", p>>)
    /\ Do(p, [Idle EXCEPT !.pc = "flush", !.rec = TRUE])
    /\ UNCHANGED <<storeVars, queue, todo, hadLive, nextNonce, dead, confVars, chainVars>>

RecoverFlush(p) ==
    /\ At(p, "idle") /\ recReq[p] /\ Fine
    /\ recReq' = [recReq EXCEPT ![p] = FALSE]
    /\ paused' = [paused EXCEPT ![p] = IF @ = "none" THEN "drift" ELSE @]
    /\ settleQ' = Append(settleQ, <<"flush", p>>)
    /\ Do(p, [Idle EXCEPT !.pc = "flush", !.rec = TRUE])
    /\ UNCHANGED <<storeVars, queue, todo, hadLive, nextNonce, dead, confVars, chainVars>>

Flushed(who) == ~ \E i \in DOMAIN settleQ : settleQ[i] = <<"flush", who>>

\* Mutant of LiveAttempts: only what was included is loaded.
LiveIncluded(p) == {a \in Attempts : a.pair = p /\ status[a] = "included"}

LiveAttempts(p) == {a \in Attempts : a.pair = p /\ status[a] \in Live}

\* load_live_attempts_for: what is read here may be stale when it is used.
RecoverLoad(p) ==
    /\ At(p, "flush") /\ Flushed(p) /\ Fine
    /\ LET live == LiveAttempts(p)
       IN  /\ todo' = [todo EXCEPT ![p] = {[att |-> a, status |-> status[a]] : a \in live}]
           /\ hadLive' = [hadLive EXCEPT ![p] = live # {}]
    /\ Do(p, Walking)
    /\ UNCHANGED <<storeVars, queue, nextNonce, recReq, paused, settleQ, dead, confVars, chainVars>>

Lowest(p) == Min({x.att.nonce : x \in todo[p]})
Group(p) == {x \in todo[p] : x.att.nonce = Lowest(p)}
WasIncluded(p) == {x.att : x \in {y \in Group(p) : y.status = "included"}}

\* An inclusion that is still on the chain only has to be confirmed.
RecoverIncluded(p) ==
    /\ At(p, "walk") /\ todo[p] # {} /\ Fine
    /\ \E a \in WasIncluded(p) :
          /\ OnChain(a)
          /\ IF Immediate
               THEN settleQ' = Append(settleQ, <<"confirmation", a>>) /\ UNCHANGED confirming
               ELSE /\ confirming' = confirming \cup {[att |-> a, blk |-> BlockOf(a), misses |-> 0]}
                    /\ UNCHANGED settleQ
    /\ todo' = [todo EXCEPT ![p] = @ \ Group(p)]
    /\ UNCHANGED <<storeVars, queue, work, hadLive, nextNonce, recReq, paused, dead, vanished,
                   chainVars>>

\* Undo an inclusion that is gone, then drive the nonce with its stored bytes.
RecoverResume(p) ==
    /\ At(p, "walk") /\ todo[p] # {}
    /\ IF \E a \in WasIncluded(p) : OnChain(a) THEN Suffer("stale") ELSE Fine
    /\ IF \E a \in WasIncluded(p) : status[a] = "included"
         THEN \E a \in WasIncluded(p) : DemoteInclusion(a)
         ELSE UNCHANGED storeVars
    /\ LET atts == {x.att : x \in Group(p)}
       IN  Do(p, [Idle EXCEPT !.pc = "send", !.rec = TRUE, !.nonce = Lowest(p), !.atts = atts,
                     !.owner = (CHOOSE a \in atts : TRUE).owner,
                     !.pos = IF \E a \in atts : a.purpose = "cancel" THEN Len(Ladder) + 1 ELSE 1])
    /\ todo' = [todo EXCEPT ![p] = @ \ Group(p)]
    /\ paused' = [paused EXCEPT ![p] = IF @ = "none" THEN "drift" ELSE @]
    /\ UNCHANGED <<queue, hadLive, nextNonce, recReq, settleQ, dead, confVars, chainVars>>

\* The chain or the store does not answer: recovery starts over.
RecoverRetry(p) ==
    /\ At(p, "walk") /\ Suffer("stale")
    /\ RequestRecovery(p) /\ Leave(p)
    /\ UNCHANGED <<storeVars, queue, hadLive, nextNonce, paused, settleQ, dead, confVars, chainVars>>

\* Mutants of RecoverDone: the high-water mark is not a floor; it is taken
\* for the number of nonces below it, and one is skipped.
RecoverFromChain(p) ==
    /\ At(p, "walk") /\ todo[p] = {} /\ Fine
    /\ LET ask == hwm[p] = -1 \/ hadLive[p] \/ paused[p] # "booting"
       IN  nextNonce' = [nextNonce EXCEPT ![p] = IF ask THEN ChainNonce(p) ELSE 0]
    /\ ResumeIf(p, {"booting", "drift", "reorg"})
    /\ Do(p, Idle)
    /\ UNCHANGED <<storeVars, queue, todo, hadLive, recReq, settleQ, dead, confVars, chainVars>>

RecoverSkipsNonce(p) ==
    /\ At(p, "walk") /\ todo[p] = {} /\ Fine
    /\ nextNonce' = [nextNonce EXCEPT ![p] = Max({ChainNonce(p), hwm[p] + 2})]
    /\ ResumeIf(p, {"booting", "drift", "reorg"})
    /\ Do(p, Idle)
    /\ UNCHANGED <<storeVars, queue, todo, hadLive, recReq, settleQ, dead, confVars, chainVars>>

\* The next nonce lies above the chain's and above every nonce ever bound;
\* at boot a known pair with nothing in flight does not ask the chain.
RecoverDone(p) ==
    /\ At(p, "walk") /\ todo[p] = {} /\ Fine
    /\ LET ask == hwm[p] = -1 \/ hadLive[p] \/ paused[p] # "booting"
       IN  nextNonce' = [nextNonce EXCEPT ![p] = Max({IF ask THEN ChainNonce(p) ELSE 0, hwm[p] + 1})]
    /\ ResumeIf(p, {"booting", "drift", "reorg"})
    /\ Do(p, Idle)
    /\ UNCHANGED <<storeVars, queue, todo, hadLive, recReq, settleQ, dead, confVars, chainVars>>

-----------------------------------------------------------------------------
(* settle::run: the head of the queue is retried until it is written; a    *)
(* write that can never apply is parked in dead_letters.                   *)

Head1 == settleQ[1]

SettlerFlush ==
    /\ settleQ # <<>> /\ Head1[1] = "flush"
    /\ UNCHANGED <<storeVars, dead>>

SettlerInclusion ==
    /\ settleQ # <<>> /\ Head1[1] = "inclusion"
    /\ LET a == Head1[2]
       IN  IF status[a] # "broadcast" THEN UNCHANGED <<storeVars, dead>>
           ELSE IF InclusionConflict(a) THEN dead' = dead \cup {a} /\ UNCHANGED storeVars
           ELSE /\ IF Immediate THEN SettleFinal(a) ELSE SettleInclusion(a)
                /\ UNCHANGED dead

SettlerConfirmation ==
    /\ settleQ # <<>> /\ Head1[1] = "confirmation"
    /\ IF status[Head1[2]] = "included" THEN SettleConfirmation(Head1[2]) ELSE UNCHANGED storeVars
    /\ UNCHANGED dead

Settler ==
    /\ SettlerFlush \/ SettlerInclusion \/ SettlerConfirmation
    /\ settleQ' = Tail(settleQ)
    /\ Fine
    /\ UNCHANGED <<memVars, confVars, chainVars>>

-----------------------------------------------------------------------------
(* confirm::run looks at one pending item at a time.                       *)

\* Mutant of Confirm: it is enough that the transaction is on the chain.
ConfirmEarly(it) ==
    /\ vanished = {} /\ OnChain(it.att)
    /\ settleQ' = Append(settleQ, <<"confirmation", it.att>>)
    /\ confirming' = confirming \ {it}
    /\ Fine
    /\ UNCHANGED <<storeVars, memVars, dead, vanished, chainVars>>

\* The transaction is where its receipt said, and it is there to stay.
Confirm(it) ==
    /\ vanished = {} /\ IsFinal(it.att) /\ BlockOf(it.att) = it.blk
    /\ settleQ' = Append(settleQ, <<"confirmation", it.att>>)
    /\ confirming' = confirming \ {it}
    /\ Fine
    /\ UNCHANGED <<storeVars, memVars, dead, vanished, chainVars>>

\* A node that lags behind shows an older block.
Missing(it) ==
    IF OnChain(it.att) /\ BlockOf(it.att) = it.blk THEN Suffer("stale") ELSE Fine

FirstMiss(it) ==
    /\ vanished = {} /\ it.misses = 0 /\ Missing(it)
    /\ confirming' = (confirming \ {it}) \cup {[it EXCEPT !.misses = 1]}
    /\ UNCHANGED <<storeVars, memVars, settleQ, dead, vanished, chainVars>>

\* on_missing: the second miss asks for the receipt.  It moved to another
\* block, or it is gone and will be demoted behind a settle barrier.
Moved(it) ==
    /\ vanished = {} /\ it.misses = 1 /\ OnChain(it.att) /\ Missing(it)
    /\ confirming' = (confirming \ {it}) \cup {[it EXCEPT !.misses = 0, !.blk = BlockOf(it.att)]}
    /\ UNCHANGED <<storeVars, memVars, settleQ, dead, vanished, chainVars>>

Vanish(it) ==
    /\ vanished = {} /\ it.misses = 1
    /\ IF OnChain(it.att) THEN Suffer("stale") ELSE Fine
    /\ confirming' = confirming \ {it}
    /\ vanished' = {it.att}
    /\ settleQ' = Append(settleQ, <<"flush", NoOwner>>)
    /\ UNCHANGED <<storeVars, memVars, dead, chainVars>>

\* Mutant of Demote: nobody asks for the recovery.
DemoteQuietly ==
    /\ Flushed(NoOwner) /\ Fine
    /\ \E a \in vanished : IF status[a] = "included" THEN DemoteInclusion(a) ELSE UNCHANGED storeVars
    /\ vanished' = {}
    /\ UNCHANGED <<memVars, settleQ, dead, confirming, chainVars>>

Demote ==
    /\ Flushed(NoOwner) /\ Fine
    /\ \E a \in vanished :
          /\ IF status[a] = "included" THEN DemoteInclusion(a) ELSE UNCHANGED storeVars
          /\ Pause(a.pair, "reorg")
          /\ RequestRecovery(a.pair) /\ WakePair(a.pair)
    /\ vanished' = {}
    /\ UNCHANGED <<queue, todo, hadLive, nextNonce, settleQ, dead, confirming, chainVars>>

-----------------------------------------------------------------------------
(* Operators.                                                              *)

\* admin_cancel_job: out of the queue, then failed if still queued.
AdminCancel(j) ==
    /\ Suffer("admin")
    /\ FailJob(j)
    /\ queue' = queue \ {j}
    /\ UNCHANGED <<work, todo, hadLive, nextNonce, recReq, paused, settleQ, dead, confVars, chainVars>>

\* admin_pair "resume"; the chain monitor does the same after an outage.
AdminResume(p) ==
    /\ Suffer("recover")
    /\ ResumeIf(p, {"stuck", "drift"}) \/ UNCHANGED paused
    /\ RequestRecovery(p) /\ WakePair(p)
    /\ UNCHANGED <<storeVars, queue, todo, hadLive, nextNonce, settleQ, dead, confVars, chainVars>>

-----------------------------------------------------------------------------
(* The chain.                                                              *)

Block(tx) == [tx |-> tx, blk |-> reorgs]

\* Blocks do not take what the base fee has outgrown; a cancel may pay more
\* than the cap of a job.
Mine(a) ==
    /\ a \in pool /\ a.nonce = ChainNonce(a.pair)
    /\ capped => a.purpose = "cancel"
    /\ mined' = [mined EXCEPT ![a.pair] = Append(@, Block(a))]
    /\ pool' = {b \in pool : ~SameNonce(a, b)}
    /\ Fine
    /\ UNCHANGED <<storeVars, memVars, settleQ, dead, confVars, final, capped, reorgs>>

\* Somebody else uses the key.
MineForeign(p) ==
    /\ Suffer("foreign") /\ ChainNonce(p) <= MaxNonce
    /\ mined' = [mined EXCEPT ![p] = Append(@, Block(Foreign))]
    /\ pool' = {b \in pool : ~(b.pair = p /\ b.nonce = ChainNonce(p))}
    /\ UNCHANGED <<storeVars, memVars, settleQ, dead, confVars, final, capped, reorgs>>

Finalize(p) ==
    /\ FinalCount(p) < ChainNonce(p)
    /\ final' = [final EXCEPT ![p] = @ + 1]
    /\ Fine
    /\ UNCHANGED <<storeVars, memVars, settleQ, dead, confVars, mined, pool, capped, reorgs>>

\* The last blocks are abandoned; nodes may or may not keep their content,
\* and ("rival") may still hold the transactions that had lost to it.
Reorg(p) ==
    /\ Suffer("reorg")
    /\ reorgs' = reorgs + 1
    /\ \E k \in FinalCount(p) .. ChainNonce(p) - 1 :
          LET gone == {mined[p][i].tx : i \in k + 1 .. ChainNonce(p)} \ {Foreign}
              rivals == {a \in Attempts : a.pair = p /\ a.nonce >= k /\ status[a] = "replaced"}
          IN  /\ mined' = [mined EXCEPT ![p] = SubSeq(@, 1, k)]
              /\ pool' \in {pool, pool \cup gone}
                    \cup (IF "rival" \in Mishaps THEN {pool \cup gone \cup rivals} ELSE {})
    /\ UNCHANGED <<storeVars, memVars, settleQ, dead, confVars, final, capped>>

\* The base fee leaves what max_fee_cap_wei allows, and comes back.
FeesRise ==
    /\ ~capped /\ capped' = TRUE /\ Suffer("cap")
    /\ UNCHANGED <<storeVars, memVars, settleQ, dead, confVars, mined, final, pool, reorgs>>

FeesFall ==
    /\ capped /\ capped' = FALSE /\ Fine
    /\ UNCHANGED <<storeVars, memVars, settleQ, dead, confVars, mined, final, pool, reorgs>>

\* Every node forgets a transaction.
DropFromPool(a) ==
    /\ a \in pool /\ Suffer("drop")
    /\ pool' = pool \ {a}
    /\ UNCHANGED <<storeVars, memVars, settleQ, dead, confVars, mined, final, capped, reorgs>>

-----------------------------------------------------------------------------
Loop(p) == Sleep(p) \/ Awake(p) \/ Pop(p)

Driver(p) ==
    \/ Execute(p) \/ SendAccepted(p) \/ SendTooLow(p) \/ SendTooHigh(p) \/ SendRejected(p)
    \/ LowReceipt(p) \/ LowNothing(p) \/ LowForeign(p)
    \/ PollReceipt(p) \/ Rebroadcast(p) \/ Diagnose(p) \/ BumpNotNeeded(p) \/ Cancel(p) \/ Park(p)

DriverMishap(p) ==
    \/ FailUnbound(p) \/ RequeueUnbound(p) \/ ExecuteUnsure(p)
    \/ SendLost(p) \/ SendFeeTooLow(p) \/ SendNoFunds(p) \/ DiagnoseFunds(p) \/ BumpFee(p)
    \/ RecoverRetry(p)

Recovery(p) ==
    RecoverFlush(p) \/ RecoverLoad(p) \/ RecoverIncluded(p) \/ RecoverResume(p) \/ RecoverDone(p)

Confirmer ==
    \/ \E it \in confirming : Confirm(it) \/ FirstMiss(it) \/ Moved(it) \/ Vanish(it)
    \/ Demote

RelayNext ==
    \/ \E p \in Pairs : Loop(p) \/ Driver(p) \/ Recovery(p) \/ DriverMishap(p)
    \/ Settler \/ Confirmer
    \/ \E a \in Attempts : Mine(a)
    \/ \E p \in Pairs : Finalize(p)
    \/ FeesRise \/ FeesFall
    \/ Restart
    \/ \E j \in Jobs : AdminCancel(j)
    \/ \E p \in Pairs : AdminResume(p) \/ MineForeign(p) \/ Reorg(p)
    \/ \E a \in Attempts : DropFromPool(a)

RelaySpec == RelayInit /\ [][RelayNext]_allVars

-----------------------------------------------------------------------------
(* What the relayer promises.                                              *)

Item == [att : Attempts, blk : Nat, misses : 0 .. 1]

\* Every variable has its type.
RelayTypeOK ==
    /\ queue \subseteq Jobs
    /\ \A p \in Pairs :
         /\ work[p].pc \in {"idle", "wait", "prepare", "send", "poll", "low", "flush", "walk"}
         /\ work[p].atts \subseteq AttemptsAt(p, work[p].nonce)
         /\ work[p].pc \in {"send", "poll", "low"} => work[p].atts # {}
         /\ \A x \in todo[p] : x.att.pair = p /\ x.status \in Live
         /\ nextNonce[p] \in 0 .. MaxNonce + 1
         /\ paused[p] \in Reasons
         /\ final[p] <= ChainNonce(p)
    /\ confirming \subseteq Item
    /\ Cardinality(vanished) <= 1
    /\ pool \cup dead \subseteq Attempts /\ capped \in BOOLEAN

Executions(j) ==
    {<<p, i>> \in Pairs \X (1 .. MaxNonce + 1) :
        /\ i <= ChainNonce(p) /\ mined[p][i].tx # Foreign
        /\ mined[p][i].tx.owner = j /\ mined[p][i].tx.purpose = "job"}

\* README: a restart or crash never sends a job twice.  However sends, voids
\* and re-orgs interleave, the chain executes a job at most once.
ExecutedAtMostOnce == \A j \in Jobs : Cardinality(Executions(j)) <= 1

\* A job that failed never executed (api-contract.md, transaction.failed) and
\* no node holds a transaction of it that still could; a confirmed one is
\* final on the chain.
TerminalIsTrue ==
    \A j \in Jobs :
        /\ jobStatus[j] = "failed" =>
             /\ Executions(j) = {}
             /\ \A a \in pool : a.owner = j => a.purpose = "cancel"
        /\ jobStatus[j] = "confirmed" => \E a \in Attempts :
             a.owner = j /\ a.purpose = "job" /\ IsFinal(a)

\* Nothing reaches the network before its bytes are in the store, and a
\* transaction that the network still holds or has mined is never voided.
NetworkIsRecorded ==
    \A a \in Attempts : a \in pool \/ OnChain(a) => status[a] \notin {"absent", "dropped"}

\* recovery.rs:144-170: a worker signs for a nonce that nobody holds, and
\* below it none was left out, which would hold back all that follow.
NonceIsNext ==
    \A p \in Pairs : At(p, "prepare") =>
        /\ slot[p][work[p].nonce] = NoOwner
        /\ \A n \in 0 .. work[p].nonce - 1 : n < ChainNonce(p) \/ slot[p][n] # NoOwner

AtRest(p) ==
    /\ work[p].pc \in {"idle", "wait"} /\ Running(p)
    /\ settleQ = <<>> /\ confirming = {} /\ vanished = {}

\* A pair that is ready for the next job with nothing left to write or to
\* confirm has nothing in flight, and what is final on the chain is recorded
\* as confirmed.
NothingForgotten ==
    \A p \in Pairs : AtRest(p) => \A a \in Attempts : a.pair = p =>
        /\ status[a] \notin Live
        /\ IsFinal(a) => status[a] = "confirmed"

\* settle.rs never parks a write in dead_letters.
NoDeadLetter == dead = {}

\* The driver and recovery only ever ask the store for what AttemptStore
\* assumes of them: they bind fresh attempts, replace only what they still
\* wait for, and void only an attempt whose nonce was never settled.
DriverKeepsDiscipline == StoreSpec

\* What an operator sees of a pair that does not get on by itself.
Alerted == \E p \in Pairs : paused[p] \in {"stuck", "drift", "reorg"}

\* tx.rs:604-620: once the faults are over and the base fee is back within
\* the cap, a job ends for good, or its pair stays paused where an operator
\* can see it.
JobEndsOrAlerts == \A j \in Jobs : <>[](jobStatus[j] \in Terminal) \/ <>[]Alerted

\* recovery.rs:3-5, worker.rs:36: a recovery that somebody asked for is carried
\* out, unless the worker is parked at a stuck nonce, or missed the request
\* on its way to sleep and no job ever wakes it.
RecoveryRunsIfSeen ==
    \A p \in Pairs : recReq[p] ~> \/ At(p, "flush") \/ work[p].parked
                                  \/ [](At(p, "wait") /\ queue = {})

RelayFairness ==
    /\ \A p \in Pairs : WF_allVars(Loop(p) \/ Driver(p) \/ Recovery(p))
    /\ WF_allVars(Settler) /\ WF_allVars(Confirmer)
    /\ WF_allVars(\E a \in Attempts : Mine(a))
    /\ \A p \in Pairs : WF_allVars(Finalize(p))
    /\ WF_allVars(FeesFall)

RelayFairSpec == RelaySpec /\ RelayFairness

-----------------------------------------------------------------------------
(* What comments and documents say and the code does not always do.  The  *)
(* README tells the steps that lead there; no run checks these.           *)

\* tx.rs:57: after NotBound "the caller still owns the work item and may
\* requeue it": what is in the queue has no transaction of its own.
QueueIsUnbound == \A j \in queue : jobStatus[j] \in {"queued", "failed"}

\* recovery.rs:3-5: recovery runs "whenever something suggests the local
\* picture is wrong: [...] a confirmation check failed (re-org), [...] or an
\* operator asked for it".
RecoveryHappens == \A p \in Pairs : recReq[p] ~> At(p, "flush")

\* tx.rs:359: a parked nonce that lands after all heals the pair "without an
\* operator".
ParkedHeals ==
    [][\A p \in Pairs : work[p].parked /\ work'[p].pc = "idle"
          => paused'[p] \notin {"stuck", "drift"}]_allVars

\* tx.rs:669-670: while a cancel is not confirmed "every attempt stays
\* tracked, and if the original lands first the job simply succeeds".  So an
\* original that is final while its cancel is still in flight is one that
\* the store still tracks.
EveryAttemptStaysTracked ==
    \A a, c \in Attempts :
        /\ a.purpose = "job" /\ IsFinal(a)
        /\ c.purpose = "cancel" /\ SameNonce(a, c) /\ status[c] = "broadcast"
        => status[a] # "replaced"
=============================================================================
