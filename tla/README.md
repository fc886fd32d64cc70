# gum-engine in TLA+

gum-engine relays transactions to EVM chains. A client submits a *job*; the engine signs it with one
of several keys, gives it a nonce, broadcasts it, watches it until it is final and tells the client by
webhook. This directory models the engine's protocol, model-checks it with TLC on small instances and
proves the store's and the outbox's part of it with TLAPS for instances of any size. Paths below are relative to
`src/crates/gum-engine/src/`.

## The system

| part | source | what it does |
|---|---|---|
| store | `store/attempts.rs`, `jobs.rs`, `misc.rs`, `outbox.rs` | Postgres transactions: the only durable state |
| driver | `pipeline/tx.rs` | one nonce from signature to receipt: sign, bind, broadcast, resolve |
| worker | `pipeline/worker.rs` | one per (signer, chain) pair; takes jobs from the chain's queue |
| recovery | `pipeline/recovery.rs` | brings a pair back in line with the chain, at boot and on request |
| settler | `pipeline/settle.rs` | one FIFO per chain that writes inclusions and confirmations behind the workers |
| confirmer | `chain/confirm.rs` | checks that an included transaction stays where it is; demotes it if not |
| pair | `engine.rs` | next nonce, pause reason, recovery request |
| leader, lease | `leader.rs`, `main.rs`, `store/lease.rs` | one instance at a time, fenced by an epoch |
| queue | `queue.rs` | a bounded window of the queued jobs, in memory |
| ingest | `api.rs`, `store/batcher.rs` | submission and administration |
| webhooks | `webhook.rs`, `store/outbox.rs` | delivery of the outbox |
| funds | `funds/` | balance ledger, reservations, top-ups from a treasury |
| chain health | `chain/monitor.rs`, `chain/mod.rs` | outage detection |
| chain kinds | `chain/adapter.rs`, `chain/kinds/` | per-chain policy: error classes, ladders, confirmation |
| RPC | `rpc/` | retries, breaker, limiter, credit meter |
| statistics | `stats.rs`, `pipeline/accounting.rs` | counters by bucket |

A worker binds an attempt (signed bytes plus nonce) in the store *before* it broadcasts. The receipt is
handed to the settler's queue and to the confirmer, and the worker goes on with the next nonce: the
store trails the chain. A re-org makes the confirmer demote the inclusion, pause the pair and ask for
recovery, which reads the live attempts and drives each nonce again with its stored bytes.

## Modules

| module | models |
|---|---|
| `JobContract` | the abstract promise about a job: its status and the log of its events |
| `AttemptStore` | every transaction of the store that moves a job, a top-up or an attempt |
| `Relay` | workers, driver, recovery, settler, confirmer, restarts and the chain, on top of `AttemptStore` |
| `JobQueue` | ingest, the queue window, the sweep, waiting workers, operator cancels, counters |
| `Outbox` | webhook delivery: claims, leases, host slots and breaker, retries, redelivery |
| `Ledger` | the balance ledger of a pair against the chain |
| `MCAttemptStore`, `MCRelay`, `MCJobQueue`, `MCOutbox`, `MCLedger` | instances for TLC |
| `JobContractProofs` | the contract's log tells the job's story |
| `AttemptStoreProofs` | the inductive invariant of the store, and what follows from it |
| `AttemptStoreRefinement` | the store implements `JobContract` |
| `AttemptStoreCounters` | gas ledger and rollups are exact |
| `OutboxProofs` | the inductive invariant of webhook delivery, and what follows from it |

`JobQueue`, `Outbox` and `Ledger` stand beside `Relay`, which they meet at its edges: `JobQueue` refines what `Relay` sees as a set of
jobs and takes a job in hand through the outcomes that `Relay` works out; `Outbox` delivers the rows that `AttemptStore` writes;
`Ledger` follows the money of one pair and keeps of the driver only when it reserves, settles and gives up.

### AttemptStore

A variable per table or column: `jobStatus`, `topupStatus`, `status` and `raw` of every possible attempt
(`"absent"` until it is inserted), `slot` (`nonce_slots`), `hwm` (`pairs.nonce_hwm`, -1 for NULL), `epoch`
(`lease_epoch`), `gas`, `rollup`, `webhookSeq` and `outbox`. One action per store method, each a
database transaction and so atomic. An attempt is identified by pair, nonce, owner, purpose and a serial that
tells the transactions of one nonce apart; amounts, hashes, blocks and receipts are left out.

Any caller may call at any time, including one that a new leader has superseded: bind and void carry the
epoch they believe in and are refused when it is old; settle, confirm and demote are not fenced in the
code, nor here. `BindCaller` and `VoidCaller` say what the methods expect of their callers (a fresh attempt; a
replacement of something still in flight; a void of an attempt that is the caller's to undo). The run `discipline` shows that the
pipeline keeps to them.

### Relay

`work[p]` is the worker of pair `p`: `pc` is the place in `worker::run`, `TxDriver::resolve` or
`recover_pair`, and the other fields are `InFlight` (attempts, ladder position, bumps, `never_accepted` as
`fresh`, `parked`) plus two flags of the call stack: `rec`, inside a recovery, and `esc`, in `on_nonce_too_low` from the ladder.
`settleQ` is the settler's channel with its flush barriers, `confirming` and `vanished` are the
confirmer's list and the item it is demoting. The chain is external: `mined[p]` is what took each nonce of the
pair on the canonical chain, `final[p]` how much of it is final, `pool` what some node holds.

A step is what happens between two awaits that another task, the store or the chain can observe. `Restart` may come
at any point and loses all of memory. What can go wrong is named (`Mishaps`) and counted
(`MaxMishaps`), so that each configuration says which faults it combines:
`lost` (answer to a send), `bind` and `void` (a store write reported as failed that may have committed), `cap` (the base fee is above what `max_fee_cap_wei` allows), `stale` (null receipts or
unanswered reads although the transaction is there), `drop` (eviction), `foreign` (the key is used elsewhere), `reorg`, `rival` (after a re-org a
node still has a replaced transaction), `fee`, `funds`, `requeue`, `admin` (job cancel), `recover` (resume or recovery request).

Abstractions a reader should know:

- a synchronous send that returns the receipt is `SendAccepted`, `Mine` and `PollReceipt`;
- `get_transaction_count` is never stale, and a receipt always names a block;
- on chains that confirm by block hash, a block that is canonical after the delay counts as final; Monad confirms by the finalized tag, so there `Confirm` is exact;
- a bind of a replacement or of a cancel that is reported as failed may have committed, wherever `bind` is among the mishaps (it is not counted);
- block numbers and hashes in the store (`update_inclusion_block`) are left out; a `demote_inclusion` that returns
  an error is retried until it is applied, so only its success is a step;
- the queue is a set: which job a worker takes is arbitrary, so order, window and sweep do not matter here;
- top-ups, ledger, statistics and telemetry are left out, and so are the pause reasons `manual`,
  `chain_outage` and `signer_unavailable`;
- `recover_pair` skips attempts without bytes; there are none (`LiveHasBytes`, proved).

### JobQueue

`row`, `signer` and `order` are the rows of `jobs` (`order` by `requeue_rank` and `seq`); `jobs` and `known` are those of
`queue.rs`; `permit` is the one that tokio's `Notify` stores, modelled from how `pop` and `try_pop` use it; `pc` says where a worker stands
between the check of an empty queue and its sleep; `count` is `stats.rs`. A job in hand ends in one of the dispositions of
`worker::run`. `LeftInFlight` is the outcome that asks for a recovery; `Unresolved` leaves the worker halted, and
`ResumePair` is an operator, who need not come. `admit` and the counter that follows it take two locks: `Counted` lets other tasks in between only as the
mishap `late`.

Left out: `overflow`, which is written and never read; idempotency keys (every request here has none); the credit cap, another way to answer 503;
chains that confirm at once (`Relay` has them). Succeeded and reverted are one bucket, `settled`.

### Outbox

Time is one bit per row, `due`. A claim and its spawns are one step, as the loop alone takes permits. There is one loop; in the program every
instance runs one (`main.rs:123-124`) and the leases of the rows keep them apart. Overlapping deliveries of one row come here from leases that run out (`Lapse` with `slow`), and
the permits, slots and breakers are those of one process. A task remembers the
`attempts` its row had when it was claimed, which is what `deliver` compares with `max_attempts`. `seen` is what the receiver
has processed, which is more than what it has acknowledged. Left out: how long a breaker stays open, and the trimming of the host map beyond 10,000
hosts.

### Ledger

`bal[b]` is the pair's balance in block `b`; a read returns that of some block at most `StampedLag` or `PlainLag` behind the tip. A read takes a
ticket, is answered, and is applied later, in three steps. Where the sweep found Multicall3 at its start (`multicall`, one of `Modes`) its reads know their
block; for all others `head` stands in, as in the code. A restart forgets the reservation; the transaction in flight may be mined, and sweeps applied,
before `Resume` reserves for it again. Left out: `unsettle` (re-orgs), the floor `signer_min_balance`, chains on which part of a balance cannot be spent, and how the
treasury decides: a top-up is a block that brings money and a later `credit`.

## Properties and runs

| run | configuration | checks | distinct states |
|---|---|---|---|
| `store` | 2 jobs, 1 top-up, 1 pair, 2 nonces, 2 attempts each, 2 epochs | all invariants of `AttemptStore`, `TerminalIsForever`, `KeepsContract` | 84,574 |
| `faults` | 2 jobs (one always rejected), 2 pairs, Monad's ladder, final inclusions, 2 mishaps of seven kinds, 1 restart | `ExecutedAtMostOnce`, `TerminalIsTrue`, `NetworkIsRecorded`, `NonceIsNext`, `NothingForgotten` | 432,080 |
| `reorg` | 2 jobs, 1 pair, Monad's ladder, delayed finality, a re-org, stale read or recovery request, 1 restart | `TerminalIsTrue`, `NothingForgotten`, `NoDeadLetter` | 668,463 |
| `discipline` | 1 job, geth's ladder, delayed finality, 2 mishaps of nine kinds (not `lost`), 1 restart | `DriverKeepsDiscipline`, `ExecutedAtMostOnce` | 79,360 |
| `live` | 1 job, geth's ladder, delayed finality, 2 mishaps of seven kinds, fair | `JobEndsOrAlerts`, `RecoveryRunsIfSeen` | 74,105 |
| `queue_safety` | 2 jobs, 2 workers, window 2, 2 mishaps of five kinds | `QueuedHeldOnce`, `NoLostWakeup` | 977,885 |
| `queue_restart` | 2 jobs, 1 worker, window 1, 2 mishaps of eleven kinds | `QueuedHeldOnce`, `KnownIsTracked`, `OverIsOver` | 961,152 |
| `queue_live` | 2 jobs, 1 worker, window 1, 2 mishaps of six kinds, fair | `QueuedIsTaken` | 94,246 |
| `outbox` | 1 job, 2 events, 2 attempts, 2 permits, 1 host slot, 3 mishaps, fair | `OutboxInv`, `NeverLost`, `SeenInOrder`, `SlotsAreExact`, `EventSettles` | 153,840 |
| `ledger_spends` | 2 transactions; stamped reads up to 2 blocks behind, plain ones not behind | `SpendableIsReal` | 2.8 million |
| `ledger_heals` | plain reads of the sweep 1 block behind, a maturing top-up, a recovery, a restart, fair | `LedgerConverges` | 120,159 |
| `sent_twice` | 1 job, a lost answer and a stale read | that `ExecutedAtMostOnce` is violated, see below | |

One run of each module also checks its type invariant.

What they say:

- `NonceBelongsToOwner`, `OneWinnerPerNonce`: attempts of a nonce belong to the owner of its slot, and one at most is mined.
- `SettlementApplies`, `NoDeadLetter`: a settlement written late still finds its job in a state it applies to.
- `JobFollowsAttempts`, `InFlightIsRecoverable`: a job's status agrees with its attempts; what is in flight keeps its bytes.
- `GasCountedOnce`, `RollupCountsTerminalJobs`: the counters equal what they count, through demotions.
- `OutboxTellsTheStory`, `KeepsContract`, `TerminalIsForever`: events are numbered from 1 without gaps, a second
  `included` says `reincluded`, the last event of a terminal job names its end, and nothing follows it.
- `ExecutedAtMostOnce`, `TerminalIsTrue`: the chain runs a job at most once; a failed job never ran and can no longer run; a confirmed one is final.
- `NetworkIsRecorded`, `NonceIsNext`, `NothingForgotten`: the store knows what the network holds, a worker signs for the
  next nonce, neither used nor with a gap below it, and a pair at rest has nothing in flight.
- `JobEndsOrAlerts`: once faults are over, every job ends for good or its pair stays paused with a reason an operator sees. Operators do not act in
  this run: one who resumes a pair whose worker is parked takes the alert away and nothing else.
- `RecoveryRunsIfSeen`: a recovery that is asked for runs, unless the worker is parked at a stuck nonce or missed the request.
- `DriverKeepsDiscipline`: `Relay` implements `StoreSpec`, as far as the instance goes, so what is proved of the store holds of the running engine.
  `lost` is not among its mishaps: with `stale` it leads to `sent_twice`.
- `QueuedHeldOnce`, `OverIsOver`: a job that can still be sent is in one place; copies of a job that is over do come up, and never bring it back.
- `KnownIsTracked`, `QueuedIsTaken`: no id stays known without its job, and every queued row is taken up, unless all workers wait for an operator for ever.
  A void that commits and is reported as failed breaks both, see below; only `queue_safety` has it.
- `NoLostWakeup`: while jobs wait, a worker sleeps only if another is on its way to the queue.
- `NeverLost`, `SeenInOrder`: webhooks are delivered at least once, or given up after `max_attempts`; they are first seen in order except those given up.
- `SlotsAreExact`, `EventSettles`: slots and permits neither leak nor exceed their caps, which are per process, and every event ends.
- `SpendableIsReal`: the ledger never lets a pair spend what is not there. It needs the ticket (`epoch`) for plain reads, and
  `as_of_block` for reads that tell their block.
- `LedgerConverges`: whatever the ledger missed or counted twice, later sweeps repair.

The bounds are small because the interesting cases are: two nonces let a later one be live while an
earlier one vanishes; two attempts per nonce give a replacement or a cancel and its rival; two jobs compete for a
nonce; one restart interrupts any step; two mishaps combine any two faults. `ExecutedAtMostOnce` is checked with `lost` in `faults` and with `stale` in `discipline`,
never with both, because together they break it, see below.

In `JobQueue` a window of one makes every second job overflow (`queue_restart`, `queue_live`), and two workers with two waiting jobs are enough to lose a wake-up (`queue_safety`). In `Outbox` two events have an order, and
two permits let deliveries of one row overlap. In `Ledger` two costs give a replacement, and each bound (`MaxTxs` and so on) caps one kind of event.
The sweep is not bounded; `MaxBadReads` bounds how many reads fail or lag.
`SpendableIsReal` is checked without lag for plain reads, without top-ups and without restarts, because with each of them the code breaks it
(`OldReadsIgnored`, `CountedOnce`, `NoOverdraft` below). `NonceIsNext` and `NothingForgotten` are
not checked in `discipline`, because a bind without an answer breaks them.

Deadlock is checked for `Ledger`, whose sweep never ends. Elsewhere it is not: with every job finished, and at the bounds, the model stops.

Fairness (`RelayFairSpec`): each worker, the settler and the confirmer take the step they can take, which tokio's scheduler
and the timers of their loops give. One wait has no timer: a worker that is not paused and finds no job (`worker.rs:51-55`). There it has no step
(`Sleep`) until a job comes (`Awake`) or a request wakes it (`WakePair`); a request that comes between the look at `worker.rs:37` and the wait may be missed, because
`notify_waiters` (`engine.rs:247`) stores no permit. The chain's part: a transaction some node holds is mined while the base fee lets it, a block becomes final, and
a base fee above the cap (`cap`) falls again. While it does not, the driver re-quotes at each look, stays on its rung and raises no alert (`tx.rs:529-532`, `654-656`).
`QueueFairSpec`: the sweep repeats on its timer, a blocked worker looks again every second, and a task that can run runs.
`OutboxFairSpec`: the claim loop wakes on a timer, a delivery ends (it has a timeout), leases, backoffs and breakers run out. `LedgerFairSpec`: worker,
treasury and sweep go on with what they began, and the chain mines.
Nothing is assumed of mishaps, operators or restarts.

### Where code and comments disagree

The run `sent_twice` keeps the one with the gravest outcome: a send whose answer is lost leaves `never_accepted` set; if the
transaction is then mined and the receipt reads are stale, `on_nonce_too_low` voids it as foreign and the job runs twice.
`pipeline/tx.rs:92` says that in this window "a 'nonce too low' can only mean somebody else's transaction took the nonce".

The others were found by TLC with the constants given, under the module's plain specification unless the row says fair. Each is stated as a property that names
the comment, in the last section of its module; `KnownIsTracked` alone is also checked by a run, with other mishaps.

| property | where | with | shows |
|---|---|---|---|
| `QueueIsUnbound` | `pipeline/tx.rs:227` | 1 job, `bind` | a bind that committed without an answer is reported as `NotBound` and the job goes back to the queue |
| `ParkedHeals` | `pipeline/tx.rs:359` | 1 job, `stale` three times | a nonce parked for `nonce_drift` that lands leaves the pair paused: `on_receipt` lifts `stuck_unresolved` and `insufficient_funds` only |
| `EveryAttemptStaysTracked` | `store/attempts.rs:307` | 1 job, `reorg`, `rival` | a re-org of a mined cancel leaves the original `replaced`, no longer watched, although it may land |
| `RecoveryHappens` | `pipeline/worker.rs:51` | 1 job, `reorg`, fair | a request that comes when the worker has looked and does not yet wait is missed: the demoted job stays `sent` and the pair paused until another job comes |
| `RecoveryHappens` | `pipeline/worker.rs:36` | 1 job, 3 of `drop` and `recover`, fair | a parked worker never takes a recovery request; an operator's resume lifts its pause all the same |
| `KnownIsTracked` | `pipeline/tx.rs:505` | 1 job, `unsure`, `left` | a void that commits and is reported as failed ("The binding stands") leaves a queued row whose id stays known, so no sweep offers it before a restart; `QueuedIsTaken` fails with `unsure` alone |
| `AdmitsOnlyQueued` | `leader.rs:182` | 1 job, no mishap | the sweep offers rows as it read them: a job that ended meanwhile is admitted again (and dropped at the bind) |
| `DepthIsCapped` | `api.rs:224` | 3 jobs, window 1, depth 2 | `max_depth` is compared with a counter of jobs in memory, which the window keeps far below it |
| `RefusedIsNotCommitted` | `store/batcher.rs:89` | 1 job, `insert` | a batch that commits without an answer is inserted again row by row, and the client is told 503 |
| `NotPickedWhileCancelled` | `api.rs:543` | 1 job, `cancel` | between the two steps of a cancel the sweep admits the job and a worker takes it |
| `CountedAtRest` | `pipeline/worker.rs:88` | 1 job, no mishap | a dropped copy of a job is counted as queued for ever |
| `CountedAtRest` | `api.rs:266` | 1 job, `late` | a job is counted after it is admitted; a quick worker leaves one too many in queued |
| `NeverSeenAfter` | `store/outbox.rs:101` | 1 job, 2 events, 1 attempt, `redeliver` | an event given up and redelivered comes after later ones |
| `HalfOpenLetsOneThrough` | `webhook.rs:96` | 2 jobs of one host with 2 slots, threshold 1 | a breaker whose time is up lets `max_per_host` through, not one |
| `OldReadsIgnored` | `funds/monitor.rs:135` | plain reads 1 block behind, 1 transaction | a plain read of a lagging node is stamped with the newest block observed and undoes a debit |
| `NoOverdraft` | `pipeline/recovery.rs:173` | stamped reads 1 block behind, 1 transaction, 1 restart | after a restart recovery stamps its balance with block 0, and a lagging sweep replaces it |
| `CountedOnce` | `funds/treasury.rs:173` | 1 top-up, reads not behind | a top-up that a sweep has seen is credited again until the next sweep |
| `RecoveredIsTruth` | `funds/ledger.rs:61` | 1 top-up that matures, 1 recovery | recovery sets the whole balance and leaves its maturing credits to be added again |

## Proofs

Of the store, for any finite or infinite sets of jobs, top-ups and pairs and any bounds, from `StoreConstants` alone:

- `StoreIsSafe`: `StoreSpec => []StoreInv`. The properties are not inductive by themselves. `SettlementApplies`, for one,
  needs that a job has attempts at one nonce only while it is in flight (`OneHome`), that the status of each attempt
  determines that of its job (`AttemptsDriveJob`) and conversely (`JobHasAttempt`), and that live attempts have
  bytes (`LiveHasBytes`); `StoreInv` is the conjunction. The proof has one lemma per action. `NoncesAreSafe`, `NoSettlementIsParked` and
  `JobsAreNotLost` follow from it, `TypeCorrect` comes first.
- `StoreKeepsContract`: each step of the store is a step of `JobContract` or leaves it alone, under the mapping that shows
  `cancelling` as `sent`. With `ContractTellsTheStory` this gives `OutboxIsAStory`, and it gives `TerminalStaysTerminal`.
- `GasIsCountedOnce` and `RollupIsExact`: each action changes the counted set by exactly what it adds to the counter; they rest on cardinality lemmas.

Of webhook delivery, for any jobs, hosts and limits, from `OutboxConstants`:

- `OutboxInductive`: `OutboxSpec => []OutboxInv`. `SeenInOrder` is not inductive: a post under way has passed the test of order long ago. `OutboxInv` adds
  that every task was claimed when all earlier events had been seen or given up, that rows of a job appear in order, that
  a task never knows more attempts than its row, and that a dead row was given up. `EventsSeenInOrder` and `EventsNeverLost` follow.

Only model-checked: everything about `JobQueue`, `Ledger` and `Relay` (its proof would need an invariant over all worker states), and liveness, which is out of the prover's reach.

## Not modelled, and the plan

In the order of what they would add:

1. `Ledger` with re-orgs (`unsettle`), and the treasury: amounts, hourly cap, requests and their timeouts.
2. `Lease`: lock, heartbeat, epoch and drain with two instances; broadcasts by a superseded leader.
3. `Pauses`: all eight reasons, the mirror in the store and the chain monitor.
4. Ingest with idempotency keys: replay, conflict, and retries of an ambiguous commit.
5. `Rpc`: breaker, retry and the limiter's two priorities.
6. Proofs of `JobQueue` (`QueuedHeldOnce`, `KnownIsTracked`) and of the ledger's safety.
7. Fee bumping as operators.

Left out for good: signers, configuration, telemetry and error wording hold no protocol state; `gum-bench` is a test rig.
