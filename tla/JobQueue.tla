------------------------------ MODULE JobQueue ------------------------------
(***************************************************************************)
(* How a job gets from a client to a worker: POST /v1/transactions         *)
(* (api.rs, store/batcher.rs), the durable queue (store/jobs.rs), the      *)
(* window of it that a chain keeps in memory (queue.rs), the sweep that    *)
(* pages rows in (leader.rs), the workers that wait for jobs (worker.rs)   *)
(* and an operator's cancel (api.rs), with the counters of stats.rs.       *)
(*                                                                         *)
(* Module Relay has what a worker does with a job; here a job in hand is   *)
(* prepared, then sent, and ends in one of the ways worker::run tells      *)
(* apart.  A worker's pc:                                                  *)
(*   top      at the top of the loop of worker::run                        *)
(*   pop      in JobQueue::pop, about to look at the queue                 *)
(*   checked  the queue was empty, notified.await comes next               *)
(*   asleep   waiting in notified.await                                    *)
(*   woken    notified, not yet running                                    *)
(*   blocked  paused, or the chain takes no work                           *)
(*   halted   paused until an operator resumes the pair                    *)
(*   prepare, send, bound   a job in hand: in process, in execute before   *)
(*            the bind, and after it                                       *)
(***************************************************************************)
EXTENDS Integers, FiniteSets, SequencesExt

CONSTANTS
    Jobs,        \* job ids
    Workers,     \* the pairs of the chain, a worker each
    Nobody,      \* no job, no signer
    Window,      \* queue.memory_window
    MaxDepth,    \* queue.max_depth
    Mishaps,     \* the faults a configuration allows
    MaxMishaps   \* bound: mishaps in one behaviour

ASSUME QueueConstants ==
    /\ Window \in Nat \ {0} /\ MaxDepth \in Nat
    /\ Nobody \notin Jobs \cup Workers
    /\ Mishaps \subseteq {"insert", "deploy", "block", "requeue", "void", "unsure", "left", "halt", "reorg",
                          "recover", "cancel", "store", "late", "restart"}

VARIABLES
    row,         \* jobs.status
    signer,      \* jobs.signer
    order,       \* the rows by requeue_rank and seq
    answer,      \* where the request of a job stands
    jobs,        \* JobQueue.jobs
    known,       \* JobQueue.known
    permit,      \* the permit that Notify stores
    pc, hand,    \* the workers
    swept,       \* rows that the sweep has read and not yet offered
    uncounted,   \* who had a job admitted and has not counted it yet
    cancelling,  \* operator cancels between remove and cancel_queued
    confirming,  \* how many pending confirmations a job has
    count,       \* Stats: by signer (Nobody before a signer has it) and bucket
    mishaps      \* mishaps so far

durable == <<row, signer, order>>
stage   == <<jobs, known>>
wakeups == <<permit, pc>>
offers  == <<swept, uncounted>>
queueVars == <<durable, answer, stage, wakeups, hand, offers, cancelling, confirming, count, mishaps>>

RowStatus == {"absent", "queued", "sent", "included", "cancelling", "confirmed", "failed"}
Buckets == {"queued", "processing", "in_flight", "included", "settled", "failed"}
PCs == {"top", "pop", "checked", "asleep", "woken", "blocked", "halted", "prepare", "send", "bound"}

Suffer(m) == m \in Mishaps /\ mishaps < MaxMishaps /\ mishaps' = mishaps + 1
Fine == UNCHANGED mishaps

-----------------------------------------------------------------------------
(* Stats: a transition subtracts with saturation.                          *)

Plus(c, k, b) == [c EXCEPT ![k][b] = @ + 1]

\* Mutant of Minus: the subtraction does not saturate.
MinusBelowZero(c, k, b) == [c EXCEPT ![k][b] = @ - 1]

Minus(c, k, b) == [c EXCEPT ![k][b] = IF @ = 0 THEN 0 ELSE @ - 1]
Moved(from, to) == Plus(Minus(count, from[1], from[2]), to[1], to[2])
Transition(from, to) == count' = Moved(from, to)

-----------------------------------------------------------------------------
(* tokio's Notify: notify_one wakes a waiter or stores the one permit.     *)

Asleep(pcs) == {w \in Workers : pcs[w] = "asleep"}

\* n calls of notify_one, after the workers moved to pcs.
Notify(n, pcs) ==
    \E S \in SUBSET Asleep(pcs) :
        /\ Cardinality(S) = IF Cardinality(Asleep(pcs)) < n THEN Cardinality(Asleep(pcs)) ELSE n
        /\ pc' = [w \in Workers |-> IF w \in S THEN "woken" ELSE pcs[w]]
        /\ permit' = (permit \/ Cardinality(S) < n)

Quiet(pcs) == pc' = pcs /\ UNCHANGED permit
Goes(w, p) == [pc EXCEPT ![w] = p]

-----------------------------------------------------------------------------
(* JobQueue.                                                               *)

\* Whoever has a job admitted counts it next, under another lock; the mishap
\* is a worker or a request that comes in between.
Counted(by) ==
    \/ count' = Plus(count, Nobody, "queued") /\ UNCHANGED uncounted /\ Fine
    \/ uncounted' = uncounted \cup {by} /\ UNCHANGED count /\ Suffer("late")

\* Mutants of Admit: known is not consulted; a job is known although it is
\* deferred.
AdmitAgain(j, by) ==
    IF Len(jobs) >= Window
      THEN UNCHANGED <<stage, wakeups, count, uncounted>> /\ Fine
      ELSE /\ known' = known \cup {j} /\ jobs' = Append(jobs, j)
           /\ Notify(1, pc) /\ Counted(by)

AdmitDeferred(j, by) ==
    IF j \in known \/ Len(jobs) >= Window
      THEN known' = known \cup {j} /\ UNCHANGED <<jobs, wakeups, count, uncounted>> /\ Fine
      ELSE /\ known' = known \cup {j} /\ jobs' = Append(jobs, j)
           /\ Notify(1, pc) /\ Counted(by)

\* A job that is known, or finds the window full, is left to the database.
\* by is the request that offers it, or Nobody for the sweep.
Admit(j, by) ==
    IF j \in known \/ Len(jobs) >= Window
      THEN UNCHANGED <<stage, wakeups, count, uncounted>> /\ Fine
      ELSE /\ known' = known \cup {j} /\ jobs' = Append(jobs, j)
           /\ Notify(1, pc) /\ Counted(by)

Forget(j) == known' = known \ {j} /\ UNCHANGED jobs

\* push_front by worker w, which then goes on at p.
PushFront(w, p) ==
    /\ jobs' = <<hand[w]>> \o jobs
    /\ known' = known \cup {hand[w]}
    /\ hand' = [hand EXCEPT ![w] = Nobody]
    /\ Notify(1, Goes(w, p))

Waiting(j) == j \in ToSet(jobs)

\* Mutant of Withdraw: the id stays known.
WithdrawJobOnly(j) == jobs' = SelectSeq(jobs, LAMBDA k : k # j) /\ UNCHANGED known

\* remove.
Withdraw(j) ==
    /\ jobs' = SelectSeq(jobs, LAMBDA k : k # j)
    /\ known' = IF Waiting(j) THEN known \ {j} ELSE known

-----------------------------------------------------------------------------
(* Ingest.  answer is none before the request, asked once it passed the    *)
(* depth check, created while its row is committed and the handler has yet *)
(* to offer it, then accepted (202), refused (503) or lost with the        *)
(* process.                                                                *)

Answer(j, a) == answer' = [answer EXCEPT ![j] = a]
SetRow(j, s, w) == row' = [row EXCEPT ![j] = s] /\ signer' = [signer EXCEPT ![j] = w]

Commit(j) ==
    /\ SetRow(j, "queued", Nobody)
    /\ order' = Append(order, j)

\* submit up to the backpressure check, which reads the counter.
Ask(j) ==
    /\ answer[j] = "none"
    /\ Answer(j, IF count[Nobody]["queued"] >= MaxDepth THEN "refused" ELSE "asked")
    /\ UNCHANGED <<durable, stage, wakeups, hand, offers, cancelling, confirming, count>> /\ Fine

Insert(j) ==
    /\ answer[j] = "asked"
    /\ Commit(j) /\ Answer(j, "created")
    /\ UNCHANGED <<stage, wakeups, hand, offers, cancelling, confirming, count>> /\ Fine

\* The batch commits and its answer is lost; inserted again row by row, a
\* row without an Idempotency-Key hits its own primary key.
InsertUnsure(j) ==
    /\ answer[j] = "asked" /\ Suffer("insert")
    /\ Commit(j) /\ Answer(j, "refused")
    /\ UNCHANGED <<stage, wakeups, hand, offers, cancelling, confirming, count>>

\* Another instance, still serving during a deploy, takes the request.
InsertElsewhere(j) ==
    /\ answer[j] = "none" /\ Suffer("deploy")
    /\ Commit(j) /\ Answer(j, "accepted")
    /\ UNCHANGED <<stage, wakeups, hand, offers, cancelling, confirming, count>>

\* The rest of submit.
Offer(j) ==
    /\ answer[j] = "created"
    /\ Answer(j, "accepted") /\ Admit(j, j)
    /\ UNCHANGED <<durable, hand, swept, cancelling, confirming>>

-----------------------------------------------------------------------------
(* The sweep reads the head of the durable queue, then offers row by row.  *)

QueuedRows == SelectSeq(order, LAMBDA j : row[j] = "queued")
LoadQueued == SubSeq(QueuedRows, 1, IF Len(QueuedRows) < Window THEN Len(QueuedRows) ELSE Window)

SweepRead ==
    /\ swept = <<>> /\ Nobody \notin uncounted /\ Len(jobs) < Window /\ QueuedRows # <<>>
    /\ swept' = LoadQueued
    /\ UNCHANGED <<durable, answer, stage, wakeups, hand, uncounted, cancelling, confirming, count>> /\ Fine

SweepOffer ==
    /\ swept # <<>> /\ Nobody \notin uncounted
    /\ swept' = Tail(swept) /\ Admit(Head(swept), Nobody)
    /\ UNCHANGED <<durable, answer, hand, cancelling, confirming>>

\* The counter of an admitted job, when it comes late.
Count(by) ==
    /\ by \in uncounted /\ uncounted' = uncounted \ {by}
    /\ count' = Plus(count, Nobody, "queued")
    /\ UNCHANGED <<durable, answer, stage, wakeups, hand, swept, cancelling, confirming>> /\ Fine

-----------------------------------------------------------------------------
(* A worker waits for a job.                                               *)

\* Recovery is requested for a pair that has a transaction in flight.
MustRecover(w) == \E j \in Jobs : row[j] = "sent" /\ signer[j] = w

Enter(w) ==
    /\ pc[w] = "top" /\ ~MustRecover(w)
    /\ Quiet(Goes(w, "pop"))
    /\ UNCHANGED <<durable, answer, stage, hand, offers, cancelling, confirming, count>> /\ Fine

Block(w) ==
    /\ pc[w] = "top" /\ Suffer("block") /\ Quiet(Goes(w, "blocked"))
    /\ UNCHANGED <<durable, answer, stage, hand, offers, cancelling, confirming, count>>

Unblock(w) ==
    /\ pc[w] = "blocked" /\ Quiet(Goes(w, "top"))
    /\ UNCHANGED <<durable, answer, stage, hand, offers, cancelling, confirming, count>> /\ Fine

\* Mutant of Take: the wake-up is not passed on.
TakeUnchained(w) ==
    /\ pc[w] = "pop" /\ jobs # <<>> /\ ~MustRecover(w)
    /\ jobs' = Tail(jobs) /\ UNCHANGED known
    /\ hand' = [hand EXCEPT ![w] = Head(jobs)]
    /\ Quiet(Goes(w, "prepare"))
    /\ Transition(<<Nobody, "queued">>, <<w, "processing">>)
    /\ UNCHANGED <<durable, answer, offers, cancelling, confirming>> /\ Fine

\* try_pop finds a job, and wakes another worker when more are waiting.
Take(w) ==
    /\ pc[w] = "pop" /\ jobs # <<>> /\ ~MustRecover(w)
    /\ jobs' = Tail(jobs) /\ UNCHANGED known
    /\ hand' = [hand EXCEPT ![w] = Head(jobs)]
    /\ IF Len(jobs) > 1 THEN Notify(1, Goes(w, "prepare")) ELSE Quiet(Goes(w, "prepare"))
    /\ Transition(<<Nobody, "queued">>, <<w, "processing">>)
    /\ UNCHANGED <<durable, answer, offers, cancelling, confirming>> /\ Fine

\* The pair was paused, or has to recover, since it began to wait: the job
\* goes back untouched, with a notification for each of try_pop and
\* push_front.
TakeBack(w) ==
    /\ pc[w] = "pop" /\ jobs # <<>>
    /\ IF MustRecover(w) THEN Fine ELSE Suffer("block")
    /\ known' = known \cup {Head(jobs)} /\ UNCHANGED jobs
    /\ Notify(IF Len(jobs) > 1 THEN 2 ELSE 1, Goes(w, "blocked"))
    /\ UNCHANGED <<durable, answer, hand, offers, cancelling, confirming, count>>

FindNothing(w) ==
    /\ pc[w] = "pop" /\ jobs = <<>> /\ Quiet(Goes(w, "checked"))
    /\ UNCHANGED <<durable, answer, stage, hand, offers, cancelling, confirming, count>> /\ Fine

Await(w) ==
    /\ pc[w] = "checked"
    /\ pc' = Goes(w, IF permit THEN "pop" ELSE "asleep") /\ permit' = FALSE
    /\ UNCHANGED <<durable, answer, stage, hand, offers, cancelling, confirming, count>> /\ Fine

Resume(w) ==
    /\ pc[w] = "woken" /\ Quiet(Goes(w, "pop"))
    /\ UNCHANGED <<durable, answer, stage, hand, offers, cancelling, confirming, count>> /\ Fine

\* pair.wake ends the wait; a notification that the dropped future had
\* received goes to another waiter.  (Module Relay has the request of another
\* task that this wait misses; here it is a WakePair that does not happen.)
WakePair(w) ==
    /\ pc[w] \in {"checked", "asleep", "woken"}
    /\ IF MustRecover(w) THEN Fine ELSE Suffer("block")
    /\ IF pc[w] = "woken" THEN Notify(1, Goes(w, "blocked")) ELSE Quiet(Goes(w, "blocked"))
    /\ UNCHANGED <<durable, answer, stage, hand, offers, cancelling, confirming, count>>

-----------------------------------------------------------------------------
(* A worker and its job.  The steps of process that do not bind are one    *)
(* step; a job in hand is counted as processing until execute begins.      *)

Drop(w, p) == hand' = [hand EXCEPT ![w] = Nobody] /\ Quiet(Goes(w, p))
ToFront(j) == order' = <<j>> \o SelectSeq(order, LAMBDA k : k # j)

\* Disposition::Dropped: somebody else has the job.
Discard(w) == Forget(hand[w]) /\ Drop(w, "top")

\* fail_unbound and Disposition::Failed.
FailUnbound(w) ==
    /\ pc[w] = "prepare" /\ row[hand[w]] = "queued"
    /\ SetRow(hand[w], "failed", Nobody) /\ UNCHANGED order
    /\ Discard(w)
    /\ Transition(<<w, "processing">>, <<w, "failed">>)
    /\ UNCHANGED <<answer, offers, cancelling, confirming>> /\ Fine

\* fail_unbound finds the job no longer queued.
FailNothing(w) ==
    /\ pc[w] = "prepare" /\ row[hand[w]] # "queued"
    /\ Discard(w)
    /\ Transition(<<w, "processing">>, <<Nobody, "queued">>)
    /\ UNCHANGED <<durable, answer, offers, cancelling, confirming>> /\ Fine

\* The estimate, the fees, the funds or the store are not there: the job
\* goes back to the front, in the store too when funds were short.
Requeue(w) ==
    /\ pc[w] = "prepare" /\ Suffer("requeue")
    /\ UNCHANGED <<row, signer>>
    /\ IF row[hand[w]] = "queued" THEN ToFront(hand[w]) \/ UNCHANGED order ELSE UNCHANGED order
    /\ PushFront(w, "top")
    /\ Transition(<<w, "processing">>, <<Nobody, "queued">>)
    /\ UNCHANGED <<answer, offers, cancelling, confirming>>

Execute(w) ==
    /\ pc[w] = "prepare" /\ Quiet(Goes(w, "send"))
    /\ Transition(<<w, "processing">>, <<w, "in_flight">>)
    /\ UNCHANGED <<durable, answer, stage, hand, offers, cancelling, confirming>> /\ Fine

\* Mutant of Bind: the status of the job is not compared.
BindBlindly(w) ==
    /\ pc[w] = "send"
    /\ SetRow(hand[w], "sent", w) /\ UNCHANGED order
    /\ Quiet(Goes(w, "bound"))
    /\ UNCHANGED <<answer, stage, hand, offers, cancelling, confirming, count>> /\ Fine

\* bind_attempt compares and sets the status.
Bind(w) ==
    /\ pc[w] = "send" /\ row[hand[w]] = "queued"
    /\ SetRow(hand[w], "sent", w) /\ UNCHANGED order
    /\ Quiet(Goes(w, "bound"))
    /\ UNCHANGED <<answer, stage, hand, offers, cancelling, confirming, count>> /\ Fine

\* NotBound(OwnerGone).
OwnerGone(w) ==
    /\ pc[w] = "send" /\ row[hand[w]] # "queued"
    /\ Discard(w)
    /\ Transition(<<w, "in_flight">>, <<Nobody, "queued">>)
    /\ UNCHANGED <<durable, answer, offers, cancelling, confirming>> /\ Fine

\* NotBound for any other reason.
NotBound(w) ==
    /\ pc[w] = "send" /\ Suffer("requeue")
    /\ PushFront(w, "top")
    /\ Transition(<<w, "in_flight">>, <<Nobody, "queued">>)
    /\ UNCHANGED <<durable, answer, offers, cancelling, confirming>>

\* Voided { requeued: true }.
Voided(w) ==
    /\ pc[w] = "bound" /\ row[hand[w]] = "sent" /\ Suffer("void")
    /\ SetRow(hand[w], "queued", Nobody) /\ ToFront(hand[w])
    /\ PushFront(w, "top")
    /\ Transition(<<w, "in_flight">>, <<Nobody, "queued">>)
    /\ UNCHANGED <<answer, offers, cancelling, confirming>>

\* Voided { requeued: false }.
FailBound(w) ==
    /\ pc[w] = "bound" /\ row[hand[w]] = "sent" /\ Suffer("void")
    /\ SetRow(hand[w], "failed", w) /\ UNCHANGED order
    /\ Discard(w)
    /\ Transition(<<w, "in_flight">>, <<w, "failed">>)
    /\ UNCHANGED <<answer, offers, cancelling, confirming>>

\* void_binding commits and is reported as failed: the driver goes on
\* polling for a transaction that will never be.
VoidUnsure(w) ==
    /\ pc[w] = "bound" /\ row[hand[w]] = "sent" /\ Suffer("unsure")
    /\ \/ SetRow(hand[w], "queued", Nobody) /\ ToFront(hand[w])
       \/ SetRow(hand[w], "failed", w) /\ UNCHANGED order
    /\ UNCHANGED <<answer, stage, wakeups, hand, offers, cancelling, confirming, count>>

\* NeedsRecovery: the worker recovers next.
LeftInFlight(w) ==
    /\ pc[w] = "bound" /\ Suffer("left")
    /\ Drop(w, "top")
    /\ UNCHANGED <<durable, answer, stage, offers, cancelling, confirming, count>>

\* Unresolved: nobody asks for a recovery, the pair waits for an operator.
Unresolved(w) ==
    /\ pc[w] = "bound" /\ Suffer("halt")
    /\ Drop(w, "halted")
    /\ UNCHANGED <<durable, answer, stage, offers, cancelling, confirming, count>>

\* admin_pair: an operator resumes the pair, which recovers.
ResumePair(w) ==
    /\ pc[w] = "halted" /\ Quiet(Goes(w, "top"))
    /\ UNCHANGED <<durable, answer, stage, hand, offers, cancelling, confirming, count>> /\ Fine

-----------------------------------------------------------------------------
(* accounting.rs, on a chain with a confirmation delay.  The settler's     *)
(* write of the inclusion (module Relay) is part of the step.              *)

\* mined, and the confirmation that is then pending.  The cancel of a stuck
\* job counts as in flight until it is confirmed.
Mined(j, w, s) ==
    /\ SetRow(j, s, w) /\ UNCHANGED order
    /\ confirming' = [confirming EXCEPT ![j] = @ + 1]
    /\ IF s = "included" THEN Transition(<<w, "in_flight">>, <<w, "included">>) ELSE UNCHANGED count
    /\ UNCHANGED <<answer, stage, offers, cancelling>> /\ Fine

Land(w) ==
    /\ pc[w] = "bound" /\ row[hand[w]] = "sent" /\ Drop(w, "top")
    /\ \E s \in {"included", "cancelling"} : Mined(hand[w], w, s)

\* Recovery drives what was left in flight.
RecoverSent(w) ==
    /\ pc[w] = "top" /\ UNCHANGED <<wakeups, hand>>
    /\ \E j \in Jobs, s \in {"included", "cancelling"} :
          /\ signer[j] = w /\ row[j] = "sent"
          /\ Mined(j, w, s)

\* Recovery finds an inclusion on the chain and has it confirmed, also when
\* a confirmation is already pending.
RecoverIncluded(w) ==
    /\ pc[w] = "top"
    /\ \E j \in Jobs :
          /\ signer[j] = w /\ row[j] \in {"included", "cancelling"}
          /\ IF confirming[j] = 0 THEN Fine ELSE Suffer("recover")
          /\ confirming' = [confirming EXCEPT ![j] = @ + 1]
    /\ UNCHANGED <<durable, answer, stage, wakeups, hand, offers, cancelling, count>>

\* confirmed and cancelled, whatever the store makes of the confirmation: it
\* does nothing unless the attempt is included.
Confirm(j) ==
    /\ confirming[j] > 0
    /\ confirming' = [confirming EXCEPT ![j] = @ - 1]
    /\ Forget(j)
    /\ LET cancel == row[j] \in {"cancelling", "failed"}
       IN  /\ SetRow(j, CASE row[j] = "included"   -> "confirmed"
                          [] row[j] = "cancelling" -> "failed"
                          [] OTHER                 -> row[j], signer[j])
           /\ IF cancel THEN Transition(<<signer[j], "in_flight">>, <<signer[j], "failed">>)
                        ELSE Transition(<<signer[j], "included">>, <<signer[j], "settled">>)
    /\ UNCHANGED <<order, answer, wakeups, hand, offers, cancelling>> /\ Fine

\* The confirmer finds the inclusion gone; recovery resumes the job.
Demote(j) ==
    /\ confirming[j] > 0 /\ row[j] = "included" /\ Suffer("reorg")
    /\ confirming' = [confirming EXCEPT ![j] = @ - 1]
    /\ SetRow(j, "sent", signer[j])
    /\ Transition(<<signer[j], "included">>, <<signer[j], "in_flight">>)
    /\ UNCHANGED <<order, answer, stage, wakeups, hand, offers, cancelling>>

-----------------------------------------------------------------------------
(* An operator cancels a queued job: out of memory, then in the store.     *)

CancelBegin(j) ==
    /\ row[j] # "absent" /\ cancelling[j] = "no" /\ Suffer("cancel")
    /\ cancelling' = [cancelling EXCEPT ![j] = IF Waiting(j) THEN "waiting" ELSE "elsewhere"]
    /\ Withdraw(j)
    /\ UNCHANGED <<durable, answer, wakeups, hand, offers, confirming, count>>

CancelEnd(j) ==
    /\ cancelling[j] # "no"
    /\ cancelling' = [cancelling EXCEPT ![j] = "no"]
    /\ IF row[j] = "queued"
         THEN /\ SetRow(j, "failed", Nobody)
              /\ IF cancelling[j] = "waiting"
                   THEN Transition(<<Nobody, "queued">>, <<Nobody, "failed">>)
                   ELSE count' = Plus(count, Nobody, "failed")
         ELSE UNCHANGED <<row, signer, count>>
    /\ UNCHANGED <<order, answer, stage, wakeups, hand, offers, confirming>> /\ Fine

\* cancel_queued fails: the request answers 503 and the job stays queued.
CancelBreak(j) ==
    /\ cancelling[j] # "no" /\ Suffer("store")
    /\ cancelling' = [cancelling EXCEPT ![j] = "no"]
    /\ UNCHANGED <<durable, answer, stage, wakeups, hand, offers, confirming, count>>

-----------------------------------------------------------------------------
(* leader::start: counters and queue are rebuilt from the store.           *)

StoredBucket == [queued |-> "queued", sent |-> "in_flight", cancelling |-> "in_flight",
                 included |-> "included", confirmed |-> "settled", failed |-> "failed"]

Rebuilt(loaded) ==
    [k \in Workers \cup {Nobody} |-> [b \in Buckets |->
        Cardinality({j \in Jobs : /\ row[j] # "absent" /\ signer[j] = k /\ StoredBucket[row[j]] = b
                                  /\ row[j] = "queued" => j \in loaded})]]

Restart ==
    /\ Suffer("restart")
    /\ jobs' = LoadQueued /\ known' = ToSet(LoadQueued) /\ permit' = (LoadQueued # <<>>)
    /\ pc' = [w \in Workers |-> "top"] /\ hand' = [w \in Workers |-> Nobody]
    /\ swept' = <<>> /\ uncounted' = {} /\ cancelling' = [j \in Jobs |-> "no"] /\ confirming' = [j \in Jobs |-> 0]
    /\ count' = Rebuilt(ToSet(LoadQueued))
    /\ answer' = [j \in Jobs |-> IF answer[j] \in {"asked", "created"} THEN "lost" ELSE answer[j]]
    /\ UNCHANGED durable

-----------------------------------------------------------------------------
QueueInit ==
    /\ row = [j \in Jobs |-> "absent"] /\ signer = [j \in Jobs |-> Nobody]
    /\ order = <<>> /\ answer = [j \in Jobs |-> "none"]
    /\ jobs = <<>> /\ known = {} /\ permit = FALSE
    /\ pc = [w \in Workers |-> "top"] /\ hand = [w \in Workers |-> Nobody]
    /\ swept = <<>> /\ uncounted = {} /\ cancelling = [j \in Jobs |-> "no"] /\ confirming = [j \in Jobs |-> 0]
    /\ count = [k \in Workers \cup {Nobody} |-> [b \in Buckets |-> 0]]
    /\ mishaps = 0

Ingest(j) == Ask(j) \/ Insert(j) \/ InsertUnsure(j) \/ InsertElsewhere(j) \/ Offer(j)
Wait(w) ==
    \/ Enter(w) \/ Block(w) \/ Unblock(w) \/ Take(w) \/ TakeBack(w) \/ FindNothing(w)
    \/ Await(w) \/ Resume(w) \/ WakePair(w)
Process(w) ==
    \/ FailUnbound(w) \/ FailNothing(w) \/ Requeue(w) \/ Execute(w) \/ Bind(w) \/ OwnerGone(w)
    \/ NotBound(w) \/ Voided(w) \/ FailBound(w) \/ VoidUnsure(w) \/ LeftInFlight(w)
    \/ Unresolved(w) \/ Land(w)
Recover(w) == RecoverSent(w) \/ RecoverIncluded(w)
Operator(j) == CancelBegin(j) \/ CancelEnd(j) \/ CancelBreak(j)

QueueNext ==
    \/ \E j \in Jobs : Ingest(j) \/ Confirm(j) \/ Demote(j) \/ Operator(j)
    \/ \E w \in Workers : Wait(w) \/ Process(w) \/ Recover(w) \/ ResumePair(w)
    \/ \E by \in Jobs \cup {Nobody} : Count(by)
    \/ SweepRead \/ SweepOffer \/ Restart

QueueSpec == QueueInit /\ [][QueueNext]_queueVars

\* Tasks of the runtime run when they can; the sweep repeats on a timer and
\* a blocked worker looks again every second.  An operator need not come.
QueueFairness ==
    /\ WF_queueVars(SweepRead) /\ WF_queueVars(SweepOffer)
    /\ \A by \in Jobs \cup {Nobody} : WF_queueVars(Count(by))
    /\ \A j \in Jobs : WF_queueVars(Offer(j))
    /\ \A w \in Workers : WF_queueVars(Wait(w) \/ Process(w) \/ RecoverSent(w))

QueueFairSpec == QueueSpec /\ QueueFairness

-----------------------------------------------------------------------------
InHand(j) == {w \in Workers : hand[w] = j}
Held(j) == Cardinality({i \in DOMAIN jobs : jobs[i] = j}) + Cardinality(InHand(j))

QueueTypeOK ==
    /\ row \in [Jobs -> RowStatus] /\ signer \in [Jobs -> Workers \cup {Nobody}]
    /\ order \in Seq(Jobs) /\ jobs \in Seq(Jobs) /\ swept \in Seq(Jobs) /\ known \subseteq Jobs
    /\ uncounted \subseteq Jobs \cup {Nobody}
    /\ answer \in [Jobs -> {"none", "asked", "created", "accepted", "refused", "lost"}]
    /\ permit \in BOOLEAN /\ pc \in [Workers -> PCs] /\ hand \in [Workers -> Jobs \cup {Nobody}]
    /\ cancelling \in [Jobs -> {"no", "waiting", "elsewhere"}]
    /\ confirming \in [Jobs -> Nat]
    /\ count \in [Workers \cup {Nobody} -> [Buckets -> Nat]] /\ mishaps \in 0..MaxMishaps

\* queue.rs:3-6: a job that can still be sent is in the queue or in a
\* worker's hands at most once, whoever offers it and however often.
QueuedHeldOnce == \A j \in Jobs : row[j] = "queued" => Held(j) <= 1

\* queue.rs:3-4: known covers a job until it is terminal or handed back.  An
\* id that is known and nowhere to be found would never be swept in again
\* (its job would wait for a restart) or would never be freed.
KnownIsTracked ==
    \A j \in known : Held(j) > 0 \/ row[j] \in {"sent", "included", "cancelling"}

\* queue.rs:73, 87: while jobs wait, no worker sleeps unless another one is
\* on its way to the queue.
NoLostWakeup ==
    jobs # <<>> /\ Asleep(pc) # {} => \E w \in Workers : pc[w] \in {"woken", "pop"}

\* queue.rs:6-7: "even a duplicate could never be sent twice".  Copies of a
\* job that is over reach the workers; its row stays as it is.
OverIsOver ==
    [][\A j \in Jobs : row[j] \in {"confirmed", "failed"} => row'[j] = row[j]]_queueVars

\* leader.rs sweep: every queued row is taken up sooner or later, those that
\* did not fit the window too, unless every worker waits for an operator who
\* never comes.
QueuedIsTaken ==
    \A j \in Jobs : row[j] = "queued" ~> (row[j] # "queued" \/ [](\A w \in Workers : pc[w] = "halted"))

-----------------------------------------------------------------------------
(* What comments and documents say and the code does not always do.  The  *)
(* README tells the steps that lead there; no run checks these.           *)

\* queue.rs:4-5: "double enqueueing impossible regardless of who offers the
\* job": what enters the queue is still queued in the store.
AdmitsOnlyQueued == [][\A j \in known' \ known : row[j] = "queued"]_queueVars

\* config.rs:152: "Per-chain cap on queued jobs; beyond it POST
\* /v1/transactions answers 503", at least while no other request is under
\* way.
DepthIsCapped ==
    [][\A j \in Jobs :
          /\ answer[j] = "none" /\ answer'[j] = "asked"
          /\ \A k \in Jobs : answer[k] \notin {"asked", "created"}
          => Len(QueuedRows) < MaxDepth]_queueVars

\* batcher.rs:45: the answer comes "once the job is committed (or
\* definitively not)".
RefusedIsNotCommitted == \A j \in Jobs : answer[j] = "refused" => row[j] = "absent"

\* api.rs:542: "no worker can pick it up between the two steps".
NotPickedWhileCancelled == \A j \in Jobs : cancelling[j] = "waiting" => InHand(j) = {}

\* docs/api-contract.md:129: "At rest only the last three are non-zero."
AtRest ==
    /\ uncounted = {}
    /\ \A j \in Jobs : row[j] \in {"absent", "confirmed", "failed"} /\ Held(j) = 0
                       /\ confirming[j] = 0 /\ cancelling[j] = "no"
CountedAtRest ==
    AtRest => \A k \in Workers \cup {Nobody}, b \in Buckets \ {"settled", "failed"} : count[k][b] = 0
=============================================================================
