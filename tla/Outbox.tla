------------------------------- MODULE Outbox -------------------------------
(***************************************************************************)
(* Webhook delivery: the claim loop and its deliverer tasks (webhook.rs)   *)
(* over the outbox table (store/outbox.rs).                                *)
(*                                                                         *)
(* An event is a job and its sequence number.  Time is one bit per row:    *)
(* due holds when next_attempt_at has passed.  A lease, a retry's backoff  *)
(* and a deferral all clear it, and Lapse sets it again.                   *)
(*                                                                         *)
(* There is one claim loop here.  In the program every instance runs one   *)
(* (main.rs:123) and the leases of the rows keep them apart; what two of   *)
(* them can do to a row is what a claim does whose lease has run out.      *)
(***************************************************************************)
EXTENDS Integers, FiniteSets

CONSTANTS
    Jobs, Hosts,
    HostOf,        \* the host of a job's webhook_url
    MaxSeq,        \* bound: events of a job
    MaxConcurrency, MaxPerHost, MaxAttempts,    \* of WebhookConfig
    Threshold,     \* consecutive failures that open the breaker
    Mishaps,       \* the faults a configuration allows
    MaxMishaps     \* bound: mishaps in one behaviour

ASSUME OutboxConstants ==
    /\ HostOf \in [Jobs -> Hosts] /\ MaxSeq \in Nat
    /\ {MaxConcurrency, MaxPerHost, MaxAttempts, Threshold} \subseteq Nat \ {0}
    /\ Mishaps \subseteq {"redeliver", "slow", "store", "restart"}

VARIABLES
    status,       \* webhook_deliveries.status, "absent" before the row exists
    due,          \* next_attempt_at <= now()
    attempts,     \* webhook_deliveries.attempts
    tasks,        \* spawned calls of deliver, each with a permit
    inFlight, failures, open,     \* HostState
    seen,         \* events that the receiver has processed
    abandoned,    \* history: events that were dead at some time
    mishaps       \* mishaps so far

rows  == <<status, due, attempts>>
hosts == <<inFlight, failures, open>>
outboxVars == <<rows, tasks, hosts, seen, abandoned, mishaps>>

Events == Jobs \X (1..MaxSeq)
Earlier(e) == {f \in Events : f[1] = e[1] /\ f[2] < e[2]}
Host(t) == HostOf[t.event[1]]

\* A task knows the attempts of its row as they were when it was claimed; id
\* tells apart the tasks of one event.
Tasks == [event : Events, id : 1..MaxConcurrency, attempts : Nat,
          pc : {"start", "post", "ok", "fail"}]

Suffer(m) == m \in Mishaps /\ mishaps < MaxMishaps /\ mishaps' = mishaps + 1
Fine == UNCHANGED mishaps

-----------------------------------------------------------------------------
\* Mutant of Enqueue: sequence numbers are not handed out in order.
EnqueueAnyTime(e) ==
    /\ status[e] = "absent"
    /\ status' = [status EXCEPT ![e] = "pending"] /\ due' = [due EXCEPT ![e] = TRUE]
    /\ UNCHANGED <<attempts, tasks, hosts, seen, abandoned>> /\ Fine

\* enqueue: the row is written with the state change of its job, whose row
\* lock orders the sequence numbers.
Enqueue(e) ==
    /\ status[e] = "absent" /\ \A f \in Earlier(e) : status[f] # "absent"
    /\ status' = [status EXCEPT ![e] = "pending"] /\ due' = [due EXCEPT ![e] = TRUE]
    /\ UNCHANGED <<attempts, tasks, hosts, seen, abandoned>> /\ Fine

\* A lease, a backoff or a deferral runs out.  A lease is longer than a
\* delivery takes, unless the delivery is slow to write its result.
Lapse(e) ==
    /\ status[e] = "pending" /\ ~due[e]
    /\ IF \E t \in tasks : t.event = e THEN Suffer("slow") ELSE Fine
    /\ due' = [due EXCEPT ![e] = TRUE]
    /\ UNCHANGED <<status, attempts, tasks, hosts, seen, abandoned>>

-----------------------------------------------------------------------------
\* Mutant of Claimable: events do not wait for earlier ones.
ClaimableAtOnce == {e \in Events : status[e] = "pending" /\ due[e]}

\* The subquery of claim_due_deliveries.
Claimable ==
    {e \in Events : status[e] = "pending" /\ due[e] /\ \A f \in Earlier(e) : status[f] # "pending"}

FreeId(e) == CHOOSE i \in 1..MaxConcurrency : \A t \in tasks : t.event = e => t.id # i

\* permits.available_permits().
Free == MaxConcurrency - Cardinality(tasks)

\* One turn of the loop of run, which is alone in taking permits: what it
\* claims it spawns.
Claim ==
    /\ Free > 0 /\ Claimable # {}
    /\ \E S \in SUBSET Claimable :
          /\ Cardinality(S) = IF Cardinality(Claimable) < Free THEN Cardinality(Claimable) ELSE Free
          /\ due' = [e \in Events |-> due[e] /\ e \notin S]
          /\ tasks' = tasks \cup
               {[event |-> e, id |-> FreeId(e), attempts |-> attempts[e], pc |-> "start"] : e \in S}
    /\ UNCHANGED <<status, attempts, hosts, seen, abandoned>> /\ Fine

-----------------------------------------------------------------------------
(* deliver.                                                                *)

At(t, p) == [event |-> t.event, id |-> t.id, attempts |-> t.attempts, pc |-> p]
Goes(t, p) == tasks' = (tasks \ {t}) \cup {At(t, p)}
Ends(t) == tasks' = tasks \ {t}

CanAcquire(h) == ~open[h] /\ inFlight[h] < MaxPerHost

\* try_acquire.  After the breaker's time is up nothing tells its host from
\* one whose breaker was never open, but its failures.
Acquire(t) ==
    /\ t.pc = "start" /\ CanAcquire(Host(t))
    /\ inFlight' = [inFlight EXCEPT ![Host(t)] = @ + 1]
    /\ Goes(t, "post")
    /\ UNCHANGED <<rows, failures, open, seen, abandoned>> /\ Fine

\* Mutant of Defer: it gives back a slot that it did not get.
DeferAndRelease(t) ==
    /\ t.pc = "start" /\ ~CanAcquire(Host(t))
    /\ due' = [due EXCEPT ![t.event] = @ /\ status[t.event] # "pending"]
    /\ inFlight' = [inFlight EXCEPT ![Host(t)] = @ - 1]
    /\ Ends(t)
    /\ UNCHANGED <<status, attempts, failures, open, seen, abandoned>> /\ Fine

\* Saturated or open: defer_delivery, which counts no attempt.
Defer(t) ==
    /\ t.pc = "start" /\ ~CanAcquire(Host(t))
    /\ due' = [due EXCEPT ![t.event] = @ /\ status[t.event] # "pending"]
    /\ Ends(t)
    /\ UNCHANGED <<status, attempts, hosts, seen, abandoned>> /\ Fine

\* Mutant of Release: only a success gives its slot back.
ReleaseOnSuccess(h, ok) ==
    /\ inFlight' = [inFlight EXCEPT ![h] = IF ok THEN @ - 1 ELSE @]
    /\ failures' = [failures EXCEPT ![h] = IF ok THEN 0 ELSE IF @ < Threshold THEN @ + 1 ELSE @]
    /\ open' = [open EXCEPT ![h] = @ \/ (~ok /\ failures'[h] >= Threshold)]

\* The count of failures matters up to the threshold: beyond it only the
\* breaker's time grows.
Release(h, ok) ==
    /\ inFlight' = [inFlight EXCEPT ![h] = @ - 1]
    /\ failures' = [failures EXCEPT ![h] = IF ok THEN 0 ELSE IF @ < Threshold THEN @ + 1 ELSE @]
    /\ open' = [open EXCEPT ![h] = @ \/ (~ok /\ failures'[h] >= Threshold)]

\* The receiver has processed the event when it answers 2xx, and may have
\* when the answer is another one or never comes.
Answer(t) ==
    /\ t.pc = "post"
    /\ \E ok \in BOOLEAN, processed \in BOOLEAN :
          /\ ok => processed
          /\ seen' = IF processed THEN seen \cup {t.event} ELSE seen
          /\ Release(Host(t), ok)
          /\ Goes(t, IF ok THEN "ok" ELSE "fail")
    /\ UNCHANGED <<rows, abandoned>> /\ Fine

MarkDelivered(t) ==
    /\ t.pc = "ok"
    /\ status' = [status EXCEPT ![t.event] = "delivered"]
    /\ attempts' = [attempts EXCEPT ![t.event] = @ + 1]
    /\ Ends(t)
    /\ UNCHANGED <<due, hosts, seen, abandoned>> /\ Fine

LastAttempt(t) == t.attempts + 1 >= MaxAttempts

\* Mutant of MarkFailed: it gives up an attempt early.
GiveUpEarly(t) ==
    /\ t.pc = "fail"
    /\ attempts' = [attempts EXCEPT ![t.event] = @ + 1]
    /\ IF t.attempts + 2 >= MaxAttempts
         THEN /\ status' = [status EXCEPT ![t.event] = "dead"]
              /\ abandoned' = abandoned \cup {t.event} /\ UNCHANGED due
         ELSE due' = [due EXCEPT ![t.event] = FALSE] /\ UNCHANGED <<status, abandoned>>
    /\ Ends(t)
    /\ UNCHANGED <<hosts, seen>> /\ Fine

\* Mutant of MarkFailed: the attempt is not counted.
FailUncounted(t) ==
    /\ t.pc = "fail"
    /\ due' = [due EXCEPT ![t.event] = FALSE]
    /\ Ends(t)
    /\ UNCHANGED <<status, attempts, hosts, seen, abandoned>> /\ Fine

MarkFailed(t) ==
    /\ t.pc = "fail"
    /\ attempts' = [attempts EXCEPT ![t.event] = @ + 1]
    /\ IF LastAttempt(t)
         THEN /\ status' = [status EXCEPT ![t.event] = "dead"]
              /\ abandoned' = abandoned \cup {t.event} /\ UNCHANGED due
         ELSE due' = [due EXCEPT ![t.event] = FALSE] /\ UNCHANGED <<status, abandoned>>
    /\ Ends(t)
    /\ UNCHANGED <<hosts, seen>> /\ Fine

\* The result, or the deferral, cannot be written.
RecordFails(t) ==
    /\ t.pc \in {"ok", "fail"} \/ (t.pc = "start" /\ ~CanAcquire(Host(t)))
    /\ Suffer("store") /\ Ends(t)
    /\ UNCHANGED <<rows, hosts, seen, abandoned>>

\* open_until passes.
BreakerLapse(h) ==
    /\ open[h] /\ open' = [open EXCEPT ![h] = FALSE]
    /\ UNCHANGED <<rows, tasks, inFlight, failures, seen, abandoned>> /\ Fine

-----------------------------------------------------------------------------
\* An operator makes a delivery due again, whatever its status.
Redeliver(e) ==
    /\ status[e] # "absent" /\ Suffer("redeliver")
    /\ status' = [status EXCEPT ![e] = "pending"] /\ due' = [due EXCEPT ![e] = TRUE]
    /\ UNCHANGED <<attempts, tasks, hosts, seen, abandoned>>

\* The process dies; posts that were under way may have arrived.
Restart ==
    /\ Suffer("restart")
    /\ \E arrived \in SUBSET {t.event : t \in {u \in tasks : u.pc = "post"}} : seen' = seen \cup arrived
    /\ tasks' = {}
    /\ inFlight' = [h \in Hosts |-> 0] /\ failures' = [h \in Hosts |-> 0] /\ open' = [h \in Hosts |-> FALSE]
    /\ UNCHANGED <<rows, abandoned>>

-----------------------------------------------------------------------------
OutboxInit ==
    /\ status = [e \in Events |-> "absent"] /\ due = [e \in Events |-> FALSE]
    /\ attempts = [e \in Events |-> 0] /\ tasks = {}
    /\ inFlight = [h \in Hosts |-> 0] /\ failures = [h \in Hosts |-> 0] /\ open = [h \in Hosts |-> FALSE]
    /\ seen = {} /\ abandoned = {} /\ mishaps = 0

Deliver(t) ==
    Acquire(t) \/ Defer(t) \/ Answer(t) \/ MarkDelivered(t) \/ MarkFailed(t)

OutboxNext ==
    \/ \E e \in Events : Enqueue(e) \/ Lapse(e) \/ Redeliver(e)
    \/ \E t \in tasks : Deliver(t) \/ RecordFails(t)
    \/ \E h \in Hosts : BreakerLapse(h)
    \/ Claim \/ Restart

OutboxSpec == OutboxInit /\ [][OutboxNext]_outboxVars

\* The loop wakes on a timer, a task runs to its end, timers fire.
OutboxFairness ==
    /\ WF_outboxVars(Claim)
    /\ WF_outboxVars(\E t \in tasks : t.pc # "start" /\ Deliver(t))
    /\ WF_outboxVars(\E t \in tasks : t.pc = "start" /\ Deliver(t))
    /\ \A e \in Events : WF_outboxVars(Lapse(e) /\ Fine)
    /\ \A h \in Hosts : WF_outboxVars(BreakerLapse(h))

OutboxFairSpec == OutboxSpec /\ OutboxFairness

-----------------------------------------------------------------------------
OutboxTypeOK ==
    /\ status \in [Events -> {"absent", "pending", "delivered", "dead"}]
    /\ due \in [Events -> BOOLEAN] /\ attempts \in [Events -> Nat]
    /\ tasks \subseteq Tasks
    /\ inFlight \in [Hosts -> Nat] /\ failures \in [Hosts -> 0..Threshold] /\ open \in [Hosts -> BOOLEAN]
    /\ seen \subseteq Events /\ abandoned \subseteq Events /\ mishaps \in 0..MaxMishaps

Posting(h) == {t \in tasks : t.pc = "post" /\ Host(t) = h}

\* webhook.rs:73-74, 126-127: in a process the pool and the cap per host hold, and a
\* host's slots are those of the posts under way: none leaks, whatever way
\* deliveries end.
SlotsAreExact ==
    /\ Cardinality(tasks) <= MaxConcurrency
    /\ \A h \in Hosts : inFlight[h] = Cardinality(Posting(h)) /\ inFlight[h] <= MaxPerHost

\* webhook.rs:3-7: an event counts as delivered only if its receiver has
\* processed it, and is given up only after max_attempts attempts, with
\* overlapping deliveries of the same row too.
NeverLost ==
    \A e \in Events :
        /\ status[e] = "delivered" => e \in seen
        /\ status[e] = "dead" => attempts[e] >= MaxAttempts

\* outbox.rs:94-95: a receiver first sees an event after the earlier events
\* of the job, except those that were given up.
SeenInOrder == \A e \in seen : Earlier(e) \subseteq seen \cup abandoned

\* SeenInOrder and NeverLost with what makes them inductive: the rows of a
\* job appear in order, a row leaves pending only for a reason, and a task
\* was claimed after all earlier events were through.
OutboxInv ==
    /\ status \in [Events -> {"absent", "pending", "delivered", "dead"}]
    /\ attempts \in [Events -> Nat]
    /\ \A e \in Events : status[e] # "absent" => \A f \in Earlier(e) : status[f] # "absent"
    /\ \A e \in Events : status[e] = "dead" => e \in abandoned
    /\ \A t \in tasks : /\ t.event \in Events /\ t.attempts \in 0..attempts[t.event]
                        /\ status[t.event] # "absent"
                        /\ Earlier(t.event) \subseteq seen \cup abandoned
                        /\ t.pc = "ok" => t.event \in seen
    /\ NeverLost /\ SeenInOrder

\* webhook.rs:5-6: every event is delivered or given up in the end.
EventSettles == \A e \in Events : status[e] = "pending" ~> status[e] \in {"delivered", "dead"}

-----------------------------------------------------------------------------
(* What comments and documents say and the code does not always do.  The  *)
(* README tells the steps that lead there; no run checks these.           *)

\* outbox.rs:95-96: "Receivers thus never see transaction.confirmed before
\* transaction.included": when an event is first seen, no later one was.
NeverSeenAfter ==
    [][\A e \in seen' \ seen, f \in seen : e \notin Earlier(f)]_outboxVars

\* webhook.rs:96: "half-open: let one through".
HalfOpenLetsOneThrough ==
    [][\A h \in Hosts :
          failures[h] >= Threshold /\ ~open[h] /\ inFlight[h] > 0 => inFlight'[h] <= inFlight[h]]_outboxVars
=============================================================================
