---------------------------- MODULE OutboxProofs ----------------------------
(* The order and the honesty of webhook delivery, for every number of      *)
(* jobs, events, tasks and mishaps.                                        *)
EXTENDS Outbox, TLAPS

\* max_attempts is a count.
LEMMA MaxIsNat == MaxAttempts \in Nat
  BY OutboxConstants

\* Every outbox starts empty.
LEMMA OutboxInitInv == OutboxInit => OutboxInv
  BY DEF OutboxInit, OutboxInv, NeverLost, SeenInOrder

\* Actions that change neither a status nor what was seen, and add no task,
\* keep the invariant; so do those that only move a task on.
LEMMA QuietTasks ==
  ASSUME OutboxInv, UNCHANGED <<status, attempts, seen, abandoned>>,
         \A u \in tasks' : \E t \in tasks :
            /\ u.event = t.event /\ u.attempts = t.attempts
            /\ u.pc = "ok" => t.pc = "ok"
  PROVE  OutboxInv'
  BY DEF OutboxInv, NeverLost, SeenInOrder, Earlier, Events

\* An event is written after the earlier events of its job.
LEMMA EnqueueInv ==
  ASSUME OutboxInv, NEW e \in Events, Enqueue(e)
  PROVE  OutboxInv'
  <1> USE DEF Enqueue
  <1>1. /\ status' \in [Events -> {"absent", "pending", "delivered", "dead"}]
        /\ \A f \in Events : f # e => status'[f] = status[f]
        /\ status'[e] = "pending"
    BY DEF OutboxInv
  <1>2. \A f \in Events : status'[f] # "absent" => \A g \in Earlier(f) : status'[g] # "absent"
    <2>1. \A f \in Events : Earlier(f) \subseteq Events
      BY DEF Earlier
    <2> QED BY <1>1, <2>1 DEF OutboxInv
  <1>3. \A t \in tasks : status'[t.event] # "absent"
    BY <1>1 DEF OutboxInv
  <1> QED BY <1>1, <1>2, <1>3 DEF OutboxInv, NeverLost, SeenInOrder, Earlier

\* What is claimed has no earlier event pending, so each of them was seen or
\* given up.
LEMMA ClaimInv ==
  ASSUME OutboxInv, Claim
  PROVE  OutboxInv'
  <1> USE DEF Claim
  <1>1. PICK S \in SUBSET Claimable :
          tasks' = tasks \cup
            {[event |-> e, id |-> FreeId(e), attempts |-> attempts[e], pc |-> "start"] : e \in S}
    OBVIOUS
  <1>2. ASSUME NEW e \in Claimable
        PROVE  e \in Events /\ status[e] = "pending" /\ Earlier(e) \subseteq seen \cup abandoned
    <2>1. e \in Events /\ status[e] = "pending" /\ \A f \in Earlier(e) : status[f] # "pending"
      BY DEF Claimable
    <2>2. \A f \in Earlier(e) : f \in Events /\ status[f] \in {"delivered", "dead"}
      BY <2>1 DEF OutboxInv, Earlier
    <2> QED BY <2>1, <2>2 DEF OutboxInv, NeverLost
  <1>3. ASSUME NEW t \in tasks'
        PROVE  /\ t.event \in Events /\ t.attempts \in 0..attempts[t.event]
               /\ status[t.event] # "absent"
               /\ Earlier(t.event) \subseteq seen \cup abandoned
               /\ t.pc = "ok" => t.event \in seen
    <2>1. CASE t \in tasks
      BY <2>1 DEF OutboxInv
    <2>2. CASE t \notin tasks
      <3>1. PICK e \in S : t.event = e /\ t.attempts = attempts[e] /\ t.pc = "start"
        BY <1>1, <2>2
      <3>2. attempts[e] \in 0..attempts[e]
        BY <1>2 DEF OutboxInv
      <3> QED BY <1>2, <3>1, <3>2
    <2> QED BY <2>1, <2>2
  <1> QED BY <1>3 DEF OutboxInv, NeverLost, SeenInOrder, Earlier, Events

\* A receiver that processes the event of a task has seen the earlier ones.
LEMMA AnswerInv ==
  ASSUME OutboxInv, NEW t \in tasks, Answer(t)
  PROVE  OutboxInv'
  <1> USE DEF Answer
  <1>1. PICK ok \in BOOLEAN, processed \in BOOLEAN :
          /\ ok => processed
          /\ seen' = IF processed THEN seen \cup {t.event} ELSE seen
          /\ tasks' = (tasks \ {t}) \cup {At(t, IF ok THEN "ok" ELSE "fail")}
    BY DEF Goes
  <1>2. UNCHANGED <<status, attempts, abandoned>> /\ seen \subseteq seen'
    BY <1>1 DEF rows
  <1>3. ASSUME NEW u \in tasks'
        PROVE  /\ u.event \in Events /\ u.attempts \in 0..attempts[u.event]
               /\ status[u.event] # "absent"
               /\ Earlier(u.event) \subseteq seen' \cup abandoned
               /\ u.pc = "ok" => u.event \in seen'
    <2>1. CASE u \in tasks
      BY <1>2, <2>1 DEF OutboxInv
    <2>2. CASE u = At(t, IF ok THEN "ok" ELSE "fail")
      <3>1. u.event = t.event /\ u.attempts = t.attempts /\ (u.pc = "ok" => ok)
        BY <2>2 DEF At
      <3> QED BY <1>1, <1>2, <3>1 DEF OutboxInv
    <2> QED BY <1>1, <2>1, <2>2
  <1>4. SeenInOrder'
    BY <1>1, <1>2 DEF OutboxInv, SeenInOrder, Earlier, Events
  <1>5. NeverLost'
    BY <1>2 DEF OutboxInv, NeverLost
  <1> QED BY <1>2, <1>3, <1>4, <1>5 DEF OutboxInv, Earlier, Events

\* Recording a 2xx: the receiver has seen the event.
LEMMA MarkDeliveredInv ==
  ASSUME OutboxInv, NEW t \in tasks, MarkDelivered(t)
  PROVE  OutboxInv'
  <1> USE DEF MarkDelivered
  <1>1. /\ t.event \in Events /\ t.event \in seen /\ status[t.event] # "absent"
        /\ tasks' \subseteq tasks /\ UNCHANGED <<seen, abandoned>>
    BY DEF OutboxInv, Ends
  <1>2. /\ status' \in [Events -> {"absent", "pending", "delivered", "dead"}]
        /\ \A e \in Events : status'[e] = IF e = t.event THEN "delivered" ELSE status[e]
    BY <1>1 DEF OutboxInv
  <1>3. /\ attempts' \in [Events -> Nat]
        /\ \A e \in Events : attempts[e] \in Nat /\ attempts'[e] \in Nat /\ attempts'[e] >= attempts[e]
    BY <1>1 DEF OutboxInv
  <1>4. \A e \in Events : status'[e] # "absent" => \A f \in Earlier(e) : status'[f] # "absent"
    BY <1>1, <1>2 DEF OutboxInv, Earlier
  <1>5. \A u \in tasks' : u.event \in Events /\ u.attempts \in 0..attempts'[u.event]
    BY <1>1, <1>3 DEF OutboxInv
  <1>6. NeverLost'
    BY <1>1, <1>2, <1>3, MaxIsNat DEF OutboxInv, NeverLost
  <1> QED BY <1>1, <1>2, <1>3, <1>4, <1>5, <1>6 DEF OutboxInv, SeenInOrder, Earlier, Events

\* Recording a failure: the last one gives the event up.
LEMMA MarkFailedInv ==
  ASSUME OutboxInv, NEW t \in tasks, MarkFailed(t)
  PROVE  OutboxInv'
  <1> USE DEF MarkFailed
  <1>1. /\ t.event \in Events /\ status[t.event] # "absent"
        /\ t.attempts \in 0..attempts[t.event]
        /\ tasks' \subseteq tasks /\ UNCHANGED seen /\ abandoned \subseteq abandoned'
    BY DEF OutboxInv, Ends
  <1>2. /\ status' \in [Events -> {"absent", "pending", "delivered", "dead"}]
        /\ \A e \in Events : e # t.event => status'[e] = status[e]
        /\ status'[t.event] # "absent"
    BY <1>1 DEF OutboxInv
  <1>3. /\ attempts' \in [Events -> Nat]
        /\ \A e \in Events : attempts[e] \in Nat /\ attempts'[e] \in Nat /\ attempts'[e] >= attempts[e]
        /\ attempts'[t.event] = attempts[t.event] + 1
    BY <1>1 DEF OutboxInv
  <1>4. \A e \in Events : status'[e] # "absent" => \A f \in Earlier(e) : status'[f] # "absent"
    BY <1>1, <1>2 DEF OutboxInv, Earlier
  <1>5. \A u \in tasks' : u.event \in Events /\ u.attempts \in 0..attempts'[u.event]
    BY <1>1, <1>3 DEF OutboxInv
  <1>6. \A e \in Events : status'[e] = "dead" => e \in abandoned' /\ attempts'[e] >= MaxAttempts
    <2>1. CASE LastAttempt(t)
      BY <1>1, <1>2, <1>3, <2>1, MaxIsNat DEF OutboxInv, NeverLost, LastAttempt
    <2>2. CASE ~LastAttempt(t)
      BY <1>1, <1>2, <1>3, <2>2, MaxIsNat DEF OutboxInv, NeverLost
    <2> QED BY <2>1, <2>2
  <1>7. \A e \in Events : status'[e] = "delivered" => e \in seen'
    BY ZenonT(60), <1>1, <1>2 DEF OutboxInv, NeverLost
  <1>8. \A u \in tasks' : status'[u.event] # "absent"
    BY <1>1, <1>2, <1>5 DEF OutboxInv
  <1>9. \A u \in tasks' : /\ Earlier(u.event) \subseteq seen' \cup abandoned'
                          /\ u.pc = "ok" => u.event \in seen'
    BY <1>1 DEF OutboxInv
  <1>10. SeenInOrder'
    BY <1>1 DEF OutboxInv, SeenInOrder, Earlier, Events
  <1>11. NeverLost'
    BY <1>6, <1>7 DEF NeverLost, Events
  <1> QED BY <1>2, <1>3, <1>4, <1>5, <1>6, <1>8, <1>9, <1>10, <1>11 DEF OutboxInv, Earlier, Events

\* A redelivered event is pending again.
LEMMA RedeliverInv ==
  ASSUME OutboxInv, NEW e \in Events, Redeliver(e)
  PROVE  OutboxInv'
  <1> USE DEF Redeliver
  <1>1. /\ status' \in [Events -> {"absent", "pending", "delivered", "dead"}]
        /\ \A f \in Events : status'[f] = IF f = e THEN "pending" ELSE status[f]
        /\ status[e] # "absent"
    BY DEF OutboxInv
  <1>2. \A f \in Events : status'[f] # "absent" => \A g \in Earlier(f) : status'[g] # "absent"
    BY <1>1 DEF OutboxInv, Earlier
  <1> QED BY <1>1, <1>2 DEF OutboxInv, NeverLost, SeenInOrder, Earlier, Events

\* A crash drops the tasks; what they were posting may have been seen.
LEMMA RestartInv ==
  ASSUME OutboxInv, Restart
  PROVE  OutboxInv'
  <1>1. /\ UNCHANGED <<status, attempts, abandoned>> /\ tasks' = {} /\ seen \subseteq seen'
        /\ \A e \in seen' \ seen : \E t \in tasks : e = t.event
    BY DEF Restart, rows
  <1>2. SeenInOrder'
    BY <1>1 DEF OutboxInv, SeenInOrder, Earlier, Events
  <1> QED BY <1>1, <1>2 DEF OutboxInv, NeverLost, Earlier, Events

\* Every step keeps the invariant.
LEMMA OutboxNextInv ==
  ASSUME OutboxInv, [OutboxNext]_outboxVars
  PROVE  OutboxInv'
  <1>1. ASSUME NEW e \in Events, Lapse(e) PROVE OutboxInv'
    BY <1>1, QuietTasks DEF Lapse
  <1>2. ASSUME NEW t \in tasks, Acquire(t) PROVE OutboxInv'
    BY <1>2, QuietTasks DEF Acquire, Goes, At, rows
  <1>3. ASSUME NEW t \in tasks, Defer(t) PROVE OutboxInv'
    BY <1>3, QuietTasks DEF Defer, Ends
  <1>4. ASSUME NEW t \in tasks, RecordFails(t) PROVE OutboxInv'
    BY <1>4, QuietTasks DEF RecordFails, Ends, rows
  <1>5. ASSUME NEW h \in Hosts, BreakerLapse(h) PROVE OutboxInv'
    BY <1>5, QuietTasks DEF BreakerLapse, rows
  <1>6. CASE UNCHANGED outboxVars
    BY <1>6, QuietTasks DEF outboxVars, rows
  <1> QED
    BY <1>1, <1>2, <1>3, <1>4, <1>5, <1>6, EnqueueInv, ClaimInv, AnswerInv, MarkDeliveredInv,
       MarkFailedInv, RedeliverInv, RestartInv DEF OutboxNext, Deliver

\* The inductive invariant holds throughout.
THEOREM OutboxInductive == OutboxSpec => []OutboxInv
  BY OutboxInitInv, OutboxNextInv, PTL DEF OutboxSpec

\* outbox.rs:94-95: a receiver first sees an event after the earlier events
\* of its job, or after they were given up, whatever is lost, retried,
\* deferred, redelivered or cut short by a crash.
THEOREM EventsSeenInOrder == OutboxSpec => []SeenInOrder
  <1>1. OutboxInv => SeenInOrder
    BY DEF OutboxInv
  <1> QED BY <1>1, OutboxInductive, PTL

\* webhook.rs:3-7: delivered means processed by the receiver, and dead means
\* that max_attempts attempts were made.
THEOREM EventsNeverLost == OutboxSpec => []NeverLost
  <1>1. OutboxInv => NeverLost
    BY DEF OutboxInv
  <1> QED BY <1>1, OutboxInductive, PTL
=============================================================================
