---------------------------- MODULE JobContract ----------------------------
(***************************************************************************)
(* What the engine promises the clients about their jobs: the status that  *)
(* GET /v1/transactions/{job_id} reports and the webhook events of a job.  *)
(* How signers, nonces and attempts bring a step about is none of the      *)
(* client's business, so "cancelling" is reported here as "sent".          *)
(* AttemptStore implements this specification.                             *)
(***************************************************************************)
EXTENDS Integers, Sequences

CONSTANT Jobs

VARIABLES
    state,   \* a job's status, "cancelling" folded into "sent"
    log      \* the events announced for a job so far, oldest first

contractVars == <<state, log>>

\* The next event: numbered, and marked when it repeats an "included".
Announced(j, e) ==
    [event |-> e, sequence |-> Len(log[j]) + 1,
     reincluded |-> e = "included" /\ \E i \in DOMAIN log[j] : log[j][i].event = "included"]

Move(j, from, to) == state[j] \in from /\ state' = [state EXCEPT ![j] = to]
Say(j, e) == log' = [log EXCEPT ![j] = Append(@, Announced(j, e))]

ContractInit ==
    /\ state = [j \in Jobs |-> "queued"]
    /\ log = [j \in Jobs |-> <<>>]

\* A signer takes the job; or gives it back untouched.
Send(j) == Move(j, {"queued"}, "sent") /\ UNCHANGED log
Requeue(j) == Move(j, {"sent"}, "queued") /\ UNCHANGED log

\* The transaction is mined; a re-org may take it back.
Include(j) == Move(j, {"sent"}, "included") /\ Say(j, "included")
Demote(j) == Move(j, {"included"}, "sent") /\ UNCHANGED log

\* It can no longer be taken back.
Confirm(j) == Move(j, {"included"}, "confirmed") /\ Say(j, "confirmed")

\* Both at once, on a chain that finalizes on inclusion.
IncludeFinal(j) ==
    /\ Move(j, {"sent"}, "confirmed")
    /\ log' = [log EXCEPT ![j] = Append(Append(@, Announced(j, "included")),
          [event |-> "confirmed", sequence |-> Len(log[j]) + 2, reincluded |-> FALSE])]

\* The job will never execute.
Fail(j) == Move(j, {"queued", "sent"}, "failed") /\ Say(j, "failed")

ContractNext == \E j \in Jobs :
    Send(j) \/ Requeue(j) \/ Include(j) \/ Demote(j) \/ Confirm(j) \/ IncludeFinal(j) \/ Fail(j)

ContractSpec == ContractInit /\ [][ContractNext]_contractVars

-----------------------------------------------------------------------------
Ends == {"confirmed", "failed"}
Logged == [event : {"included"} \cup Ends, sequence : Nat, reincluded : BOOLEAN]

\* The webhooks of a job tell its story: sequence numbers are 1, 2, 3, ...;
\* the terminal event is there exactly when the job is terminal, once and
\* last; "confirmed" comes right after "included"; an "included" is marked
\* as a re-inclusion exactly when it is not the first one.
Story(st, events) ==
    /\ st \in {"queued", "sent", "included"} \cup Ends
    /\ events \in Seq(Logged)
    /\ \A i \in 1 .. Len(events) :
         /\ events[i].sequence = i
         /\ events[i].event \in Ends => i = Len(events) /\ st = events[i].event
         /\ events[i].event = "confirmed" => i > 1 /\ events[i - 1].event = "included"
         /\ events[i].reincluded <=> (events[i].event = "included" /\ i > 1)
    /\ st \in Ends \cup {"included"} => Len(events) > 0 /\ events[Len(events)].event = st

LogTellsTheStory ==
    /\ DOMAIN state = Jobs /\ DOMAIN log = Jobs
    /\ state = [j \in Jobs |-> state[j]] /\ log = [j \in Jobs |-> log[j]]
    /\ \A j \in Jobs : Story(state[j], log[j])
=============================================================================
