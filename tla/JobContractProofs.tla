------------------------- MODULE JobContractProofs -------------------------
(* What follows from the contract alone, for every set of jobs.            *)
EXTENDS JobContract, TLAPS

\* Adding the next event to the log of a job that is not terminal.
LEMMA StoryGoesOn ==
    ASSUME NEW st, NEW events, Story(st, events), st \notin Ends,
           NEW e \in {"included"} \cup Ends, e = "confirmed" => st = "included",
           NEW row, row = [event |-> e, sequence |-> Len(events) + 1,
                           reincluded |-> e = "included" /\ \E i \in DOMAIN events : events[i].event = "included"]
    PROVE  Story(e, Append(events, row))
<1> DEFINE after == Append(events, row)
<1>1. events \in Seq(Logged) /\ Len(events) \in Nat
  BY DEF Story
<1>2. row \in Logged
  BY <1>1 DEF Logged
<1>3. /\ after \in Seq(Logged) /\ Len(after) = Len(events) + 1
      /\ \A i \in 1 .. Len(events) : after[i] = events[i]
      /\ after[Len(events) + 1] = row
  BY <1>1, <1>2
<1>4. \A i \in 1 .. Len(events) : events[i].event = "included"
  <2> SUFFICES ASSUME NEW i \in 1 .. Len(events) PROVE events[i].event = "included"
    OBVIOUS
  <2>1. events[i] \in Logged
    BY <1>1
  <2>2. events[i].event \in {"included"} \cup Ends
    BY <2>1 DEF Logged
  <2>3. events[i].event \in Ends => st = events[i].event
    BY DEF Story
  <2> QED
    BY <2>2, <2>3
<1>5. row.reincluded <=> (e = "included" /\ Len(events) > 0)
  <2>1. (\E i \in DOMAIN events : events[i].event = "included") <=> Len(events) > 0
    <3>1. DOMAIN events = 1 .. Len(events)
      BY <1>1
    <3>2. Len(events) > 0 => 1 \in 1 .. Len(events)
      BY <1>1
    <3> QED
      BY <3>1, <3>2, <1>1, <1>4
  <2>2. row.reincluded = (e = "included" /\ \E i \in DOMAIN events : events[i].event = "included")
    BY Zenon
  <2> QED
    BY <2>1, <2>2, Zenon
<1>6. \A i \in 1 .. Len(after) :
         /\ after[i].sequence = i
         /\ after[i].event \in Ends => i = Len(after) /\ e = after[i].event
         /\ after[i].event = "confirmed" => i > 1 /\ after[i - 1].event = "included"
         /\ after[i].reincluded <=> (after[i].event = "included" /\ i > 1)
  <2> SUFFICES ASSUME NEW i \in 1 .. Len(after)
               PROVE  /\ after[i].sequence = i
                      /\ after[i].event \in Ends => i = Len(after) /\ e = after[i].event
                      /\ after[i].event = "confirmed" => i > 1 /\ after[i - 1].event = "included"
                      /\ after[i].reincluded <=> (after[i].event = "included" /\ i > 1)
    OBVIOUS
  <2>1. CASE i \in 1 .. Len(events)
    BY <2>1, <1>1, <1>3, <1>4 DEF Story, Ends
  <2>2. CASE i = Len(events) + 1
    <3>1. e = "confirmed" => Len(events) > 0
      BY <1>1 DEF Story
    <3>2. after[i] = row /\ row.sequence = i /\ row.event = e
      BY <2>2, <1>3
    <3>3. e = "confirmed" => i > 1 /\ after[i - 1].event = "included"
      BY <2>2, <3>1, <1>1, <1>3, <1>4
    <3> QED
      BY <2>2, <3>2, <3>3, <1>1, <1>3, <1>5
  <2> QED
    BY <2>1, <2>2, <1>1, <1>3
<1> QED
  BY <1>1, <1>3, <1>6 DEF Story

\* Whatever the job goes through, its webhooks tell its story.
THEOREM ContractTellsTheStory == ContractSpec => []LogTellsTheStory
<1>1. ContractInit => LogTellsTheStory
  BY DEF ContractInit, LogTellsTheStory, Story, Ends, Logged
<1>2. LogTellsTheStory /\ [ContractNext]_contractVars => LogTellsTheStory'
  <2> SUFFICES ASSUME LogTellsTheStory, [ContractNext]_contractVars
               PROVE  LogTellsTheStory'
    OBVIOUS
  <2>1. CASE UNCHANGED contractVars
    BY <2>1 DEF contractVars, LogTellsTheStory
  <2>2. ASSUME NEW j \in Jobs, NEW s, Story(s, log'[j]), state' = [state EXCEPT ![j] = s],
               \A k \in Jobs \ {j} : log'[k] = log[k],
               DOMAIN log' = Jobs, log' = [k \in Jobs |-> log'[k]]
        PROVE  LogTellsTheStory'
    BY <2>2 DEF LogTellsTheStory
  <2>3. ASSUME NEW j \in Jobs, Send(j) \/ Requeue(j) \/ Demote(j) PROVE LogTellsTheStory'
    <3>1. Story(state[j], log[j]) /\ state[j] \notin Ends
      BY <2>3 DEF LogTellsTheStory, Send, Requeue, Demote, Move, Ends
    <3>2. Story("sent", log[j]) /\ Story("queued", log[j])
      BY <3>1 DEF Story, Ends
    <3> QED
      BY <2>2, <2>3, <3>2 DEF LogTellsTheStory, Send, Requeue, Demote, Move
  <2>4. ASSUME NEW j \in Jobs, Include(j) \/ Confirm(j) \/ Fail(j) PROVE LogTellsTheStory'
    <3>1. PICK e \in {"included"} \cup Ends :
             /\ state' = [state EXCEPT ![j] = e] /\ Say(j, e)
             /\ state[j] \notin Ends /\ (e = "confirmed" => state[j] = "included")
      BY <2>4 DEF Include, Confirm, Fail, Move, Ends
    <3>2. log' = [log EXCEPT ![j] = Append(@, Announced(j, e))]
      BY <3>1 DEF Say
    <3>3. log'[j] = Append(log[j], Announced(j, e))
      BY <3>2 DEF LogTellsTheStory
    <3>4. Story(e, Append(log[j], Announced(j, e)))
      BY <3>1, StoryGoesOn DEF LogTellsTheStory, Announced
    <3> QED
      BY <2>2, <3>1, <3>2, <3>3, <3>4 DEF LogTellsTheStory
  <2>5. ASSUME NEW j \in Jobs, IncludeFinal(j) PROVE LogTellsTheStory'
    <3> DEFINE once == Append(log[j], Announced(j, "included"))
               row == [event |-> "confirmed", sequence |-> Len(log[j]) + 2, reincluded |-> FALSE]
    <3>1. log' = [log EXCEPT ![j] = Append(once, row)] /\ state' = [state EXCEPT ![j] = "confirmed"]
      BY <2>5 DEF IncludeFinal, Move
    <3>2. Story("included", once)
      BY <2>5, StoryGoesOn DEF LogTellsTheStory, Announced, IncludeFinal, Move, Ends
    <3>3. log[j] \in Seq(Logged) /\ Len(once) = Len(log[j]) + 1
      BY DEF LogTellsTheStory, Story
    <3>4. Len(once) + 1 = Len(log[j]) + 2
      BY <3>3
    <3>5. Story("confirmed", Append(once, row))
      BY <3>2, <3>4, StoryGoesOn DEF Ends
    <3> QED
      BY <2>2, <3>1, <3>5 DEF LogTellsTheStory
  <2> QED
    BY <2>1, <2>3, <2>4, <2>5 DEF ContractNext
<1> QED
  BY <1>1, <1>2, PTL DEF ContractSpec
=============================================================================
