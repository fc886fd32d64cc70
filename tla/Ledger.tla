------------------------------- MODULE Ledger -------------------------------
(***************************************************************************)
(* The balance ledger of one pair (funds/ledger.rs) against the chain: the *)
(* worker's transactions reserve and settle (pipeline/tx.rs), the treasury *)
(* credits (funds/treasury.rs), balance reads reconcile (funds/monitor.rs, *)
(* tx.rs) and recovery sets it anew (pipeline/recovery.rs).                *)
(*                                                                         *)
(* Amounts are small numbers; saturation at zero is kept, 2^256 is out of  *)
(* reach.  The floor signer_min_balance is 0.  A settlement and the sight  *)
(* of its block are one step: between the two every plain read is refused. *)
(* Re-orgs (unsettle) are not modelled.                                    *)
(***************************************************************************)
EXTENDS Integers, FiniteSets, SequencesExt

CONSTANTS
    Start,        \* the balance at first
    Costs,        \* worst-case costs of an attempt
    TopupAmount,  \* what an incoming transfer brings
    Delayed,      \* credit_maturity_blocks is not zero
    Modes,        \* the values has_multicall may take
    StampedLag,   \* how many blocks behind a read may be that tells its block
    PlainLag,     \* and one that does not
    MaxTxs, MaxTopups, MaxRefills, MaxEmpty,  \* bounds on transactions and blocks
    MaxReads,     \* bound on the worker's reads; the sweep never ends
    MaxBadReads,  \* bound on reads that fail or are answered by a lagging node
    MaxRecoveries, MaxRestarts

ASSUME LedgerConstants ==
    /\ {Start, TopupAmount, StampedLag, PlainLag} \subseteq Nat
    /\ {MaxTxs, MaxTopups, MaxRefills, MaxEmpty, MaxReads, MaxBadReads, MaxRecoveries, MaxRestarts} \subseteq Nat
    /\ Costs \subseteq Nat \ {0} /\ Delayed \in BOOLEAN /\ Modes \subseteq BOOLEAN

VARIABLES
    bal,          \* bal[b] is the pair's balance in block b
    head,         \* ChainCtx::head, the newest block observed
    confirmed, reserved, asOf, epoch, maturing,     \* Ledger's Inner
    tx,           \* the worker and its transaction
    credits,      \* blocks of top-ups that are mined and not yet credited
    multicall,    \* has_multicall: the sweep's reads tell their block
    read,         \* the balance reads under way
    used          \* how much of each bound is used

ledger == <<confirmed, reserved, asOf, epoch, maturing>>
ledgerVars == <<bal, head, ledger, tx, credits, multicall, read, used>>

\* The sweep of all pairs, and the pair's own worker (fund_and_retry; for
\* a treasury, fund).
Readers == {"sweep", "worker"}
Bound == [txs |-> MaxTxs, topups |-> MaxTopups, refills |-> MaxRefills, empty |-> MaxEmpty,
          reads |-> MaxReads, bad |-> MaxBadReads, recoveries |-> MaxRecoveries, restarts |-> MaxRestarts]
Left(k) == used[k] < Bound[k]
Use(k) == Left(k) /\ used' = [used EXCEPT ![k] = @ + 1]

Later(a, b) == IF a < b THEN b ELSE a

\* Mutant of Less: subtraction that does not saturate.
LessBelowZero(a, b) == a - b

Less(a, b) == IF a < b THEN 0 ELSE a - b
Total(s) == FoldLeft(LAMBDA a, b : a + b, 0, s)

Costliest(S) == CHOOSE c \in S : \A d \in S : d <= c

Tip == Len(bal)
Balance == bal[Tip]
Idle == [pc |-> "idle", attempts |-> {}, spent |-> 0, block |-> 0, recovering |-> FALSE, held |-> TRUE]
NotReading == [pc |-> "idle", ticket |-> 0, balance |-> 0, block |-> 0]

\* spendable_for, where nothing of the balance is held back.
Spendable == Less(confirmed, reserved)

-----------------------------------------------------------------------------
(* The operations of Ledger.  One nonce is in flight at a time.            *)

Reserve(cost) ==
    /\ reserved' = Later(reserved, cost)
    /\ UNCHANGED <<confirmed, asOf, epoch, maturing>>

\* Mutant of Settle: the driver does not report the block.
SettleUnobserved(spent, block) ==
    /\ reserved' = 0 /\ confirmed' = Less(confirmed, spent)
    /\ asOf' = Later(asOf, block) /\ epoch' = epoch + 1
    /\ UNCHANGED maturing
    /\ UNCHANGED head

\* settle, and observe_head, which follows it in the driver.
Settle(spent, block) ==
    /\ reserved' = 0 /\ confirmed' = Less(confirmed, spent)
    /\ asOf' = Later(asOf, block) /\ epoch' = epoch + 1
    /\ UNCHANGED maturing
    /\ head' = Later(head, block)

Credit(block) ==
    /\ epoch' = epoch + 1 /\ asOf' = Later(asOf, block)
    /\ IF Delayed THEN maturing' = Append(maturing, TopupAmount) /\ UNCHANGED confirmed
                  ELSE confirmed' = confirmed + TopupAmount /\ UNCHANGED maturing
    /\ UNCHANGED reserved

\* Mutant of Reconcile: it misses a settlement that it raced.
ReconcileRaced(ticket, balance, block) ==
    /\ IF block < asOf
         THEN UNCHANGED <<confirmed, asOf>>
         ELSE confirmed' = Less(balance, Total(maturing)) /\ asOf' = block
    /\ UNCHANGED <<reserved, epoch, maturing>>

Reconcile(ticket, balance, block) ==
    /\ IF epoch # ticket \/ block < asOf
         THEN UNCHANGED <<confirmed, asOf>>
         ELSE confirmed' = Less(balance, Total(maturing)) /\ asOf' = block
    /\ UNCHANGED <<reserved, epoch, maturing>>

Initialise(balance) ==
    /\ confirmed' = balance /\ asOf' = Later(asOf, head) /\ epoch' = epoch + 1
    /\ UNCHANGED <<reserved, maturing>>

-----------------------------------------------------------------------------
(* The worker: one thing at a time, its own balance reads included.        *)

Works == read["worker"].pc = "idle" /\ tx.held

\* ensure_funds is satisfied, at once or after a top-up.
EnsureFunds(c) ==
    /\ Works /\ tx.pc = "idle" /\ ~tx.recovering /\ Left("txs") /\ Spendable >= c
    /\ tx' = [tx EXCEPT !.pc = "funded", !.attempts = {c}]
    /\ UNCHANGED <<bal, head, ledger, credits, read, used, multicall>>

NotBound ==
    /\ tx.pc = "funded" /\ tx' = Idle /\ Use("txs")
    /\ UNCHANGED <<bal, head, ledger, credits, read, multicall>>

\* execute binds the nonce and reserves.
Begin ==
    /\ tx.pc = "funded" /\ Use("txs")
    /\ tx' = [tx EXCEPT !.pc = "flight"]
    /\ Reserve(Costliest(tx.attempts))
    /\ UNCHANGED <<bal, head, credits, read, multicall>>

\* A replacement or a cancel, for more or for less.
Replace(c) ==
    /\ Works /\ tx.pc = "flight" /\ c \notin tx.attempts
    /\ tx' = [tx EXCEPT !.attempts = @ \cup {c}]
    /\ Reserve(Costliest(tx.attempts \cup {c}))
    /\ UNCHANGED <<bal, head, credits, read, used, multicall>>

\* The chain takes one of the attempts, for its worst-case cost or less.
Mine(c, spent) ==
    /\ tx.pc = "flight" /\ c \in tx.attempts /\ Balance >= c
    /\ bal' = Append(bal, Balance - spent)
    /\ tx' = [tx EXCEPT !.pc = "mined", !.spent = spent, !.block = Tip + 1]
    /\ UNCHANGED <<head, ledger, credits, read, used, multicall>>

OnReceipt ==
    /\ Works /\ tx.pc = "mined"
    /\ tx' = [Idle EXCEPT !.recovering = tx.recovering]
    /\ Settle(tx.spent, tx.block)
    /\ UNCHANGED <<bal, credits, read, used, multicall>>

\* void: the transaction was never accepted anywhere.  A resumed one may
\* have been.
Void ==
    /\ Works /\ tx.pc = "flight" /\ ~tx.recovering /\ tx' = Idle
    /\ reserved' = 0
    /\ UNCHANGED <<bal, head, confirmed, asOf, epoch, maturing, credits, read, used, multicall>>

RequestRecovery ==
    /\ tx.pc = "idle" /\ ~tx.recovering /\ Use("recoveries")
    /\ tx' = [tx EXCEPT !.recovering = TRUE]
    /\ UNCHANGED <<bal, head, ledger, credits, read, multicall>>

\* Once nothing is in flight, recovery asks for the balance of block b.
RecoverRead(b) ==
    /\ Works /\ tx.pc = "idle" /\ tx.recovering
    /\ \/ b = Tip /\ UNCHANGED used
       \/ b \in Later(1, Tip - PlainLag)..(Tip - 1) /\ Use("bad")
    /\ tx' = [tx EXCEPT !.pc = "recover", !.block = b]
    /\ UNCHANGED <<bal, head, ledger, credits, read, multicall>>

RecoverDone ==
    /\ tx.pc = "recover" /\ tx' = Idle
    /\ Initialise(bal[tx.block])
    /\ UNCHANGED <<bal, head, credits, read, used, multicall>>

\* resume takes hold of what a restart left in flight, and reserves for it.
Resume ==
    /\ ~tx.held /\ tx' = [tx EXCEPT !.held = TRUE]
    /\ Reserve(Costliest(tx.attempts))
    /\ UNCHANGED <<bal, head, credits, read, used, multicall>>

\* The process starts again with an empty ledger.  What the store says is in
\* flight waits for its recovery; a credit not yet given is forgotten.
Restart ==
    /\ Use("restarts")
    /\ LET left == tx.pc \in {"flight", "mined"}
       IN  tx' = [(IF left THEN tx ELSE Idle) EXCEPT !.recovering = TRUE, !.held = ~left]
    /\ head' = 0 /\ confirmed' = 0 /\ reserved' = 0 /\ asOf' = 0 /\ epoch' = 0 /\ maturing' = <<>>
    /\ credits' = {} /\ read' = [r \in Readers |-> NotReading]
    /\ multicall' \in Modes /\ UNCHANGED bal

-----------------------------------------------------------------------------
(* The chain and the treasury.                                             *)

MineEmpty ==
    /\ Use("empty") /\ bal' = Append(bal, Balance)
    /\ UNCHANGED <<head, ledger, tx, credits, read, multicall>>

\* Someone else funds the pair, or a top-up of before a restart arrives.
MineRefill ==
    /\ Use("refills") /\ bal' = Append(bal, Balance + TopupAmount)
    /\ UNCHANGED <<head, ledger, tx, credits, read, multicall>>

MineTopup ==
    /\ Use("topups") /\ bal' = Append(bal, Balance + TopupAmount)
    /\ credits' = credits \cup {Tip + 1}
    /\ UNCHANGED <<head, ledger, tx, read, multicall>>

\* The end of fund; the treasury's driver has observed the block.
CreditTopup(b) ==
    /\ b \in credits /\ credits' = credits \ {b}
    /\ Credit(b) /\ head' = Later(head, b)
    /\ UNCHANGED <<bal, tx, read, used, multicall>>

\* The n oldest credits are due when someone asks what is spendable.
Mature(n) ==
    /\ n \in 1..Len(maturing)
    /\ confirmed' = confirmed + Total(SubSeq(maturing, 1, n))
    /\ maturing' = SubSeq(maturing, n + 1, Len(maturing))
    /\ UNCHANGED <<bal, head, reserved, asOf, epoch, tx, credits, read, used, multicall>>

\* A block is seen: by the chain monitor, with a fee quote.
Observe(b) ==
    /\ b \in (head + 1)..Tip /\ head' = b
    /\ UNCHANGED <<bal, ledger, tx, credits, read, used, multicall>>

-----------------------------------------------------------------------------
(* Balance reads: take a ticket, ask a node, apply.                        *)

BeginReconcile(r) ==
    /\ read[r].pc = "idle"
    /\ IF r = "sweep" THEN UNCHANGED used
       ELSE Use("reads") /\ ((tx.pc = "flight" /\ tx.held) \/ tx = Idle)
    /\ read' = [read EXCEPT ![r] = [NotReading EXCEPT !.pc = "asking", !.ticket = epoch]]
    /\ UNCHANGED <<bal, head, ledger, tx, credits, multicall>>

\* The sweep asks Multicall3 for the block as well, where there is one.
TellsBlock(r) == r = "sweep" /\ multicall

GetBalance(r, b) ==
    /\ read[r].pc = "asking"
    /\ \/ b = Tip /\ UNCHANGED used
       \/ b \in Later(1, Tip - IF TellsBlock(r) THEN StampedLag ELSE PlainLag)..(Tip - 1) /\ Use("bad")
    /\ read' = [read EXCEPT ![r].pc = "answered", ![r].balance = bal[b], ![r].block = b]
    /\ UNCHANGED <<bal, head, ledger, tx, credits, multicall>>

ReadFails(r) ==
    /\ read[r].pc = "asking" /\ Use("bad")
    /\ read' = [read EXCEPT ![r] = NotReading]
    /\ UNCHANGED <<bal, head, ledger, tx, credits, multicall>>

\* A plain balance read carries no block: the observed head stands in.
Apply(r) ==
    LET block == IF TellsBlock(r) THEN read[r].block ELSE head
    IN  /\ read[r].pc = "answered" /\ read' = [read EXCEPT ![r] = NotReading]
        /\ head' = Later(head, block)
        /\ Reconcile(read[r].ticket, read[r].balance, block)
        /\ UNCHANGED <<bal, tx, credits, used, multicall>>

-----------------------------------------------------------------------------
LedgerInit ==
    /\ bal = <<Start>> /\ head = 1
    /\ confirmed = Start /\ reserved = 0 /\ asOf = 1 /\ epoch = 1 /\ maturing = <<>>
    /\ tx = Idle /\ credits = {} /\ multicall \in Modes /\ read = [r \in Readers |-> NotReading]
    /\ used = [k \in DOMAIN Bound |-> 0]

Blocks == 1..(1 + MaxTxs + MaxTopups + MaxRefills + MaxEmpty)

Worker ==
    \/ \E c \in Costs : EnsureFunds(c) \/ Replace(c)
    \/ NotBound \/ Begin \/ OnReceipt \/ Void
    \/ RequestRecovery \/ Resume \/ (\E b \in Blocks : RecoverRead(b)) \/ RecoverDone
Chain ==
    \/ \E c \in Costs : \E spent \in 1..c : Mine(c, spent)
    \/ MineEmpty \/ MineRefill \/ MineTopup
Treasury == (\E b \in Blocks : CreditTopup(b)) \/ \E n \in 1..MaxTopups : Mature(n)
Reads(r) == BeginReconcile(r) \/ (\E b \in Blocks : GetBalance(r, b)) \/ Apply(r) \/ ReadFails(r)

LedgerNext ==
    \/ Worker \/ Chain \/ Treasury \/ Restart
    \/ \E b \in Blocks : Observe(b)
    \/ \E r \in Readers : Reads(r)

LedgerSpec == LedgerInit /\ [][LedgerNext]_ledgerVars

\* Every task goes on with what it began, credits come due, and the sweep
\* repeats on a timer.
LedgerFairSpec ==
    /\ LedgerSpec
    /\ WF_ledgerVars(Worker) /\ WF_ledgerVars(Chain) /\ WF_ledgerVars(Treasury)
    /\ \A r \in Readers : WF_ledgerVars(Reads(r))

-----------------------------------------------------------------------------
\* The variables have their types, and the ledger never claims to reflect
\* a block that does not exist.
LedgerTypeOK ==
    /\ bal \in Seq(Nat) /\ {head, asOf} \subseteq 0..Tip /\ epoch \in Nat
    /\ {confirmed, reserved} \subseteq Nat /\ maturing \in Seq(Nat)
    /\ tx \in [pc : {"idle", "funded", "flight", "mined", "recover"}, attempts : SUBSET Costs,
               spent : Nat, block : 0..Tip, recovering : BOOLEAN, held : BOOLEAN]
    /\ credits \subseteq 1..Tip /\ multicall \in Modes
    /\ read \in [Readers -> [pc : {"idle", "asking", "answered"}, ticket : Nat, balance : Nat, block : 0..Tip]]
    /\ \A k \in DOMAIN Bound : used[k] \in 0..Bound[k]

\* What the transaction in flight may still take from the balance.
Exposure == IF tx.pc = "flight" THEN Costliest(tx.attempts) ELSE 0

\* ledger.rs:3-10: what the ledger says the pair can spend is there on the
\* chain, beyond what the transaction in flight can take, though reads lag,
\* race settlements and are applied late.
SpendableIsReal == Spendable > 0 => Spendable + Exposure <= Balance

\* Whatever the ledger missed or counted twice meanwhile, in the end it
\* agrees with the chain: no read is refused for ever (ledger.rs:138).
LedgerConverges == <>[](tx = Idle => confirmed = Balance /\ reserved = 0)

-----------------------------------------------------------------------------
(* What comments and documents say and the code does not always do.  The  *)
(* README tells the steps that lead there; no run checks these.           *)

\* ledger.rs:9-10, "a lagging node can never overwrite fresher knowledge",
\* for a pair that recovery has released.
NoOverdraft == ~tx.recovering => SpendableIsReal

\* ledger.rs:143, "do not count them twice": the ledger never holds more
\* than the chain, but for a debit whose receipt it has yet to see.
CountedOnce ==
    confirmed + Total(maturing) <= Balance + IF tx.pc = "mined" THEN tx.spent ELSE 0

\* monitor.rs:134, "the last observed head is a safe lower bound": a read
\* of a block older than what the ledger reflects changes nothing.
OldReadsIgnored ==
    [][\A r \in Readers :
          read[r].pc = "answered" /\ read'[r].pc = "idle" /\ tx' = tx /\ read[r].block < asOf
          => confirmed' = confirmed]_ledgerVars

\* recovery.rs:171, "the chain balance is the whole truth": when recovery
\* has set the balance, the ledger holds no more than the chain.
RecoveredIsTruth ==
    [][tx.pc = "recover" /\ tx'.pc = "idle" /\ ~tx'.recovering
         => confirmed' + Total(maturing') <= Balance]_ledgerVars
=============================================================================
