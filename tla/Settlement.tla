----------------------------- MODULE Settlement -----------------------------
(***************************************************************************)
(* Settling captured redemptions against the group's prepaid wallet:       *)
(* settlement.service.ts, run by every API instance once a minute, with    *)
(* drawdownWallet and topUpWallet of packages/db/src/ledger/operations.ts. *)
(*                                                                         *)
(* A pass reads a batch of unsettled sales, then settles them one by one,  *)
(* each in its own transaction: it reads the sale, reads the cost rule,    *)
(* reserves the key settle:<sale>, draws the wallet down and stamps the    *)
(* sale.  The instances share nothing but the database, and all of them    *)
(* use the same system actor, hence the same keys.                         *)
(***************************************************************************)
EXTENDS Balances, Sums

CONSTANTS Sales,     \* terminal_transaction rows of one group, intent redeem
          Points,    \* the points of each
          Workers,   \* API instances
          BatchSize, \* sales one pass reads: 200 in the code
          Rules,     \* cost rules the platform may set: [cpp, bps]
          MaxFunds,  \* bound on all that is ever topped up, in minor units
          None

ASSUME SettlementAssumption ==
  /\ IsFiniteSet(Sales) /\ Points \in [Sales -> Nat \ {0}]
  /\ BatchSize \in Nat \ {0} /\ MaxFunds \in Nat
  /\ Rules \subseteq [cpp : Nat, bps : Nat]
  /\ None \notin Rules /\ None \notin Sales /\ None \notin Nat

VARIABLES
  wallet,   \* account_balance of the wallet_liability account
  rule,     \* the latest cost_rule, or None
  state,    \* terminal_transaction.state
  settled,  \* settled_at and drawdown_journal_id: no, free (no journal) or paid
  key,      \* idempotency_key settle:<sale>: the amount of its response, or None
  journals, \* drawdown journals posted for each sale
  worker    \* the pass each instance is in

vars == <<wallet, rule, state, settled, key, journals, worker>>

Resting == [pc |-> "resting", todo |-> {}, now |-> None, rule |-> None]

Init ==
  /\ wallet = NewBalance
  /\ rule = None
  /\ state = [t \in Sales |-> "authorized"]
  /\ settled = [t \in Sales |-> "no"]
  /\ key = [t \in Sales |-> None]
  /\ journals = [t \in Sales |-> 0]
  /\ worker = [w \in Workers |-> Resting]
-----------------------------------------------------------------------------
CostPerPoint(r) == IF r = None THEN 0 ELSE r.cpp

\* The cost of the points, and the platform's margin rounded down.
Total(t, r) ==
  LET cost == Points[t] * CostPerPoint(r)
  IN cost + (IF r = None THEN 0 ELSE (cost * r.bps) \div 10000)

(* The till captures or voids the sale, once (TerminalSales).               *)
Finish(t, next) ==
  /\ state[t] = "authorized"
  /\ state' = [state EXCEPT ![t] = next]
  /\ UNCHANGED <<wallet, rule, settled, key, journals, worker>>

TopUp(n) ==
  /\ wallet.posted_credits + n <= MaxFunds
  /\ wallet' = Credit(wallet, n)
  /\ UNCHANGED <<rule, state, settled, key, journals, worker>>

SetCostRule(r) ==
  /\ rule' = r
  /\ UNCHANGED <<wallet, state, settled, key, journals, worker>>

Unsettled == {t \in Sales : state[t] = "captured" /\ settled[t] = "no"}

(* settleGroup: at most BatchSize unsettled sales, in no particular order.  *)
ReadBatch(w) ==
  /\ worker[w].pc = "resting"
  /\ \E batch \in SUBSET Unsettled :
       /\ Cardinality(batch) <= BatchSize
       /\ batch # Unsettled => Cardinality(batch) = BatchSize
       /\ worker' = [worker EXCEPT ![w] =
            IF batch = {} THEN Resting
            ELSE [pc |-> "looping", todo |-> batch, now |-> None, rule |-> None]]
  /\ UNCHANGED <<wallet, rule, state, settled, key, journals>>

\* The loop goes on after the sale it was at, or the pass is over.
Continue(w, todo) ==
  worker' = [worker EXCEPT ![w] =
    IF todo = {} THEN Resting
    ELSE [pc |-> "looping", todo |-> todo, now |-> None, rule |-> None]]

Advance(w) == Continue(w, worker[w].todo \ {worker[w].now})

\* settleOne: a sale that someone settled since the batch was read is skipped.
ReadSale(w, t) ==
  /\ worker[w].pc = "looping"
  /\ t \in worker[w].todo
  /\ IF settled[t] # "no" THEN Continue(w, worker[w].todo \ {t})
     ELSE worker' = [worker EXCEPT ![w].pc = "found", ![w].now = t]
  /\ UNCHANGED <<wallet, rule, state, settled, key, journals>>

ReadRule(w) ==
  /\ worker[w].pc = "found"
  /\ worker' = [worker EXCEPT ![w].pc = "priced", ![w].rule = rule]
  /\ UNCHANGED <<wallet, rule, state, settled, key, journals>>

Free(w) == CostPerPoint(worker[w].rule) = 0

(* Points that cost nothing: stamp the sale by id, leave its journal alone. *)
SettleFree(w) ==
  /\ worker[w].pc = "priced" /\ Free(w)
  /\ settled' = [settled EXCEPT ![worker[w].now] = IF @ = "paid" THEN @ ELSE "free"]
  /\ Advance(w)
  /\ UNCHANGED <<wallet, rule, state, key, journals>>

(* reserveIdempotency finds a committed key: stamp the sale with its journal. *)
ReplayDrawdown(w) ==
  /\ worker[w].pc = "priced" /\ ~Free(w)
  /\ key[worker[w].now] # None
  /\ settled' = [settled EXCEPT ![worker[w].now] = "paid"]
  /\ Advance(w)
  /\ UNCHANGED <<wallet, rule, state, key, journals>>

ReserveKey(w) ==
  /\ worker[w].pc = "priced" /\ ~Free(w)
  /\ key[worker[w].now] = None
  /\ worker' = [worker EXCEPT ![w].pc = "reserved"]
  /\ UNCHANGED <<wallet, rule, state, settled, key, journals>>

\* Mutant of MayDraw: no unique key.
MayDrawAgain(t, n) == HasAvailable(wallet, n)

\* The unique index on the key, and the guard on the wallet's debit.
MayDraw(t, n) == key[t] = None /\ HasAvailable(wallet, n)

Drawdown(w) ==
  LET t == worker[w].now
      n == Total(t, worker[w].rule)
  IN /\ worker[w].pc = "reserved"
     /\ MayDraw(t, n)
     /\ wallet' = Debit(wallet, n)
     /\ key' = [key EXCEPT ![t] = n]
     /\ journals' = [journals EXCEPT ![t] = @ + 1]
     /\ settled' = [settled EXCEPT ![t] = "paid"]
     /\ Advance(w)
     /\ UNCHANGED <<rule, state>>

\* Mutant of RefuseDrawdown: one sale that cannot be paid ends the pass.
RefuseEndsPass(w) ==
  /\ worker[w].pc = "reserved"
  /\ ~MayDraw(worker[w].now, Total(worker[w].now, worker[w].rule))
  /\ Continue(w, {})
  /\ UNCHANGED <<wallet, rule, state, settled, key, journals>>

(* insufficient_balance or a key someone else just took: settleOne rolls    *)
(* back, settleGroup logs it and goes on with the next sale.                *)
RefuseDrawdown(w) ==
  /\ worker[w].pc = "reserved"
  /\ ~MayDraw(worker[w].now, Total(worker[w].now, worker[w].rule))
  /\ Advance(w)
  /\ UNCHANGED <<wallet, rule, state, settled, key, journals>>

(* The instance stops: the open transaction and the batch are lost.         *)
Crash(w) ==
  /\ worker[w].pc # "down"
  /\ worker' = [worker EXCEPT ![w] = [Resting EXCEPT !.pc = "down"]]
  /\ UNCHANGED <<wallet, rule, state, settled, key, journals>>

\* It comes back, and its timers with it.
Restart(w) ==
  /\ worker[w].pc = "down"
  /\ worker' = [worker EXCEPT ![w] = Resting]
  /\ UNCHANGED <<wallet, rule, state, settled, key, journals>>

Settle(w) ==
  \/ \E t \in Sales : ReadSale(w, t)
  \/ ReadRule(w)
  \/ SettleFree(w)
  \/ ReplayDrawdown(w)
  \/ ReserveKey(w)
  \/ Drawdown(w)
  \/ RefuseDrawdown(w)

PlatformStep ==
  \/ \E t \in Sales, next \in {"captured", "voided"} : Finish(t, next)
  \/ \E n \in 1..MaxFunds : TopUp(n)
  \/ \E r \in Rules : SetCostRule(r)

Next ==
  \/ PlatformStep
  \/ \E w \in Workers : ReadBatch(w) \/ Settle(w) \/ Crash(w) \/ Restart(w)

Spec == Init /\ [][Next]_vars

(* The timers tick and a pass that runs goes on.                            *)
FairSpec == Spec /\ \A w \in Workers : WF_vars(ReadBatch(w)) /\ WF_vars(Settle(w))
-----------------------------------------------------------------------------
(* Every variable holds what its table or instance can hold.                *)
TypeOK ==
  /\ wallet \in Balance
  /\ rule \in Rules \cup {None}
  /\ state \in [Sales -> {"authorized", "captured", "voided"}]
  /\ settled \in [Sales -> {"no", "free", "paid"}]
  /\ key \in [Sales -> Nat \cup {None}]
  /\ journals \in [Sales -> Nat]
  /\ worker \in [Workers ->
       [pc : {"down", "resting", "looping", "found", "priced", "reserved"},
        todo : SUBSET Sales, now : Sales \cup {None}, rule : Rules \cup {None}]]
  /\ \A w \in Workers : worker[w].pc \in {"down", "resting", "looping"} <=> worker[w].now = None

(* "Idempotent per terminal transaction": however many instances settle a   *)
(* sale at once, from reads that others overtook, it is drawn down at most  *)
(* once; exactly the sales stamped with a journal were, and only sales that *)
(* were captured.                                                           *)
DrawnDownOnce ==
  \A t \in Sales :
    /\ journals[t] = IF settled[t] = "paid" THEN 1 ELSE 0
    /\ settled[t] # "no" => state[t] = "captured"

(* Concurrent drawdowns never take the prepaid wallet below zero, and every *)
(* unit that left it is in the response of the key of one settled sale, so  *)
(* a replay reports what was really drawn.                                  *)
WalletIsExplained ==
  /\ RowChecks(wallet)
  /\ wallet.posted_debits =
       SumOf([t \in Sales |-> IF settled[t] = "paid" THEN key[t] ELSE 0])

\* The wallet can pay for t whatever cost rule a pass has read.
Affordable(t) == \A r \in Rules : HasAvailable(wallet, Total(t, r))

(* "Left unsettled for retry": a captured sale the wallet can pay is settled *)
(* in the end, past sales it cannot pay and past passes that were lost, as  *)
(* long as instances stop finitely often and a batch holds the backlog.     *)
EverySaleSettles ==
  <>[](\A w \in Workers : worker[w].pc # "down") =>
    \A t \in Sales :
      <>[]Affordable(t) => (state[t] = "captured" ~> settled[t] # "no")
=============================================================================
