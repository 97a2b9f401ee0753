---------------------------- MODULE Jobs_proofs ----------------------------
(***************************************************************************)
(* Proofs about the jobs of the worker runner: Settlement, ExpirySweep and *)
(* OutboxRelay, each for every size of its sets.                           *)
(*                                                                         *)
(* SettlementInv: a sale is stamped with a journal exactly when its key is *)
(* taken, and a pass works on captured sales only.                         *)
(* SweepInv: what is credited to a member is what they earned in all lots. *)
(* The forecast's loop over the lots is brought to a closed form by        *)
(* LeastNumber, which serves for an induction.                             *)
(* RelayInv: a pass sends no delivery that was tried MAX_ATTEMPTS times    *)
(* when it was read, and writes delivered only after a request was         *)
(* accepted; RelaysInv adds that a row is fanned out once by each instance *)
(* and that an instance has only rows in hand that were.                   *)
(***************************************************************************)
EXTENDS Settlement, ExpirySweep, OutboxRelay, Accounting_proofs, WellFoundedInduction

KeysMatchStamps == \A t \in Sales : key[t] # None <=> settled[t] = "paid"

PassesAreCaptured ==
  \A w \in Workers :
    /\ \A t \in worker[w].todo : state[t] = "captured"
    /\ worker[w].now # None => worker[w].now \in worker[w].todo

SettlementInv ==
  /\ TypeOK
  /\ DrawnDownOnce
  /\ WalletIsExplained
  /\ KeysMatchStamps
  /\ PassesAreCaptured

\* What each sale took from the wallet.
Drawn == [t \in Sales |-> IF settled[t] = "paid" THEN key[t] ELSE 0]

Pass == [pc : {"down", "resting", "looping", "found", "priced", "reserved"},
         todo : SUBSET Sales, now : Sales \cup {None}, rule : Rules \cup {None}]

\* A record that a pass may be in: the part of TypeOK about one instance.
PassOK(p) ==
  /\ p \in Pass
  /\ p.pc \in {"down", "resting", "looping"} <=> p.now = None
-----------------------------------------------------------------------------
(* The price of a sale is a natural number under every rule.                *)
LEMMA TotalType ==
  ASSUME NEW t \in Sales, NEW r \in Rules \cup {None}
  PROVE  Total(t, r) \in Nat
<1>1. Points[t] \in Nat /\ CostPerPoint(r) \in Nat
  BY SettlementAssumption DEF CostPerPoint
<1> DEFINE cost == Points[t] * CostPerPoint(r)
<1>2. cost \in Nat
  BY <1>1
<1>3. CASE r = None
  BY <1>2, <1>3 DEF Total
<1>4. CASE r # None
  <2>1. r.bps \in Nat
    BY <1>4, SettlementAssumption
  <2> DEFINE part == cost * r.bps
  <2>2. part \in Nat
    BY <1>2, <2>1
  <2>3. Total(t, r) = cost + part \div 10000
    BY <1>4 DEF Total
  <2> HIDE DEF cost, part
  <2> QED BY <1>2, <2>2, <2>3
<1> QED BY <1>3, <1>4

\* The passes of the instances after one of them moved to p.
LEMMA PassMoves ==
  ASSUME TypeOK, PassesAreCaptured, NEW w \in Workers, NEW p, PassOK(p),
         \A t \in p.todo : state[t] = "captured",
         p.now # None => p.now \in p.todo,
         worker' = [worker EXCEPT ![w] = p], UNCHANGED state
  PROVE  /\ worker' \in [Workers -> Pass]
         /\ \A v \in Workers : PassOK(worker'[v])
         /\ PassesAreCaptured'
<1>1. worker \in [Workers -> Pass] /\ \A v \in Workers : PassOK(worker[v])
  BY DEF TypeOK, PassOK, Pass
<1>2. \A v \in Workers : worker'[v] = IF v = w THEN p ELSE worker[v]
  BY <1>1
<1>3. worker' \in [Workers -> Pass]
  BY <1>1 DEF PassOK
<1>4. \A v \in Workers : PassOK(worker'[v])
  BY <1>1, <1>2
<1>5. PassesAreCaptured'
  BY <1>2 DEF PassesAreCaptured
<1> QED BY <1>3, <1>4, <1>5

\* TypeOK, with what it says of the passes folded.
LEMMA TypeParts ==
  TypeOK <=> /\ wallet \in Balance
             /\ rule \in Rules \cup {None}
             /\ state \in [Sales -> {"authorized", "captured", "voided"}]
             /\ settled \in [Sales -> {"no", "free", "paid"}]
             /\ key \in [Sales -> Nat \cup {None}]
             /\ journals \in [Sales -> Nat]
             /\ worker \in [Workers -> Pass]
             /\ \A w \in Workers : PassOK(worker[w])
BY DEF TypeOK, PassOK, Pass

\* Whatever the loop does next, it works on sales the batch had.
LEMMA ContinueIsAPass ==
  ASSUME TypeOK, PassesAreCaptured, NEW w \in Workers, NEW todo \in SUBSET worker[w].todo,
         Continue(w, todo), UNCHANGED state
  PROVE  /\ worker' \in [Workers -> Pass]
         /\ \A v \in Workers : PassOK(worker'[v])
         /\ PassesAreCaptured'
<1> DEFINE p == IF todo = {} THEN Resting
                ELSE [pc |-> "looping", todo |-> todo, now |-> None, rule |-> None]
<1>1. worker' = [worker EXCEPT ![w] = p]
  BY DEF Continue
<1>2. worker[w].todo \subseteq Sales /\ \A t \in worker[w].todo : state[t] = "captured"
  BY DEF TypeOK, PassesAreCaptured
<1>3. p \in Pass
  BY <1>2 DEF Pass, Resting
<1>4. PassOK(p) /\ p.todo \subseteq todo /\ p.now = None
  BY <1>3 DEF PassOK, Resting
<1> HIDE DEF p
<1> QED BY <1>1, <1>2, <1>4, PassMoves

\* The sale in hand belongs to the batch, and was captured.
LEMMA SaleInHand ==
  ASSUME TypeOK, PassesAreCaptured, NEW w \in Workers,
         worker[w].pc \in {"found", "priced", "reserved"}
  PROVE  /\ worker[w].now \in Sales /\ state[worker[w].now] = "captured"
         /\ worker[w].todo \ {worker[w].now} \in SUBSET worker[w].todo
         /\ worker[w].rule \in Rules \cup {None}
<1>1. PassOK(worker[w])
  BY TypeParts
<1> QED BY <1>1 DEF PassOK, Pass, PassesAreCaptured

(* A step that writes none of the books keeps them.                         *)
LEMMA BooksUntouched ==
  ASSUME SettlementInv, UNCHANGED <<settled, key, journals>>,
         wallet' \in Balance, RowChecks(wallet'),
         wallet'.posted_debits = wallet.posted_debits,
         \A t \in Sales : state[t] = "captured" => state'[t] = "captured"
  PROVE  DrawnDownOnce' /\ WalletIsExplained' /\ KeysMatchStamps'
BY DEF SettlementInv, DrawnDownOnce, WalletIsExplained, KeysMatchStamps, RowChecks, Available, SumOf
-----------------------------------------------------------------------------
LEMMA InitSettles == Init => SettlementInv
<1> SUFFICES ASSUME Init PROVE SettlementInv
  OBVIOUS
<1>1. TypeOK
  BY SettlementAssumption, FreshRow DEF Init, TypeOK, Resting
<1>2. DrawnDownOnce /\ KeysMatchStamps /\ PassesAreCaptured
  BY DEF Init, DrawnDownOnce, KeysMatchStamps, PassesAreCaptured, Resting
<1>3. WalletIsExplained
  <2>1. Drawn \in [Sales -> {0}]
    BY DEF Init, Drawn
  <2>2. SumOf(Drawn) = 0
    BY <2>1, SumOfZeros
  <2> QED BY <2>2, FreshRow DEF WalletIsExplained, Drawn, Init, NewBalance
<1> QED BY <1>1, <1>2, <1>3 DEF SettlementInv

\* The tills and the platform console do not touch the books of a settled sale.
LEMMA PlatformKeepsInv ==
  ASSUME SettlementInv, PlatformStep
  PROVE  SettlementInv'
<1> USE DEF SettlementInv
<1>1. ASSUME NEW t \in Sales, NEW next \in {"captured", "voided"}, Finish(t, next)
      PROVE  SettlementInv'
  <2>1. \A u \in Sales : state[u] = "captured" => state'[u] = "captured"
    BY <1>1 DEF Finish, TypeOK
  <2>2. DrawnDownOnce' /\ WalletIsExplained' /\ KeysMatchStamps'
    BY <1>1, <2>1, BooksUntouched DEF Finish, TypeOK, WalletIsExplained
  <2>3. TypeOK'
    BY <1>1 DEF Finish, TypeOK
  <2>4. PassesAreCaptured'
    BY <1>1, <2>1 DEF Finish, PassesAreCaptured, TypeOK
  <2> QED BY <2>2, <2>3, <2>4
<1>2. ASSUME NEW n \in 1..MaxFunds, TopUp(n)
      PROVE  SettlementInv'
  <2>1. n \in Nat /\ wallet \in Balance /\ RowChecks(wallet)
    BY SettlementAssumption DEF TypeOK, WalletIsExplained
  <2>2. /\ wallet' \in Balance /\ RowChecks(wallet')
        /\ wallet'.posted_debits = wallet.posted_debits
    BY <1>2, <2>1, RowCredit DEF TopUp
  <2>3. DrawnDownOnce' /\ WalletIsExplained' /\ KeysMatchStamps'
    BY <1>2, <2>2, BooksUntouched DEF TopUp
  <2>4. TypeOK' /\ PassesAreCaptured'
    BY <1>2, <2>2 DEF TopUp, TypeOK, PassesAreCaptured
  <2> QED BY <2>3, <2>4
<1>3. ASSUME NEW r \in Rules, SetCostRule(r)
      PROVE  SettlementInv'
  <2>1. DrawnDownOnce' /\ WalletIsExplained' /\ KeysMatchStamps'
    BY <1>3, BooksUntouched DEF SetCostRule, TypeOK, WalletIsExplained
  <2>2. TypeOK' /\ PassesAreCaptured'
    BY <1>3 DEF SetCostRule, TypeOK, PassesAreCaptured
  <2> QED BY <2>1, <2>2
<1> QED BY <1>1, <1>2, <1>3 DEF PlatformStep

(* What an instance does without writing a table.                           *)
LEMMA PassKeepsInv ==
  ASSUME SettlementInv, NEW w \in Workers,
         \/ ReadBatch(w) \/ Crash(w) \/ Restart(w)
         \/ \E t \in Sales : ReadSale(w, t)
         \/ ReadRule(w) \/ ReserveKey(w) \/ RefuseDrawdown(w)
  PROVE  SettlementInv'
<1> DEFINE Kept == /\ worker' \in [Workers -> Pass]
                   /\ \A v \in Workers : PassOK(worker'[v])
                   /\ PassesAreCaptured'
<1>1. TypeOK /\ PassesAreCaptured /\ PassOK(worker[w]) /\ worker[w] \in Pass
  BY TypeParts DEF SettlementInv, PassOK
<1>2. Resting \in Pass /\ [Resting EXCEPT !.pc = "down"] \in Pass
  BY DEF Resting, Pass
<1>3. UNCHANGED <<wallet, rule, state, settled, key, journals>>
  BY DEF ReadBatch, Crash, Restart, ReadSale, ReadRule, ReserveKey, RefuseDrawdown
<1>4. ASSUME ReadBatch(w) PROVE Kept
  <2>1. PICK batch \in SUBSET Unsettled :
          worker' = [worker EXCEPT ![w] =
            IF batch = {} THEN Resting
            ELSE [pc |-> "looping", todo |-> batch, now |-> None, rule |-> None]]
    BY <1>4 DEF ReadBatch
  <2> DEFINE p == IF batch = {} THEN Resting
                  ELSE [pc |-> "looping", todo |-> batch, now |-> None, rule |-> None]
  <2>2. batch \subseteq Sales /\ \A t \in batch : state[t] = "captured"
    BY DEF Unsettled
  <2>3. p \in Pass /\ p.todo = batch /\ p.now = None /\ p.pc \in {"resting", "looping"}
    BY <2>2 DEF Pass, Resting
  <2>4. worker' = [worker EXCEPT ![w] = p]
    BY <2>1
  <2> HIDE DEF p
  <2> QED BY <1>1, <1>3, <2>2, <2>3, <2>4, PassMoves DEF PassOK
<1>5. ASSUME Crash(w) \/ Restart(w) PROVE Kept
  <2>1. PICK p \in {Resting, [Resting EXCEPT !.pc = "down"]} : worker' = [worker EXCEPT ![w] = p]
    BY <1>5 DEF Crash, Restart
  <2>2. PassOK(p) /\ p.todo = {} /\ p.now = None
    BY <1>2 DEF PassOK, Resting
  <2> QED BY <1>1, <1>3, <2>1, <2>2, PassMoves
<1>6. ASSUME NEW t \in Sales, ReadSale(w, t) PROVE Kept
  <2>1. CASE Continue(w, worker[w].todo \ {t})
    BY <1>1, <1>3, <2>1, ContinueIsAPass
  <2>2. CASE worker' = [worker EXCEPT ![w].pc = "found", ![w].now = t]
    <3> DEFINE p == [worker[w] EXCEPT !.pc = "found", !.now = t]
    <3>1. worker' = [worker EXCEPT ![w] = p]
      BY <2>2, <1>1 DEF TypeOK
    <3>2. PassOK(p) /\ p.todo = worker[w].todo /\ p.now = t
      BY <1>1, SettlementAssumption DEF PassOK, Pass
    <3>3. t \in worker[w].todo
      BY <1>6 DEF ReadSale
    <3> HIDE DEF p
    <3> QED BY <1>1, <1>3, <3>1, <3>2, <3>3, PassMoves DEF PassesAreCaptured
  <2> QED BY <1>6, <2>1, <2>2 DEF ReadSale
<1>7. ASSUME ReadRule(w) \/ ReserveKey(w) PROVE Kept
  <2>1. PICK p \in {[worker[w] EXCEPT !.pc = "priced", !.rule = rule],
                    [worker[w] EXCEPT !.pc = "reserved"]} :
               worker' = [worker EXCEPT ![w] = p]
    BY <1>1, <1>7 DEF ReadRule, ReserveKey, TypeOK
  <2>2. worker[w].pc \in {"found", "priced"} /\ rule \in Rules \cup {None}
    BY <1>1, <1>7 DEF ReadRule, ReserveKey, TypeOK
  <2>3. PassOK(p) /\ p.todo = worker[w].todo /\ p.now = worker[w].now
    BY <1>1, <2>2 DEF PassOK, Pass
  <2> QED BY <1>1, <1>3, <2>1, <2>3, PassMoves DEF PassesAreCaptured
<1>8. ASSUME RefuseDrawdown(w) PROVE Kept
  BY <1>1, <1>3, <1>8, ContinueIsAPass, SaleInHand DEF RefuseDrawdown, Advance
<1>9. Kept
  BY <1>4, <1>5, <1>6, <1>7, <1>8
<1>10. TypeOK' /\ PassesAreCaptured'
  BY <1>1, <1>3, <1>9 DEF TypeOK, PassOK, Pass
<1>11. DrawnDownOnce' /\ WalletIsExplained' /\ KeysMatchStamps'
  BY <1>3, BooksUntouched DEF SettlementInv, TypeOK, WalletIsExplained
<1> QED BY <1>10, <1>11 DEF SettlementInv

(* A free sale is stamped without a journal; one already paid stays paid.   *)
LEMMA FreeKeepsInv ==
  ASSUME SettlementInv, NEW w \in Workers, SettleFree(w) \/ ReplayDrawdown(w)
  PROVE  SettlementInv'
<1> DEFINE t == worker[w].now
<1>1. /\ t \in Sales /\ state[t] = "captured"
      /\ worker[w].todo \ {t} \in SUBSET worker[w].todo
  BY SaleInHand DEF SettlementInv, SettleFree, ReplayDrawdown
<1>2. /\ worker' \in [Workers -> Pass] /\ \A v \in Workers : PassOK(worker'[v])
      /\ PassesAreCaptured'
  BY <1>1, ContinueIsAPass DEF SettlementInv, SettleFree, ReplayDrawdown, Advance
<1>3. /\ UNCHANGED <<wallet, rule, state, key, journals>>
      /\ settled' \in [Sales -> {"no", "free", "paid"}]
      /\ \A u \in Sales : /\ settled'[u] = "paid" <=> settled[u] = "paid"
                          /\ settled'[u] # "no" => state[u] = "captured"
  BY <1>1 DEF SettlementInv, TypeOK, DrawnDownOnce, KeysMatchStamps, SettleFree, ReplayDrawdown
<1>4. TypeOK'
  BY <1>2, <1>3 DEF SettlementInv, TypeOK, PassOK, Pass
<1>5. DrawnDownOnce' /\ KeysMatchStamps'
  BY <1>3 DEF SettlementInv, DrawnDownOnce, KeysMatchStamps
<1>6. Drawn' = Drawn
  BY <1>3 DEF Drawn
<1>7. WalletIsExplained'
  BY <1>3, <1>6 DEF SettlementInv, WalletIsExplained, Drawn, RowChecks, Available
<1> QED BY <1>2, <1>4, <1>5, <1>7 DEF SettlementInv

(* The drawdown takes from the wallet what the key of the sale remembers.   *)
LEMMA DrawdownKeepsInv ==
  ASSUME SettlementInv, NEW w \in Workers, Drawdown(w)
  PROVE  SettlementInv'
<1> DEFINE t == worker[w].now
           n == Total(t, worker[w].rule)
<1>1. /\ t \in Sales /\ state[t] = "captured"
      /\ worker[w].todo \ {t} \in SUBSET worker[w].todo
      /\ worker[w].rule \in Rules \cup {None}
  BY SaleInHand DEF SettlementInv, Drawdown
<1>2. n \in Nat
  BY <1>1, TotalType
<1>3. /\ worker' \in [Workers -> Pass] /\ \A v \in Workers : PassOK(worker'[v])
      /\ PassesAreCaptured'
  BY <1>1, ContinueIsAPass DEF SettlementInv, Drawdown, Advance
<1>4. /\ key[t] = None /\ HasAvailable(wallet, n)
      /\ wallet' = Debit(wallet, n)
      /\ key' = [key EXCEPT ![t] = n]
      /\ journals' = [journals EXCEPT ![t] = @ + 1]
      /\ settled' = [settled EXCEPT ![t] = "paid"]
      /\ UNCHANGED <<rule, state>>
  BY DEF Drawdown, MayDraw
<1> HIDE DEF n, t
<1>5. wallet \in Balance /\ RowChecks(wallet)
  BY DEF SettlementInv, TypeOK, WalletIsExplained
<1>6. /\ wallet' \in Balance /\ RowChecks(wallet')
      /\ wallet'.posted_debits = wallet.posted_debits + n
  BY <1>2, <1>4, <1>5, RowDebit
<1>7. TypeOK'
  BY <1>1, <1>2, <1>3, <1>4, <1>6 DEF SettlementInv, TypeOK, PassOK, Pass
<1>8. n # None
  BY <1>2, SettlementAssumption
<1>9. settled[t] # "paid" /\ journals[t] = 0
  BY <1>1, <1>4 DEF SettlementInv, KeysMatchStamps, DrawnDownOnce
<1>10. DrawnDownOnce' /\ KeysMatchStamps'
  BY <1>1, <1>4, <1>8, <1>9 DEF SettlementInv, TypeOK, DrawnDownOnce, KeysMatchStamps
<1>11. /\ Drawn \in [Sales -> Nat] /\ Drawn' \in [Sales -> Nat]
       /\ Drawn[t] = 0 /\ Drawn'[t] = n
       /\ \A u \in Sales \ {t} : Drawn'[u] = Drawn[u]
  BY <1>1, <1>2, <1>4, <1>9 DEF SettlementInv, TypeOK, KeysMatchStamps, Drawn
<1>12. SumOf(Drawn') = SumOf(Drawn) + n
  BY <1>1, <1>2, <1>11, SumChanges, SettlementAssumption
<1>13. WalletIsExplained'
  BY <1>6, <1>12 DEF SettlementInv, WalletIsExplained, Drawn
<1> QED BY <1>3, <1>7, <1>10, <1>13 DEF SettlementInv

LEMMA NextSettles == SettlementInv /\ [Next]_vars => SettlementInv'
<1> SUFFICES ASSUME SettlementInv, [Next]_vars PROVE SettlementInv'
  OBVIOUS
<1>1. CASE PlatformStep
  BY <1>1, PlatformKeepsInv
<1>2. ASSUME NEW w \in Workers, ReadBatch(w) \/ Settle(w) \/ Crash(w) \/ Restart(w)
      PROVE  SettlementInv'
  BY <1>2, PassKeepsInv, FreeKeepsInv, DrawdownKeepsInv DEF Settle
<1>3. CASE UNCHANGED vars
  BY <1>3 DEF vars, SettlementInv, TypeOK, DrawnDownOnce, WalletIsExplained, SumOf, RowChecks,
              Available, KeysMatchStamps, PassesAreCaptured
<1> QED BY <1>1, <1>2, <1>3 DEF Next

(* The inductive invariant of settlement, whatever the instances interleave *)
(* and wherever they stop.                                                  *)
THEOREM SettlementIsSafe == Spec => []SettlementInv
BY InitSettles, NextSettles, PTL DEF Spec

(* Every variable of the settlement keeps its type.                         *)
THEOREM SettlementTypes == Spec => []TypeOK
BY SettlementIsSafe, PTL DEF SettlementInv

(* However many instances settle a sale at once, it is drawn down at most   *)
(* once, and only when it was captured.                                     *)
THEOREM SalesAreDrawnDownOnce == Spec => []DrawnDownOnce
BY SettlementIsSafe, PTL DEF SettlementInv

(* The prepaid wallet is never overdrawn, and every unit that left it is in *)
(* the response of the key of one settled sale.                             *)
THEOREM WalletIsAlwaysExplained == Spec => []WalletIsExplained
BY SettlementIsSafe, PTL DEF SettlementInv
-----------------------------------------------------------------------------
(* A set of natural numbers that is not empty has a least member: what an   *)
(* induction over natural numbers comes down to.                            *)
LEMMA LeastNumber ==
  ASSUME NEW T, T \subseteq Nat, T # {}
  PROVE  \E n \in T : \A k \in T : n <= k
<1>1. PICK n \in T : \A k \in T : <<k, n>> \notin OpToRel(<, Nat)
  BY WFMin, NatLessThanWellFounded, Zenon
<1>2. \A k \in T : ~ (k < n)
  BY <1>1, Zenon DEF OpToRel
<1> QED BY <1>2

-----------------------------------------------------------------------------
(* The books of the sweep: what is credited to a member is what they earned *)
(* in all lots, and a sweep debits it only through the guard.               *)
EarnedIsCredited ==
  \A m \in Members : balance[m].posted_credits = PointsUpTo(m, LastDay)

SweepInv == SweepTypeOK /\ EarnedIsCredited /\ SweepNeverOverdraws

LEMMA PointsUpToGrow ==
  ASSUME SweepTypeOK, NEW m \in Members
  PROVE  /\ \A d \in 0..LastDay : PointsUpTo(m, d) \in Nat
         /\ PointsUpTo(m, 0) = 0
         /\ \A d \in Days : /\ earned[m][d] \in Nat
                            /\ PointsUpTo(m, d) = PointsUpTo(m, d - 1) + earned[m][d]
<1>1. earned[m] \in [Days -> Nat] /\ LastDay \in Nat \ {0} /\ Days = 1..LastDay
  BY SweepAssumption DEF SweepTypeOK, Days
<1>2. ASSUME NEW d \in 0..LastDay PROVE PointsUpTo(m, d) \in Nat
  <2>1. [e \in 1..d |-> earned[m][e]] \in [1..d -> Nat]
    BY <1>1
  <2>2. IsFiniteSet(1..d)
    <3>1. 1 \in Int /\ d \in Int
      BY <1>1
    <3> QED BY <3>1, FS_Interval
  <2> QED BY <2>1, <2>2, SumType DEF PointsUpTo
<1>3. PointsUpTo(m, 0) = 0
  <2>1. [e \in 1..0 |-> earned[m][e]] \in [1..0 -> {0}]
    OBVIOUS
  <2> QED BY <2>1, SumOfZeros DEF PointsUpTo
<1>4. ASSUME NEW d \in Days
      PROVE  earned[m][d] \in Nat /\ PointsUpTo(m, d) = PointsUpTo(m, d - 1) + earned[m][d]
  <2> DEFINE f == [e \in 1..d |-> earned[m][e]]
  <2>1. d \in Nat \ {0} /\ f \in [1..d -> Nat] /\ f[d] = earned[m][d]
    BY <1>1
  <2>2. [e \in 1..(d - 1) |-> f[e]] = [e \in 1..(d - 1) |-> earned[m][e]]
    BY <1>1
  <2>3. SumOf(f) = SumOf([e \in 1..(d - 1) |-> f[e]]) + f[d]
    BY <2>1, SumOfNext
  <2> QED BY <1>1, <2>1, <2>2, <2>3 DEF PointsUpTo
<1> QED BY <1>2, <1>3, <1>4

LEMMA PointsUpToRise ==
  ASSUME SweepTypeOK, NEW m \in Members, NEW d \in 0..LastDay
  PROVE  PointsUpTo(m, d) <= PointsUpTo(m, LastDay)
<1> DEFINE T == {e \in d..LastDay : PointsUpTo(m, e) < PointsUpTo(m, d)}
<1>1. LastDay \in Nat /\ Days = 1..LastDay
  BY SweepAssumption DEF Days
<1>2. \A e \in 0..LastDay : PointsUpTo(m, e) \in Nat
  BY PointsUpToGrow
<1>3. T = {}
  <2> SUFFICES ASSUME T # {} PROVE FALSE
    OBVIOUS
  <2>0. T \subseteq Nat
    BY <1>1
  <2>1. PICK e \in T : \A k \in T : e <= k
    <3> HIDE DEF T
    <3> QED BY <2>0, LeastNumber
  <2>2. e \in d..LastDay /\ e # d /\ PointsUpTo(m, e) < PointsUpTo(m, d)
    BY <1>2, <2>1
  <2>3. e - 1 \in d..LastDay /\ e \in Days /\ e - 1 \notin T
    BY <1>1, <2>1, <2>2
  <2>4. PointsUpTo(m, e) = PointsUpTo(m, e - 1) + earned[m][e] /\ earned[m][e] \in Nat
    BY <2>3, PointsUpToGrow
  <2>5. PointsUpTo(m, e - 1) \in Nat /\ PointsUpTo(m, e) \in Nat /\ PointsUpTo(m, d) \in Nat
    BY <1>1, <1>2, <2>2, <2>3
  <2>6. ~ (PointsUpTo(m, e - 1) < PointsUpTo(m, d))
    BY <2>3
  <2> QED BY <2>2, <2>4, <2>5, <2>6
<1>4. LastDay \in d..LastDay /\ LastDay \notin T
  BY <1>1, <1>3
<1> QED BY <1>1, <1>2, <1>4
-----------------------------------------------------------------------------
Spent(m) == balance[m].posted_debits + balance[m].pending_debits

(* The loop of expiring(), lot by lot, in closed form: what the lots up to  *)
(* a day have not eaten is what was spent beyond them.                      *)
Beyond(m, d) == IF Spent(m) > PointsUpTo(m, d) THEN Spent(m) - PointsUpTo(m, d) ELSE 0

LEMMA UneatenIsBeyond ==
  ASSUME SweepTypeOK, NEW m \in Members
  PROVE  \A d \in 0..LastDay : Uneaten(m)[d] = Beyond(m, d)
<1> DEFINE Eat(f) == [e \in 0..LastDay |->
             IF e = 0 THEN Spent(m) ELSE f[e - 1] - Lesser(f[e - 1], earned[m][e])]
           g == [e \in 0..LastDay |-> Beyond(m, e)]
           h == Uneaten(m)
<1>1. LastDay \in Nat /\ Days = 1..LastDay /\ Spent(m) \in Nat
  BY SweepAssumption DEF Days, SweepTypeOK, Balance, Spent
<1>2. /\ \A e \in 0..LastDay : PointsUpTo(m, e) \in Nat
      /\ PointsUpTo(m, 0) = 0
      /\ \A e \in Days : earned[m][e] \in Nat /\ PointsUpTo(m, e) = PointsUpTo(m, e - 1) + earned[m][e]
  BY PointsUpToGrow
<1>3. g = Eat(g)
  <2> SUFFICES ASSUME NEW e \in 0..LastDay
               PROVE  g[e] = IF e = 0 THEN Spent(m) ELSE g[e - 1] - Lesser(g[e - 1], earned[m][e])
    OBVIOUS
  <2>1. CASE e = 0
    BY <1>1, <1>2, <2>1 DEF Beyond
  <2>2. CASE e # 0
    <3>1. e \in Days /\ e - 1 \in 0..LastDay
      BY <1>1, <2>2
    <3>2. g[e] = Beyond(m, e) /\ g[e - 1] = Beyond(m, e - 1)
      BY <3>1
    <3>3. /\ PointsUpTo(m, e) \in Nat /\ PointsUpTo(m, e - 1) \in Nat /\ earned[m][e] \in Nat
          /\ PointsUpTo(m, e) = PointsUpTo(m, e - 1) + earned[m][e]
      BY <1>2, <3>1
    <3> HIDE DEF g
    <3> QED BY <1>1, <2>2, <3>2, <3>3 DEF Beyond, Lesser
  <2> QED BY <2>1, <2>2
<1>4. h = CHOOSE f : f = Eat(f)
  BY Zenon DEF Uneaten, Spent
<1> HIDE DEF Eat, g, h
<1>5. h = Eat(h)
  BY <1>3, <1>4, Zenon
<1>6. /\ h[0] = Spent(m) /\ g[0] = Spent(m)
      /\ \A e \in Days : /\ h[e] = h[e - 1] - Lesser(h[e - 1], earned[m][e])
                         /\ g[e] = g[e - 1] - Lesser(g[e - 1], earned[m][e])
  BY <1>1, <1>3, <1>5 DEF Eat
<1> DEFINE T == {e \in 0..LastDay : h[e] # g[e]}
<1>7. T = {}
  <2> SUFFICES ASSUME T # {} PROVE FALSE
    OBVIOUS
  <2>0. T \subseteq Nat
    BY <1>1
  <2>1. PICK e \in T : \A k \in T : e <= k
    <3> HIDE DEF T
    <3> QED BY <2>0, LeastNumber
  <2>2. e \in Days /\ h[e] # g[e] /\ e - 1 \in 0..LastDay /\ e - 1 \notin T
    BY <1>1, <1>6, <2>1
  <2>3. h[e - 1] = g[e - 1]
    BY <2>2
  <2> QED BY <1>6, <2>2, <2>3
<1>8. \A d \in 0..LastDay : h[d] = g[d]
  BY <1>7
<1> QED BY <1>8 DEF g, h

(* What the forecast leaves to the sweep: what has lapsed beyond what was   *)
(* spent or is held.                                                        *)
LEMMA LapsedIsUnspent ==
  ASSUME SweepTypeOK, NEW m \in Members
  PROVE  Lapsed(m) = IF EarnedExpired(m) > Spent(m) THEN EarnedExpired(m) - Spent(m) ELSE 0
<1> DEFINE P(d) == PointsUpTo(m, d)
           U(d) == Uneaten(m)[d]
           Forecast(n) == SumOf([d \in 1..n |-> Left(m, d)])
           Over(n) == IF P(n) > Spent(m) THEN P(n) - Spent(m) ELSE 0
<1>1. LastDay \in Nat /\ Days = 1..LastDay /\ Spent(m) \in Nat /\ today \in Days
  BY SweepAssumption DEF Days, SweepTypeOK, Balance, Spent
<1>2. /\ \A e \in 0..LastDay : P(e) \in Nat
      /\ P(0) = 0
      /\ \A e \in Days : earned[m][e] \in Nat /\ P(e) = P(e - 1) + earned[m][e]
  BY PointsUpToGrow
<1>3. \A e \in 0..LastDay : U(e) = IF Spent(m) > P(e) THEN Spent(m) - P(e) ELSE 0
  BY UneatenIsBeyond DEF Beyond
<1>4. \A e \in Days : Left(m, e) = earned[m][e] - (U(e - 1) - U(e))
  BY DEF Left
<1> HIDE DEF P, U
<1>5. ASSUME NEW e \in Days PROVE Left(m, e) \in Nat /\ Over(e) = Over(e - 1) + Left(m, e)
  <2>1. e \in 0..LastDay /\ e - 1 \in 0..LastDay
    BY <1>1
  <2>2. P(e) \in Nat /\ P(e - 1) \in Nat /\ earned[m][e] \in Nat /\ P(e) = P(e - 1) + earned[m][e]
    BY <1>2, <2>1
  <2>3. /\ U(e) = IF Spent(m) > P(e) THEN Spent(m) - P(e) ELSE 0
        /\ U(e - 1) = IF Spent(m) > P(e - 1) THEN Spent(m) - P(e - 1) ELSE 0
        /\ Left(m, e) = earned[m][e] - (U(e - 1) - U(e))
    BY <1>3, <1>4, <2>1
  <2>4. /\ Over(e) = IF P(e) > Spent(m) THEN P(e) - Spent(m) ELSE 0
        /\ Over(e - 1) = IF P(e - 1) > Spent(m) THEN P(e - 1) - Spent(m) ELSE 0
    OBVIOUS
  <2> HIDE DEF Over
  <2>5. CASE Spent(m) > P(e)
    BY <1>1, <2>2, <2>3, <2>4, <2>5
  <2>6. CASE Spent(m) <= P(e) /\ Spent(m) > P(e - 1)
    BY <1>1, <2>2, <2>3, <2>4, <2>6
  <2>7. CASE Spent(m) <= P(e - 1)
    BY <1>1, <2>2, <2>3, <2>4, <2>7
  <2> QED BY <1>1, <2>2, <2>5, <2>6, <2>7
<1>6. ASSUME NEW n \in Days
      PROVE  Forecast(n) = Forecast(n - 1) + Left(m, n)
  <2> DEFINE f == [d \in 1..n |-> Left(m, d)]
  <2>1. n \in Nat \ {0} /\ f \in [1..n -> Nat] /\ f[n] = Left(m, n)
    BY <1>1, <1>5
  <2>2. [d \in 1..(n - 1) |-> f[d]] = [d \in 1..(n - 1) |-> Left(m, d)]
    BY <1>1
  <2>3. SumOf(f) = SumOf([d \in 1..(n - 1) |-> f[d]]) + f[n]
    BY <2>1, SumOfNext
  <2> QED BY <2>1, <2>2, <2>3
<1>7. Forecast(0) = 0 /\ Over(0) = 0
  <2>1. [d \in 1..0 |-> Left(m, d)] \in [1..0 -> {0}]
    OBVIOUS
  <2>2. Forecast(0) = 0
    BY <2>1, SumOfZeros
  <2>3. Over(0) = 0
    BY <1>1, <1>2
  <2> QED BY <2>2, <2>3
<1> HIDE DEF Forecast, Over
<1> DEFINE T == {n \in 0..LastDay : Forecast(n) # Over(n)}
<1>8. T = {}
  <2> SUFFICES ASSUME T # {} PROVE FALSE
    OBVIOUS
  <2>0. T \subseteq Nat
    BY <1>1
  <2>1. PICK n \in T : \A k \in T : n <= k
    <3> HIDE DEF T
    <3> QED BY <2>0, LeastNumber
  <2>2. n \in Days /\ n - 1 \in 0..LastDay /\ n - 1 \notin T /\ Forecast(n) # Over(n)
    BY <1>1, <1>7, <2>1
  <2> QED BY <1>5, <1>6, <2>2
<1>9. today - 1 \in 0..LastDay /\ Forecast(today - 1) = Over(today - 1)
  BY <1>1, <1>8
<1> QED BY <1>9 DEF Forecast, Over, P, Lapsed, EarnedExpired

LEMMA SweepTakes ==
  ASSUME SweepTypeOK, NEW m \in Members
  PROVE  EarnedExpired(m) \in Nat /\ ToExpire(m) \in Nat
<1>1. today - 1 \in 0..LastDay
  BY SweepAssumption DEF SweepTypeOK, Days
<1>2. EarnedExpired(m) \in Nat
  BY <1>1, PointsUpToGrow DEF EarnedExpired
<1>3. balance[m].posted_debits \in Nat /\ Available(balance[m]) \in Int
  BY DEF SweepTypeOK, Balance, Available
<1> QED BY <1>2, <1>3 DEF ToExpire, Lesser

LEMMA ForecastFollows == SweepInv => ForecastExactWithoutHolds
<1> SUFFICES ASSUME SweepInv, NEW m \in Members, balance[m].pending_debits = 0
             PROVE  ToExpire(m) = Lapsed(m)
  BY DEF ForecastExactWithoutHolds
<1>1. SweepTypeOK
  BY DEF SweepInv
<1>2. /\ balance[m].posted_debits \in Nat /\ balance[m].posted_credits \in Nat
      /\ Spent(m) = balance[m].posted_debits
      /\ Available(balance[m]) = balance[m].posted_credits - balance[m].posted_debits
      /\ balance[m].posted_credits = PointsUpTo(m, LastDay)
  BY <1>1 DEF SweepTypeOK, Balance, Available, Spent, SweepInv, EarnedIsCredited
<1>3. today - 1 \in 0..LastDay
  BY <1>1, SweepAssumption DEF SweepTypeOK, Days
<1>4. EarnedExpired(m) \in Nat /\ EarnedExpired(m) <= balance[m].posted_credits
  BY <1>1, <1>2, <1>3, PointsUpToRise, SweepTakes DEF EarnedExpired
<1>5. Lapsed(m) = IF EarnedExpired(m) > Spent(m) THEN EarnedExpired(m) - Spent(m) ELSE 0
  BY <1>1, LapsedIsUnspent
<1> QED BY <1>2, <1>4, <1>5 DEF ToExpire, Lesser
-----------------------------------------------------------------------------
LEMMA InitSweeps == SweepInit => SweepInv
<1> SUFFICES ASSUME SweepInit PROVE SweepInv
  OBVIOUS
<1>1. SweepTypeOK
  BY FreshRow, SweepAssumption DEF SweepInit, SweepTypeOK, NotSweeping, Days
<1>2. ASSUME NEW m \in Members PROVE PointsUpTo(m, LastDay) = 0
  <2>1. [e \in 1..LastDay |-> earned[m][e]] \in [1..LastDay -> {0}]
    BY DEF SweepInit, Days
  <2> QED BY <2>1, SumOfZeros DEF PointsUpTo
<1>3. EarnedIsCredited /\ SweepNeverOverdraws
  BY <1>2, FreshRow DEF SweepInit, EarnedIsCredited, SweepNeverOverdraws, NewBalance
<1> QED BY <1>1, <1>3 DEF SweepInv

LEMMA EarnKeepsSweeps ==
  ASSUME SweepInv, NEW m \in Members, NEW d \in Days, NEW n \in Nat, Earn(m, d, n)
  PROVE  SweepInv'
<1> DEFINE f == [e \in 1..LastDay |-> earned[m][e]]
           g == [e \in 1..LastDay |-> earned'[m][e]]
<1>1. /\ SweepTypeOK /\ Days = 1..LastDay /\ LastDay \in Nat
      /\ balance[m] \in Balance /\ earned[m] \in [Days -> Nat] /\ RowChecks(balance[m])
  BY SweepAssumption DEF SweepInv, SweepTypeOK, Days, SweepNeverOverdraws
<1>2. /\ balance'[m] = Credit(balance[m], n)
      /\ \A k \in Members \ {m} : balance'[k] = balance[k] /\ earned'[k] = earned[k]
      /\ earned'[m] = [earned[m] EXCEPT ![d] = @ + n]
      /\ UNCHANGED <<today, sweep>>
  BY <1>1 DEF Earn, SweepTypeOK
<1>3. /\ Credit(balance[m], n) \in Balance /\ RowChecks(Credit(balance[m], n))
      /\ Credit(balance[m], n).posted_credits = balance[m].posted_credits + n
  BY <1>1, RowCredit
<1>4. SweepTypeOK'
  <2>1. balance' \in [Members -> Balance]
    BY <1>1, <1>3 DEF Earn, SweepTypeOK
  <2>2. earned' \in [Members -> [Days -> Nat]]
    <3>1. earned'[m] \in [Days -> Nat]
      BY <1>1, <1>2
    <3>2. earned' \in [Members -> [Days -> Nat]] <=> \A k \in Members : earned'[k] \in [Days -> Nat]
      BY <1>1 DEF Earn, SweepTypeOK
    <3> QED BY <1>1, <1>2, <3>1, <3>2 DEF SweepTypeOK
  <2> QED BY <1>1, <1>2, <2>1, <2>2 DEF SweepTypeOK
<1>5. SumOf(g) = SumOf(f) + n
  <2>1. f \in [1..LastDay -> Nat] /\ f[d] \in Nat
    BY <1>1
  <2>2. g \in [1..LastDay -> Nat] /\ g[d] = f[d] + n /\ \A e \in (1..LastDay) \ {d} : g[e] = f[e]
    BY <1>1, <1>2
  <2>3. IsFiniteSet(1..LastDay) /\ d \in 1..LastDay
    <3>1. 1 \in Int /\ LastDay \in Int /\ d \in 1..LastDay
      BY <1>1
    <3>2. IsFiniteSet(1..LastDay)
      BY <3>1, FS_Interval
    <3> QED BY <3>1, <3>2
  <2> HIDE DEF f, g
  <2>4. SumOf(f) \in Nat /\ SumOf(g) = SumOf(f) - f[d] + g[d]
    BY <2>1, <2>2, <2>3, SumChanges
  <2> QED BY <2>1, <2>2, <2>4
<1>6. PointsUpTo(m, LastDay)' = PointsUpTo(m, LastDay) + n
  BY <1>5 DEF PointsUpTo
<1>7. \A k \in Members \ {m} : PointsUpTo(k, LastDay)' = PointsUpTo(k, LastDay)
  BY <1>2 DEF PointsUpTo
<1>8. EarnedIsCredited'
  BY <1>2, <1>3, <1>6, <1>7 DEF SweepInv, EarnedIsCredited
<1>9. SweepNeverOverdraws'
  BY <1>2, <1>3 DEF SweepInv, SweepNeverOverdraws
<1> QED BY <1>4, <1>8, <1>9 DEF SweepInv

(* A step that changes rows only by statements that keep them rows, keep    *)
(* what was credited and keep the checks.                                   *)
LEMMA RowsKeepSweeps ==
  ASSUME SweepInv, UNCHANGED earned, today' \in Days,
         sweep' \in [Sweepers -> [pc : {"resting", "read"}, toExpire : [Members -> Nat]]],
         balance' \in [Members -> Balance],
         \A m \in Members : /\ balance'[m].posted_credits = balance[m].posted_credits
                            /\ RowChecks(balance'[m])
  PROVE  SweepInv'
<1>1. SweepTypeOK'
  BY DEF SweepInv, SweepTypeOK
<1>2. \A m : PointsUpTo(m, LastDay)' = PointsUpTo(m, LastDay)
  BY DEF PointsUpTo
<1> QED BY <1>1, <1>2 DEF SweepInv, EarnedIsCredited, SweepNeverOverdraws

LEMMA UpdateKeepsSweeps ==
  ASSUME SweepInv, NEW m \in Members, NEW row \in Balance, Update(m, row),
         row.posted_credits = balance[m].posted_credits, RowChecks(row)
  PROVE  SweepInv'
<1>1. SweepTypeOK
  BY DEF SweepInv
<1>2. balance' \in [Members -> Balance] /\ \A k \in Members : balance'[k] = IF k = m THEN row ELSE balance[k]
  BY <1>1 DEF Update, SweepTypeOK
<1>3. UNCHANGED <<earned, today, sweep>>
  BY DEF Update
<1>4. \A k \in Members : /\ balance'[k].posted_credits = balance[k].posted_credits
                         /\ RowChecks(balance'[k])
  BY <1>2 DEF SweepInv, SweepNeverOverdraws
<1> QED BY <1>1, <1>2, <1>3, <1>4, RowsKeepSweeps DEF SweepTypeOK

LEMMA MemberKeepsSweeps == SweepInv /\ MemberStep => SweepInv'
<1> SUFFICES ASSUME SweepInv, NEW m \in Members, NEW n \in 1..MaxEarned,
                    \/ \E d \in Days : Earn(m, d, n)
                    \/ Spend(m, n) \/ Authorize(m, n) \/ CaptureSale(m, n) \/ Void(m, n)
             PROVE  SweepInv'
  BY DEF MemberStep
<1> DEFINE b == balance[m]
<1>1. n \in Nat /\ b \in Balance /\ RowChecks(b)
  BY SweepAssumption DEF SweepInv, SweepTypeOK, SweepNeverOverdraws
<1> HIDE DEF b
<1>2. CASE \E d \in Days : Earn(m, d, n)
  BY <1>1, <1>2, EarnKeepsSweeps
<1>3. CASE Spend(m, n)
  <2>1. Debit(b, n) \in Balance /\ Debit(b, n).posted_credits = b.posted_credits /\ RowChecks(Debit(b, n))
    BY <1>1, <1>3, RowDebit DEF Spend, b
  <2> QED BY <1>3, <2>1, UpdateKeepsSweeps DEF Spend, b
<1>4. CASE Authorize(m, n)
  <2>1. Hold(b, n) \in Balance /\ Hold(b, n).posted_credits = b.posted_credits /\ RowChecks(Hold(b, n))
    BY <1>1, <1>4, RowHold DEF Authorize, b
  <2> QED BY <1>4, <2>1, UpdateKeepsSweeps DEF Authorize, b
<1>5. CASE CaptureSale(m, n)
  <2>1. Capture(b, n) \in Balance /\ Capture(b, n).posted_credits = b.posted_credits /\ RowChecks(Capture(b, n))
    BY <1>1, <1>5, RowCapture DEF CaptureSale, b
  <2> QED BY <1>5, <2>1, UpdateKeepsSweeps DEF CaptureSale, b
<1>6. CASE Void(m, n)
  <2>1. Release(b, n) \in Balance /\ Release(b, n).posted_credits = b.posted_credits /\ RowChecks(Release(b, n))
    BY <1>1, <1>6, RowRelease DEF Void, b
  <2> QED BY <1>6, <2>1, UpdateKeepsSweeps DEF Void, b
<1> QED BY <1>2, <1>3, <1>4, <1>5, <1>6

(* A commit of breakage debits rows that changed since they were read: the  *)
(* guard, on the row of now, is what keeps the checks.                      *)
LEMMA BreakageKeepsSweeps ==
  ASSUME SweepInv, NEW w \in Sweepers, PostBreakage(w)
  PROVE  SweepInv'
<1> DEFINE due == sweep[w].toExpire
<1>1. SweepTypeOK /\ due \in [Members -> Nat]
  BY DEF SweepInv, SweepTypeOK
<1>2. /\ \A m \in Members : Covered(m, due[m])
      /\ balance' = [m \in Members |-> Debit(balance[m], due[m])]
      /\ sweep' = [sweep EXCEPT ![w] = NotSweeping]
      /\ UNCHANGED <<earned, today>>
  BY DEF PostBreakage
<1> HIDE DEF due
<1>3. ASSUME NEW m \in Members
      PROVE  /\ Debit(balance[m], due[m]) \in Balance
             /\ Debit(balance[m], due[m]).posted_credits = balance[m].posted_credits
             /\ RowChecks(Debit(balance[m], due[m]))
  <2>1. balance[m] \in Balance /\ RowChecks(balance[m]) /\ due[m] \in Nat
    BY <1>1 DEF SweepTypeOK, SweepInv, SweepNeverOverdraws
  <2>2. HasAvailable(balance[m], due[m])
    BY <1>2, <2>1 DEF Covered, HasAvailable, RowChecks, Available, Balance
  <2> QED BY <2>1, <2>2, RowDebit
<1>4. balance' \in [Members -> Balance] /\ \A m \in Members : balance'[m] = Debit(balance[m], due[m])
  BY <1>2, <1>3
<1>5. sweep' \in [Sweepers -> [pc : {"resting", "read"}, toExpire : [Members -> Nat]]]
  BY <1>1, <1>2 DEF SweepTypeOK, NotSweeping
<1> QED BY <1>1, <1>2, <1>3, <1>4, <1>5, RowsKeepSweeps DEF SweepTypeOK

LEMMA NextSweeps == SweepInv /\ [SweepNext]_sweepVars => SweepInv'
<1> SUFFICES ASSUME SweepInv, [SweepNext]_sweepVars PROVE SweepInv'
  OBVIOUS
<1>1. /\ SweepTypeOK /\ balance \in [Members -> Balance] /\ today \in Days
      /\ \A m \in Members : RowChecks(balance[m])
  BY DEF SweepInv, SweepTypeOK, SweepNeverOverdraws
<1>2. ASSUME UNCHANGED <<balance, earned>>, today' \in Days,
             sweep' \in [Sweepers -> [pc : {"resting", "read"}, toExpire : [Members -> Nat]]]
      PROVE  SweepInv'
  BY <1>1, <1>2, RowsKeepSweeps
<1>3. CASE MemberStep
  BY <1>3, MemberKeepsSweeps
<1>4. ASSUME NEW w \in Sweepers, ReadAccounts(w) PROVE SweepInv'
  <2>1. [m \in Members |-> ToExpire(m)] \in [Members -> Nat]
    BY <1>1, SweepTakes
  <2> QED BY <1>1, <1>2, <1>4, <2>1 DEF ReadAccounts, SweepTypeOK
<1>5. ASSUME NEW w \in Sweepers, PostBreakage(w) PROVE SweepInv'
  BY <1>5, BreakageKeepsSweeps
<1>6. ASSUME NEW w \in Sweepers, FailSweep(w) \/ SweepDies(w) PROVE SweepInv'
  BY <1>1, <1>2, <1>6 DEF FailSweep, SweepDies, SweepTypeOK, NotSweeping
<1>7. CASE NextDay
  BY <1>1, <1>2, <1>7, SweepAssumption DEF NextDay, SweepTypeOK, Days
<1>8. CASE UNCHANGED sweepVars
  BY <1>1, <1>2, <1>8 DEF sweepVars, SweepTypeOK
<1> QED BY <1>3, <1>4, <1>5, <1>6, <1>7, <1>8 DEF SweepNext, SweepStep

(* The invariant of the sweep, for any number of members, instances, days   *)
(* and points.                                                              *)
THEOREM SweepIsSafe == SweepSpec => []SweepInv
<1>1. SweepInv /\ [SweepNext]_sweepVars => SweepInv'
  BY NextSweeps
<1> QED BY <1>1, InitSweeps, PTL DEF SweepSpec

(* Every variable of the sweep keeps its type.                              *)
THEOREM SweepTypes == SweepSpec => []SweepTypeOK
<1>1. SweepInv => SweepTypeOK
  BY DEF SweepInv
<1> QED BY <1>1, SweepIsSafe, PTL

(* However stale the rows a sweep read, its commit takes neither points     *)
(* that are held nor points that are gone.                                  *)
THEOREM SweepsNeverOverdraw == SweepSpec => []SweepNeverOverdraws
<1>1. SweepInv => SweepNeverOverdraws
  BY DEF SweepInv
<1> QED BY <1>1, SweepIsSafe, PTL

(* The customer's forecast, lot by lot, and the sweep's two sums agree on   *)
(* every history of lots and debits, while nothing is held.                 *)
THEOREM ForecastIsExact == SweepSpec => []ForecastExactWithoutHolds
<1> QED BY ForecastFollows, SweepIsSafe, PTL
-----------------------------------------------------------------------------
(* What a pass relies on: it sends no delivery that was tried MAX_ATTEMPTS  *)
(* times when it read it, and writes delivered only after a request was     *)
(* accepted.                                                                *)
BatchIsTried ==
  \A i \in Instances : \A d \in delivering[i].batch : delivering[i].attempts[d] < MaxAttempts

AcceptedIsPosted ==
  \A i \in Instances : delivering[i].pc = "accepted" => posts[delivering[i].now] > 0

RelayInv == RelayTypeOK /\ AlertedOnce /\ OutcomesAreTrue /\ BatchIsTried /\ AcceptedIsPosted

Outcomes == {"absent", "pending", "failed", "delivered", "dead"}
DeliveryRow == [status : Outcomes, attempts : Nat]

\* What OutcomesAreTrue says of one row.
OutcomeIsTrue(row, accepted) ==
  /\ row.status = "delivered" => accepted > 0
  /\ row.status = "dead" <=> (row.attempts = MaxAttempts /\ row.status # "delivered")
  /\ row.attempts <= MaxAttempts

LEMMA InitRelays == RelayInit => RelayInv
<1> SUFFICES ASSUME RelayInit PROVE RelayInv
  OBVIOUS
<1> USE DEF RelayInit, Absent, NotRelaying, NotSending
<1>1. RelayTypeOK
  BY DEF RelayTypeOK
<1>2. AlertedOnce /\ OutcomesAreTrue
  BY RelayAssumption DEF AlertedOnce, OutcomesAreTrue
<1>3. BatchIsTried /\ AcceptedIsPosted
  BY DEF BatchIsTried, AcceptedIsPosted
<1> QED BY <1>1, <1>2, <1>3 DEF RelayInv

(* The two relays publish rows, and only the claim alerts, of what waits.   *)
LEMMA EventsKeepRelay == RelayInv /\ EventStep => RelayInv'
<1> SUFFICES ASSUME RelayInv, EventStep PROVE RelayInv'
  OBVIOUS
<1>1. RelayTypeOK /\ AlertedOnce /\ UNCHANGED <<relaying, delivery, delivering, posts>>
  BY DEF RelayInv, EventStep, Emit, Age, ClaimAlerts
<1>2. OutcomesAreTrue' /\ BatchIsTried' /\ AcceptedIsPosted'
  BY <1>1 DEF RelayInv, OutcomesAreTrue, BatchIsTried, AcceptedIsPosted
<1>3. RelayTypeOK' /\ AlertedOnce'
  <2>1. ASSUME NEW e \in Events, Emit(e) PROVE RelayTypeOK' /\ AlertedOnce'
    BY <1>1, <2>1 DEF Emit, RelayTypeOK, AlertedOnce
  <2>2. ASSUME NEW e \in Events, Age(e) PROVE RelayTypeOK' /\ AlertedOnce'
    BY <1>1, <2>2 DEF Age, RelayTypeOK, AlertedOnce
  <2>3. ASSUME NEW batch \in SUBSET PointsEvents, ClaimAlerts(batch)
        PROVE  RelayTypeOK' /\ AlertedOnce'
    <3>1. /\ outbox' = [e \in Events |-> IF e \in batch THEN "published" ELSE outbox[e]]
          /\ alerts' = [e \in Events |-> IF e \in batch THEN alerts[e] + 1 ELSE alerts[e]]
          /\ UNCHANGED <<aged, relaying, delivery, delivering, posts>>
          /\ \A e \in batch : outbox[e] = "waiting"
      BY <2>3 DEF ClaimAlerts
    <3>2. RelayTypeOK'
      BY <1>1, <3>1 DEF RelayTypeOK
    <3>3. ASSUME NEW e \in Events
          PROVE  alerts'[e] <= 1 /\ (alerts'[e] = 1 => outbox'[e] = "published")
      <4>1. alerts[e] \in Nat /\ alerts[e] <= 1 /\ (alerts[e] = 1 => outbox[e] = "published")
        BY <1>1 DEF AlertedOnce, RelayTypeOK
      <4>2. CASE e \in batch
        BY <3>1, <4>1, <4>2
      <4>3. CASE e \notin batch
        BY <3>1, <4>1, <4>3
      <4> QED BY <4>2, <4>3
    <3> QED BY <3>2, <3>3 DEF AlertedOnce
  <2> QED BY <2>1, <2>2, <2>3 DEF EventStep
<1> QED BY <1>2, <1>3 DEF RelayInv

Writes(i, status) ==
  \/ RecordDelivered(i) /\ status = "delivered"
  \/ /\ RecordFailed(i)
     /\ LET tries == delivering[i].attempts[delivering[i].now] + 1
        IN status = IF tries >= MaxAttempts THEN "dead" ELSE "failed"

(* An answer is written with one attempt more than was read, which is at    *)
(* most MAX_ATTEMPTS, whatever the row says by then.                        *)
LEMMA AnswerIsTrue ==
  ASSUME RelayInv, NEW i \in Instances, NEW status, Writes(i, status)
  PROVE  LET d   == delivering[i].now
             row == [status |-> status, attempts |-> delivering[i].attempts[d] + 1]
         IN /\ d \in Deliveries /\ d \in delivering[i].batch
            /\ delivering[i].pc \in {"sending", "accepted"}
            /\ row \in DeliveryRow /\ OutcomeIsTrue(row, posts[d])
            /\ delivery' = [delivery EXCEPT ![d] = row]
            /\ UNCHANGED <<outbox, aged, alerts, relaying, posts>>
            /\ \/ delivering' = [delivering EXCEPT ![i] = NotSending]
               \/ \E left \in SUBSET (delivering[i].batch \ {d}) :
                    delivering' = [delivering EXCEPT ![i] =
                      [pc |-> "reading", now |-> NoDelivery, batch |-> left,
                       attempts |-> delivering[i].attempts]]
<1> DEFINE d    == delivering[i].now
           n    == delivering[i].attempts[d]
           row  == [status |-> status, attempts |-> n + 1]
           left == delivering[i].batch \ {d}
<1>1. /\ delivering[i] \in [pc : {"idle", "reading", "sending", "accepted"},
                            now : Deliveries \cup {NoDelivery},
                            batch : SUBSET Deliveries, attempts : [Deliveries -> Nat]]
      /\ delivering[i].pc \in {"sending", "accepted"} => d \in delivering[i].batch
      /\ posts \in [Deliveries -> 0..2]
  BY DEF RelayInv, RelayTypeOK
<1>2. delivering[i].pc \in {"sending", "accepted"}
  BY DEF Writes, RecordDelivered, RecordFailed
<1>3. d \in Deliveries /\ d \in delivering[i].batch /\ n \in Nat /\ n < MaxAttempts
  BY <1>1, <1>2 DEF RelayInv, BatchIsTried
<1>4. status = "delivered" => posts[d] > 0
  BY DEF Writes, RecordDelivered, RelayInv, AcceptedIsPosted
<1>5. /\ status \in {"delivered", "dead", "failed"}
      /\ status # "delivered" => (status = "dead" <=> n + 1 >= MaxAttempts)
  BY DEF Writes
<1>6. row \in DeliveryRow /\ OutcomeIsTrue(row, posts[d])
  <2>1. /\ row.status = status /\ row.attempts = n + 1 /\ n + 1 \in Nat /\ n + 1 <= MaxAttempts
        /\ n + 1 >= MaxAttempts <=> n + 1 = MaxAttempts
    BY <1>3, RelayAssumption
  <2>2. row \in DeliveryRow
    BY <1>5, <2>1 DEF DeliveryRow, Outcomes
  <2>3. row.status = "dead" <=> (row.attempts = MaxAttempts /\ row.status # "delivered")
    BY <1>5, <2>1
  <2> HIDE DEF row, n, d
  <2> QED BY <1>4, <2>1, <2>2, <2>3 DEF OutcomeIsTrue
<1>7. /\ delivery' = [delivery EXCEPT ![d] = row]
      /\ UNCHANGED <<outbox, aged, alerts, relaying, posts>>
      /\ delivering' = [delivering EXCEPT ![i] =
           IF left = {} THEN NotSending
           ELSE [pc |-> "reading", now |-> NoDelivery, batch |-> left,
                 attempts |-> delivering[i].attempts]]
  BY DEF Writes, RecordDelivered, RecordFailed, Record
<1> HIDE DEF d, row, left
<1>8. \/ delivering' = [delivering EXCEPT ![i] = NotSending]
      \/ \E l \in SUBSET left :
           delivering' = [delivering EXCEPT ![i] =
             [pc |-> "reading", now |-> NoDelivery, batch |-> l, attempts |-> delivering[i].attempts]]
  BY <1>7
<1> QED BY <1>2, <1>3, <1>6, <1>7, <1>8 DEF d, row, left

LEMMA AnswersKeepRelay ==
  ASSUME RelayInv, NEW i \in Instances, NEW status, Writes(i, status)
  PROVE  RelayInv'
<1>1. PICK d \in Deliveries, row \in DeliveryRow :
        /\ OutcomeIsTrue(row, posts[d])
        /\ delivery' = [delivery EXCEPT ![d] = row]
        /\ UNCHANGED <<outbox, aged, alerts, relaying, posts>>
        /\ \/ delivering' = [delivering EXCEPT ![i] = NotSending]
           \/ \E left \in SUBSET delivering[i].batch :
                delivering' = [delivering EXCEPT ![i] =
                  [pc |-> "reading", now |-> NoDelivery, batch |-> left,
                   attempts |-> delivering[i].attempts]]
  BY AnswerIsTrue
<1>2. RelayTypeOK
  BY DEF RelayInv
<1>3. AlertedOnce'
  BY <1>1 DEF RelayInv, AlertedOnce
<1>4. OutcomesAreTrue'
  <2>1. \A c \in Deliveries : delivery'[c] = IF c = d THEN row ELSE delivery[c]
    BY <1>1, <1>2 DEF RelayTypeOK
  <2> QED BY <1>1, <2>1 DEF RelayInv, OutcomesAreTrue, OutcomeIsTrue
<1> DEFINE Kept ==
             /\ \A j \in Instances \ {i} : delivering'[j] = delivering[j]
             /\ delivering'[i].pc \in {"idle", "reading"}
             /\ delivering'[i].batch \subseteq delivering[i].batch
             /\ delivering'[i].batch = {} \/ delivering'[i].attempts = delivering[i].attempts
             /\ delivering' \in [Instances ->
                  [pc : {"idle", "reading", "sending", "accepted"}, now : Deliveries \cup {NoDelivery},
                   batch : SUBSET Deliveries, attempts : [Deliveries -> Nat]]]
<1>5. Kept
  <2>1. CASE delivering' = [delivering EXCEPT ![i] = NotSending]
    BY <1>2, <2>1 DEF RelayTypeOK, NotSending
  <2>2. ASSUME NEW left \in SUBSET delivering[i].batch,
               delivering' = [delivering EXCEPT ![i] =
                 [pc |-> "reading", now |-> NoDelivery, batch |-> left,
                  attempts |-> delivering[i].attempts]]
        PROVE  Kept
    BY <1>2, <2>2 DEF RelayTypeOK
  <2> QED BY <1>1, <2>1, <2>2
<1>6. RelayTypeOK'
  <2>1. delivery' \in [Deliveries -> DeliveryRow]
    BY <1>1, <1>2 DEF RelayTypeOK, DeliveryRow, Outcomes
  <2>2. \A j \in Instances :
          delivering'[j].pc \in {"sending", "accepted"} => delivering'[j].now \in delivering'[j].batch
    BY <1>2, <1>5 DEF RelayTypeOK
  <2> QED BY <1>1, <1>2, <1>5, <2>1, <2>2 DEF RelayTypeOK, DeliveryRow, Outcomes
<1>7. BatchIsTried' /\ AcceptedIsPosted'
  BY <1>1, <1>5 DEF RelayInv, BatchIsTried, AcceptedIsPosted
<1> QED BY <1>3, <1>4, <1>6, <1>7 DEF RelayInv

LEMMA PassesKeepRelay == RelayInv /\ PassStep => RelayInv'
<1> SUFFICES ASSUME RelayInv, PassStep PROVE RelayInv'
  OBVIOUS
<1>1. RelayTypeOK
  BY DEF RelayInv
<1>2. ASSUME NEW i \in Instances, ReadOutbox(i) PROVE RelayInv'
  <2>1. RelayTypeOK'
    BY <1>1, <1>2 DEF ReadOutbox, RelayTypeOK, Unpublished
  <2> QED BY <1>2, <2>1 DEF ReadOutbox, RelayInv, AlertedOnce, OutcomesAreTrue, BatchIsTried, AcceptedIsPosted
<1>3. ASSUME NEW i \in Instances, FanOut(i) PROVE RelayInv'
  <2> DEFINE rows == relaying[i].rows
  <2>1. /\ delivery' = [d \in Deliveries |->
             IF d[1] \in rows /\ d[3] = i THEN [status |-> "pending", attempts |-> 0] ELSE delivery[d]]
        /\ outbox' = [e \in Events |-> IF e \in rows THEN "published" ELSE outbox[e]]
        /\ relaying' = [relaying EXCEPT ![i] = [pc |-> "relayed", rows |-> {}]]
        /\ UNCHANGED <<aged, alerts, delivering, posts>>
    BY <1>3 DEF FanOut
  <2> HIDE DEF rows
  <2>2. RelayTypeOK'
    BY <1>1, <2>1 DEF RelayTypeOK
  <2>3. AlertedOnce'
    BY <2>1 DEF RelayInv, AlertedOnce
  <2>4. OutcomesAreTrue'
    BY <2>1, RelayAssumption DEF RelayInv, OutcomesAreTrue
  <2> QED BY <2>1, <2>2, <2>3, <2>4 DEF RelayInv, BatchIsTried, AcceptedIsPosted
<1>4. ASSUME NEW i \in Instances, ReadDue(i) PROVE RelayInv'
  <2> DEFINE batch == {d \in Deliveries : Due(d)}
             tried == [d \in Deliveries |-> IF Due(d) THEN delivery[d].attempts ELSE 0]
             pass  == IF batch = {} THEN NotSending
                      ELSE [pc |-> "reading", now |-> NoDelivery, batch |-> batch, attempts |-> tried]
  <2>1. /\ relaying' = [relaying EXCEPT ![i] = NotRelaying]
        /\ delivering' = [delivering EXCEPT ![i] = pass]
        /\ UNCHANGED <<outbox, aged, alerts, delivery, posts>>
    BY <1>4 DEF ReadDue
  <2>2. tried \in [Deliveries -> Nat] /\ \A d \in batch : tried[d] < MaxAttempts
    BY <1>1 DEF RelayTypeOK, Due
  <2>3. /\ pass \in [pc : {"idle", "reading", "sending", "accepted"},
                     now : Deliveries \cup {NoDelivery},
                     batch : SUBSET Deliveries, attempts : [Deliveries -> Nat]]
        /\ pass.pc \in {"idle", "reading"}
        /\ \A d \in pass.batch : pass.attempts[d] < MaxAttempts
    <3> HIDE DEF tried
    <3> QED BY <2>2 DEF NotSending
  <2> HIDE DEF pass, batch, tried
  <2>4. \A j \in Instances : delivering'[j] = IF j = i THEN pass ELSE delivering[j]
    BY <1>1, <2>1 DEF RelayTypeOK
  <2>5. RelayTypeOK'
    BY <1>1, <2>1, <2>3, <2>4 DEF RelayTypeOK, NotRelaying
  <2>6. BatchIsTried' /\ AcceptedIsPosted'
    BY <2>1, <2>3, <2>4 DEF RelayInv, BatchIsTried, AcceptedIsPosted
  <2> QED BY <2>1, <2>5, <2>6 DEF RelayInv, AlertedOnce, OutcomesAreTrue
<1>5. ASSUME NEW i \in Instances, NEW d \in Deliveries, Send(i, d) PROVE RelayInv'
  <2>1. /\ delivering' = [delivering EXCEPT ![i].pc = "sending", ![i].now = d]
        /\ d \in delivering[i].batch
        /\ UNCHANGED <<outbox, aged, alerts, relaying, delivery, posts>>
    BY <1>5 DEF Send
  <2>2. /\ \A j \in Instances \ {i} : delivering'[j] = delivering[j]
        /\ delivering'[i].pc = "sending" /\ delivering'[i].now = d
        /\ delivering'[i].batch = delivering[i].batch
        /\ delivering'[i].attempts = delivering[i].attempts
    BY <1>1, <2>1 DEF RelayTypeOK
  <2>3. RelayTypeOK'
    BY <1>1, <2>1, <2>2 DEF RelayTypeOK
  <2> QED BY <2>1, <2>2, <2>3 DEF RelayInv, AlertedOnce, OutcomesAreTrue, BatchIsTried, AcceptedIsPosted
<1>6. ASSUME NEW i \in Instances, Post(i) PROVE RelayInv'
  <2>1. /\ posts' = [posts EXCEPT ![delivering[i].now] = IF @ < 2 THEN @ + 1 ELSE 2]
        /\ delivering' = [delivering EXCEPT ![i].pc = "accepted"]
        /\ delivering[i].pc = "sending"
        /\ UNCHANGED <<outbox, aged, alerts, relaying, delivery>>
    BY <1>6 DEF Post
  <2>2. /\ \A j \in Instances \ {i} : delivering'[j] = delivering[j]
        /\ delivering'[i].pc = "accepted" /\ delivering'[i].now = delivering[i].now
        /\ delivering'[i].batch = delivering[i].batch
        /\ delivering'[i].attempts = delivering[i].attempts
    BY <1>1, <2>1 DEF RelayTypeOK
  <2>3. /\ delivering[i].now \in delivering[i].batch
        /\ \A j \in Instances : delivering[j].batch \subseteq Deliveries
    BY <1>1, <2>1 DEF RelayTypeOK
  <2>4. /\ posts' \in [Deliveries -> 0..2] /\ posts'[delivering[i].now] > 0
        /\ \A d \in Deliveries : posts[d] > 0 => posts'[d] > 0
    <3> DEFINE d == delivering[i].now
               k == IF posts[d] < 2 THEN posts[d] + 1 ELSE 2
    <3>1. posts \in [Deliveries -> 0..2] /\ d \in Deliveries
      BY <1>1, <2>3 DEF RelayTypeOK
    <3>2. k \in 1..2
      BY <3>1
    <3>3. posts' = [posts EXCEPT ![d] = k]
      BY <2>1
    <3> HIDE DEF d, k
    <3>4. \A c \in Deliveries : posts'[c] = IF c = d THEN k ELSE posts[c]
      BY <3>1, <3>3
    <3>5. posts' \in [Deliveries -> 0..2] /\ posts'[d] > 0
      BY <3>1, <3>2, <3>3
    <3>6. \A c \in Deliveries : posts[c] > 0 => posts'[c] > 0
      BY <3>2, <3>4
    <3> QED BY <3>5, <3>6 DEF d
  <2>5. RelayTypeOK'
    BY <1>1, <2>1, <2>2, <2>3, <2>4 DEF RelayTypeOK
  <2>6. \A j \in Instances : delivering[j].pc = "accepted" => delivering[j].now \in Deliveries
    BY <1>1, <2>3 DEF RelayTypeOK
  <2>7. AcceptedIsPosted'
    BY <2>2, <2>4, <2>6 DEF RelayInv, AcceptedIsPosted
  <2>8. OutcomesAreTrue'
    BY <2>1, <2>4 DEF RelayInv, OutcomesAreTrue
  <2> QED BY <2>1, <2>2, <2>5, <2>7, <2>8 DEF RelayInv, AlertedOnce, BatchIsTried
<1>7. ASSUME NEW i \in Instances, RecordDelivered(i) \/ RecordFailed(i) PROVE RelayInv'
  <2>1. \E status : Writes(i, status)
    BY <1>7 DEF Writes
  <2> QED BY <2>1, AnswersKeepRelay
<1>8. ASSUME NEW i \in Instances, PassDies(i) PROVE RelayInv'
  <2>1. /\ relaying' = [relaying EXCEPT ![i] = NotRelaying]
        /\ delivering' = [delivering EXCEPT ![i] = NotSending]
        /\ UNCHANGED <<outbox, aged, alerts, delivery, posts>>
    BY <1>8 DEF PassDies
  <2>2. \A j \in Instances : delivering'[j] = IF j = i THEN NotSending ELSE delivering[j]
    BY <1>1, <2>1 DEF RelayTypeOK
  <2>3. RelayTypeOK'
    BY <1>1, <2>1, <2>2 DEF RelayTypeOK, NotRelaying, NotSending
  <2>4. BatchIsTried' /\ AcceptedIsPosted'
    BY <2>1, <2>2 DEF RelayInv, BatchIsTried, AcceptedIsPosted, NotSending
  <2> QED BY <2>1, <2>3, <2>4 DEF RelayInv, AlertedOnce, OutcomesAreTrue
<1> QED BY <1>2, <1>3, <1>4, <1>5, <1>6, <1>7, <1>8 DEF PassStep

LEMMA NextRelays == RelayInv /\ [RelayNext]_relayVars => RelayInv'
<1>1. RelayInv /\ UNCHANGED relayVars => RelayInv'
  BY DEF relayVars, RelayInv, RelayTypeOK, AlertedOnce, OutcomesAreTrue, BatchIsTried, AcceptedIsPosted
<1> QED BY <1>1, EventsKeepRelay, PassesKeepRelay DEF RelayNext

(* The invariant of the outbox, for any number of events, endpoints and     *)
(* instances.                                                               *)
THEOREM RelayIsSafe == RelaySpec => []RelayInv
<1> QED BY InitRelays, NextRelays, PTL DEF RelaySpec

(* However many instances claim and relay, a sale is alerted once.          *)
THEOREM SalesAreAlertedOnce == RelaySpec => []AlertedOnce
<1>1. RelayInv => AlertedOnce
  BY DEF RelayInv
<1> QED BY <1>1, RelayIsSafe, PTL

(* However many instances deliver the same rows, what a delivery says of    *)
(* itself is true.                                                          *)
THEOREM OutcomesAreAlwaysTrue == RelaySpec => []OutcomesAreTrue
<1>1. RelayInv => OutcomesAreTrue
  BY DEF RelayInv
<1> QED BY <1>1, RelayIsSafe, PTL
-----------------------------------------------------------------------------
(* An instance makes a delivery of an event once, for a row that is         *)
(* published with it and that it will not fan out again; and what an        *)
(* instance has in hand was made by one.                                    *)
RelayedOnce ==
  \A d \in Deliveries : delivery[d].status # "absent" =>
    outbox[d[1]] = "published" /\ d[1] \notin relaying[d[3]].rows

BatchWasRelayed ==
  \A i \in Instances : \A d \in delivering[i].batch : delivery[d].status # "absent"

RelaysInv == RelayInv /\ RelayedOnce /\ BatchWasRelayed

\* What a step must leave alone.
Stays(d) == Closed(d) => Closed(d)' /\ delivery'[d] = delivery[d] /\ posts'[d] = posts[d]

LEMMA InitRelaysOnce == RelayInit => RelaysInv
<1> SUFFICES ASSUME RelayInit PROVE RelaysInv
  OBVIOUS
<1>1. RelayedOnce /\ BatchWasRelayed
  BY DEF RelayInit, Absent, NotRelaying, NotSending, RelayedOnce, BatchWasRelayed
<1> QED BY <1>1, InitRelays DEF RelaysInv

LEMMA DeliveryParts == \A d \in Deliveries : d[1] \in Events /\ d[2] \in Endpoints /\ d[3] \in Instances
BY DEF Deliveries

(* A step that writes no delivery and no request, and takes nothing in hand *)
(* that is closed, leaves the closed ones alone.                            *)
LEMMA HandsStay ==
  ASSUME UNCHANGED <<delivery, posts>>, NEW d \in Deliveries,
         \A i \in Instances :
           d \in delivering'[i].batch =>
             d \in delivering[i].batch \/ delivery[d].status \notin {"delivered", "dead"}
  PROVE  Stays(d)
BY DEF Stays, Closed

LEMMA NextRelaysOnce ==
  ASSUME RelaysInv, [RelayNext]_relayVars
  PROVE  RelayedOnce' /\ BatchWasRelayed' /\ \A d \in Deliveries : Stays(d)
<1> DEFINE Goal == RelayedOnce' /\ BatchWasRelayed' /\ \A d \in Deliveries : Stays(d)
<1>1. RelayTypeOK /\ RelayedOnce /\ BatchWasRelayed /\ OutcomesAreTrue
  BY DEF RelaysInv, RelayInv
<1>2. /\ \A i \in Instances : delivering[i].batch \subseteq Deliveries
      /\ delivering \in [Instances -> [pc : {"idle", "reading", "sending", "accepted"},
                                       now : Deliveries \cup {NoDelivery},
                                       batch : SUBSET Deliveries, attempts : [Deliveries -> Nat]]]
      /\ DOMAIN relaying = Instances /\ DOMAIN outbox = Events
      /\ delivery \in [Deliveries -> DeliveryRow]
      /\ DOMAIN posts = Deliveries
  BY <1>1 DEF RelayTypeOK, DeliveryRow, Outcomes
<1>3. CASE EventStep
  <2>1. UNCHANGED <<relaying, delivery, delivering, posts>>
    BY <1>3 DEF EventStep, Emit, Age, ClaimAlerts
  <2>2. \A e \in Events : outbox[e] = "published" => outbox'[e] = "published"
    BY <1>1, <1>3 DEF EventStep, Emit, Age, ClaimAlerts, RelayTypeOK
  <2>3. \A d \in Deliveries : Stays(d)
    BY <2>1, HandsStay
  <2> QED BY <1>1, <2>1, <2>2, <2>3, DeliveryParts DEF RelayedOnce, BatchWasRelayed
<1>4. ASSUME NEW i \in Instances, ReadOutbox(i) PROVE Goal
  <2>1. /\ relaying' = [relaying EXCEPT ![i] = [pc |-> "read", rows |-> Unpublished]]
        /\ UNCHANGED <<outbox, aged, alerts, delivery, delivering, posts>>
    BY <1>4 DEF ReadOutbox
  <2>2. \A j \in Instances : relaying'[j] = IF j = i THEN [pc |-> "read", rows |-> Unpublished] ELSE relaying[j]
    BY <1>2, <2>1
  <2>3. RelayedOnce'
    BY <1>1, <2>1, <2>2, DeliveryParts DEF RelayedOnce, Unpublished
  <2>4. \A d \in Deliveries : Stays(d)
    BY <2>1, HandsStay
  <2> QED BY <1>1, <2>1, <2>3, <2>4 DEF BatchWasRelayed
<1>5. ASSUME NEW i \in Instances, FanOut(i) PROVE Goal
  <2> DEFINE rows == relaying[i].rows
  <2>1. /\ delivery' = [d \in Deliveries |->
             IF d[1] \in rows /\ d[3] = i THEN [status |-> "pending", attempts |-> 0] ELSE delivery[d]]
        /\ outbox' = [e \in Events |-> IF e \in rows THEN "published" ELSE outbox[e]]
        /\ relaying' = [relaying EXCEPT ![i] = [pc |-> "relayed", rows |-> {}]]
        /\ UNCHANGED <<aged, alerts, delivering, posts>>
    BY <1>5 DEF FanOut
  <2>2. \A j \in Instances : relaying'[j] = IF j = i THEN [pc |-> "relayed", rows |-> {}] ELSE relaying[j]
    BY <1>2, <2>1
  <2>3. \A d \in Deliveries : d[1] \in rows /\ d[3] = i => delivery[d].status = "absent"
    BY <1>1 DEF RelayedOnce
  <2> HIDE DEF rows
  <2>4. RelayedOnce'
    <3> SUFFICES ASSUME NEW d \in Deliveries, delivery'[d].status # "absent"
                 PROVE  outbox'[d[1]] = "published" /\ d[1] \notin relaying'[d[3]].rows
      BY DEF RelayedOnce
    <3>1. d[1] \in Events /\ d[3] \in Instances
      BY DeliveryParts
    <3>2. CASE d[1] \in rows /\ d[3] = i
      BY <2>1, <2>2, <3>1, <3>2
    <3>3. CASE ~ (d[1] \in rows /\ d[3] = i)
      <4>1. outbox[d[1]] = "published" /\ d[1] \notin relaying[d[3]].rows
        BY <1>1, <2>1, <3>3 DEF RelayedOnce
      <4> QED BY <2>1, <2>2, <3>1, <4>1
    <3> QED BY <3>2, <3>3
  <2>5. \A d \in Deliveries : Stays(d)
    BY <2>1, <2>3 DEF Stays, Closed
  <2>6. BatchWasRelayed'
    BY <1>1, <1>2, <2>1, <2>3 DEF BatchWasRelayed
  <2> QED BY <2>4, <2>5, <2>6
<1>6. ASSUME NEW i \in Instances, ReadDue(i) PROVE Goal
  <2> DEFINE batch == {d \in Deliveries : Due(d)}
             tried == [d \in Deliveries |-> IF Due(d) THEN delivery[d].attempts ELSE 0]
             pass  == IF batch = {} THEN NotSending
                      ELSE [pc |-> "reading", now |-> NoDelivery, batch |-> batch, attempts |-> tried]
  <2>1. /\ relaying' = [relaying EXCEPT ![i] = NotRelaying]
        /\ delivering' = [delivering EXCEPT ![i] = pass]
        /\ UNCHANGED <<outbox, aged, alerts, delivery, posts>>
    BY <1>6 DEF ReadDue
  <2>2. \A d \in pass.batch : delivery[d].status \in {"pending", "failed"}
    <3> HIDE DEF tried
    <3> QED BY DEF NotSending, Due
  <2> HIDE DEF pass, batch, tried
  <2>3. \A j \in Instances : /\ delivering'[j] = IF j = i THEN pass ELSE delivering[j]
                             /\ relaying'[j] = IF j = i THEN NotRelaying ELSE relaying[j]
    BY <1>2, <2>1
  <2>4. RelayedOnce'
    BY <1>1, <2>1, <2>3, DeliveryParts DEF RelayedOnce, NotRelaying
  <2>5. BatchWasRelayed'
    BY <1>1, <2>1, <2>2, <2>3 DEF BatchWasRelayed
  <2>6. \A d \in Deliveries : Stays(d)
    BY <2>1, <2>2, <2>3, HandsStay
  <2> QED BY <2>4, <2>5, <2>6
<1>7. ASSUME NEW i \in Instances, NEW d \in Deliveries, Send(i, d) PROVE Goal
  <2>1. /\ delivering' = [delivering EXCEPT ![i].pc = "sending", ![i].now = d]
        /\ UNCHANGED <<outbox, aged, alerts, relaying, delivery, posts>>
    BY <1>7 DEF Send
  <2>2. \A j \in Instances : delivering'[j].batch = delivering[j].batch
    BY <1>2, <2>1
  <2>3. \A c \in Deliveries : Stays(c)
    BY <2>1, <2>2, HandsStay
  <2> QED BY <1>1, <2>1, <2>2, <2>3 DEF RelayedOnce, BatchWasRelayed
<1>8. ASSUME NEW i \in Instances, Post(i) PROVE Goal
  <2> DEFINE d == delivering[i].now
             k == IF posts[d] < 2 THEN posts[d] + 1 ELSE 2
  <2>1. /\ delivering' = [delivering EXCEPT ![i].pc = "accepted"]
        /\ posts' = [posts EXCEPT ![d] = k]
        /\ UNCHANGED <<outbox, aged, alerts, relaying, delivery>>
        /\ d \in delivering[i].batch
    BY <1>1, <1>8 DEF Post, RelayTypeOK
  <2> HIDE DEF d, k
  <2>2. \A j \in Instances : delivering'[j].batch = delivering[j].batch
    BY <1>2, <2>1
  <2>3. \A c \in Deliveries : c # d => posts'[c] = posts[c]
    BY <1>2, <2>1
  <2>4. \A c \in Deliveries : Stays(c)
    BY <2>1, <2>2, <2>3 DEF Stays, Closed
  <2> QED BY <1>1, <2>1, <2>2, <2>4 DEF RelayedOnce, BatchWasRelayed
<1>9. ASSUME NEW i \in Instances, NEW status, Writes(i, status) PROVE Goal
  <2>1. PICK d \in Deliveries, row \in DeliveryRow :
          /\ d \in delivering[i].batch
          /\ delivery' = [delivery EXCEPT ![d] = row]
          /\ UNCHANGED <<outbox, aged, alerts, relaying, posts>>
          /\ \/ delivering' = [delivering EXCEPT ![i] = NotSending]
             \/ \E left \in SUBSET (delivering[i].batch \ {d}) :
                  delivering' = [delivering EXCEPT ![i] =
                    [pc |-> "reading", now |-> NoDelivery, batch |-> left,
                     attempts |-> delivering[i].attempts]]
    BY <1>9, AnswerIsTrue DEF RelaysInv
  <2>2. \A c \in Deliveries : delivery'[c] = IF c = d THEN row ELSE delivery[c]
    BY <1>2, <2>1
  <2>3. \A j \in Instances : delivering'[j].batch \subseteq delivering[j].batch
    BY <1>2, <2>1 DEF NotSending
  <2>4. row.status # "absent"
    <3>1. delivery' = [delivery EXCEPT ![delivering[i].now] =
            [status |-> status, attempts |-> delivering[i].attempts[delivering[i].now] + 1]]
      BY <1>9 DEF Writes, RecordDelivered, RecordFailed, Record
    <3>2. status # "absent"
      BY <1>9 DEF Writes
    <3>3. delivery'[d] = delivery[d] \/ delivery'[d].status = status
      BY <1>2, <3>1
    <3>4. delivery[d].status # "absent"
      BY <1>1, <2>1 DEF BatchWasRelayed
    <3> QED BY <2>2, <3>2, <3>3, <3>4
  <2>5. RelayedOnce'
    BY <1>1, <2>1, <2>2 DEF RelayedOnce, BatchWasRelayed
  <2>6. BatchWasRelayed'
    BY <1>1, <1>2, <2>2, <2>3, <2>4 DEF BatchWasRelayed
  <2>7. \A c \in Deliveries : Stays(c)
    BY <2>1, <2>2, <2>3 DEF Stays, Closed
  <2> QED BY <2>5, <2>6, <2>7
<1>10. ASSUME NEW i \in Instances, PassDies(i) PROVE Goal
  <2>1. /\ relaying' = [relaying EXCEPT ![i] = NotRelaying]
        /\ delivering' = [delivering EXCEPT ![i] = NotSending]
        /\ UNCHANGED <<outbox, aged, alerts, delivery, posts>>
    BY <1>10 DEF PassDies
  <2>2. \A j \in Instances : /\ delivering'[j] = IF j = i THEN NotSending ELSE delivering[j]
                             /\ relaying'[j] = IF j = i THEN NotRelaying ELSE relaying[j]
    BY <1>2, <2>1
  <2>3. RelayedOnce'
    BY <1>1, <2>1, <2>2, DeliveryParts DEF RelayedOnce, NotRelaying
  <2>4. \A d \in Deliveries : Stays(d)
    BY <2>1, <2>2, HandsStay DEF NotSending
  <2> QED BY <1>1, <2>1, <2>2, <2>3, <2>4 DEF BatchWasRelayed, NotSending
<1>11. CASE UNCHANGED relayVars
  <2>1. \A d \in Deliveries : Stays(d)
    BY <1>11, HandsStay DEF relayVars
  <2> QED BY <1>1, <1>11, <2>1 DEF relayVars, RelayedOnce, BatchWasRelayed
<1>12. CASE PassStep
  <2>1. \A i \in Instances : RecordDelivered(i) \/ RecordFailed(i) => \E status : Writes(i, status)
    BY DEF Writes
  <2> QED BY <1>4, <1>5, <1>6, <1>7, <1>8, <1>9, <1>10, <1>12, <2>1 DEF PassStep
<1> QED BY <1>3, <1>11, <1>12 DEF RelayNext

(* For any number of instances: a delivery that is delivered or dead and    *)
(* that none of them still has in hand is settled for good.                 *)
THEOREM ClosedDeliveriesStayClosed == RelaySpec => ClosedStaysClosed
<1>1. RelaysInv /\ [RelayNext]_relayVars => RelaysInv'
  BY NextRelays, NextRelaysOnce DEF RelaysInv
<1>2. RelaysInv /\ [RelayNext]_relayVars =>
        [\A d \in Deliveries :
           Closed(d) => Closed(d)' /\ delivery'[d] = delivery[d] /\ posts'[d] = posts[d]]_relayVars
  BY NextRelaysOnce DEF Stays
<1> QED BY <1>1, <1>2, InitRelaysOnce, PTL DEF RelaySpec, ClosedStaysClosed
=============================================================================
