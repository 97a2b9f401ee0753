------------------------ MODULE TerminalSales_proofs ------------------------
(***************************************************************************)
(* Proofs about TerminalSales, for every number of members, sales,         *)
(* vouchers and calls.  SalesInv is the inductive invariant: the types,    *)
(* the checks on the balances, the events, and what an open sale is.       *)
(* BooksInv adds what explains the balances.  GivenInv says what a call on  *)
(* a voucher that no other call gives may still rely on when it writes.     *)
(***************************************************************************)
EXTENDS TerminalSales, Accounting_proofs

\* An authorized sale is a redemption of some points.
OpenSalesRedeem ==
  \A t \in Sales :
    sale[t].state = "authorized" =>
      sale[t].intent = "redeem" /\ sale[t].points > 0 /\ sale[t].done = 0

SalesInv == TypeOK /\ TillNeverOverdraws /\ EventsMatchSales /\ OpenSalesRedeem

-----------------------------------------------------------------------------
\* What a change of one member's row owes the table of balances.
LEMMA RowChanges ==
  ASSUME NEW m \in Members, NEW b \in Balance, RowChecks(b),
         balance \in [Members -> Balance],
         TillNeverOverdraws,
         balance' = [balance EXCEPT ![m] = b]
  PROVE  balance' \in [Members -> Balance] /\ TillNeverOverdraws'
BY DEF TillNeverOverdraws

\* The rewards part of TypeOK.
RewardsOK ==
  /\ status \in [Vouchers -> {"absent", "issued", "reserved", "redeemed", "void"}]
  /\ recent \subseteq Vouchers
  /\ expired \subseteq Vouchers
  /\ cost \in [Vouchers -> 0..MaxPoints]
  /\ uses \in [Vouchers -> 0..2]

\* The sales part of TypeOK, with what is known of the events of a sale.
SaleTableOK ==
  /\ sale \in [Sales -> Sale]
  /\ \A t \in Sales : sale[t].state # "none" => sale[t].member \in Members
  /\ events \in [Sales -> Nat]
  /\ EventsMatchSales
  /\ OpenSalesRedeem

CallsOK ==
  /\ call \in [Calls -> Call]
  /\ \A c \in Calls : call[c].pc # "idle" => call[c].voucher \in Vouchers
  /\ contested \subseteq Vouchers

LEMMA Parts ==
  SalesInv <=> /\ balance \in [Members -> Balance] /\ TillNeverOverdraws
               /\ SaleTableOK /\ RewardsOK /\ CallsOK
BY DEF SalesInv, TypeOK, SaleTableOK, RewardsOK, CallsOK

LEMMA NextParts ==
  ASSUME balance' \in [Members -> Balance], TillNeverOverdraws',
         SaleTableOK', RewardsOK', CallsOK'
  PROVE  SalesInv'
BY DEF SalesInv, TypeOK, SaleTableOK, RewardsOK, CallsOK

(* Confirming or returning rewards keeps the voucher table well formed.     *)
LEMMA HoldsKeepTypes ==
  ASSUME RewardsOK, NEW m, NEW gifts \in SUBSET Vouchers,
         ConfirmHolds(m, gifts) \/ ReturnHolds(m)
  PROVE  RewardsOK'
<1>1. CASE ConfirmHolds(m, gifts)
  <2> DEFINE used == {v \in Vouchers : v \in HeldBy(m)}
  <2>1. status' \in [Vouchers -> {"absent", "issued", "reserved", "redeemed", "void"}]
    BY <1>1 DEF ConfirmHolds, RewardsOK
  <2>2. uses' \in [Vouchers -> 0..2]
    BY <1>1 DEF ConfirmHolds, RewardsOK, OneMore
  <2> QED BY <1>1, <2>1, <2>2 DEF ConfirmHolds, RewardsOK
<1>2. CASE ReturnHolds(m)
  BY <1>2 DEF ReturnHolds, RewardsOK
<1> QED BY <1>1, <1>2

-----------------------------------------------------------------------------
\* The rows a sale owes the outbox.
EventsOf(x) ==
  IF x.state = "captured" THEN (IF x.points > 0 THEN 1 ELSE 0) + x.done ELSE 0

(* A sale that is opened or completed at once.                              *)
LEMMA SaleOpens ==
  ASSUME NEW t \in Sales, NEW m \in Members, NEW n \in 0..MaxPoints,
         NEW done \in 0..MaxDone, NEW bonus \in 0..MaxBonus, SaleTableOK,
         sale[t].state = "none",
         NEW r \in {[state |-> "captured", intent |-> "earn", member |-> m,
                     points |-> n, done |-> done, bonus |-> bonus],
                    [state |-> "authorized", intent |-> "redeem", member |-> m,
                     points |-> n, done |-> 0, bonus |-> 0]},
         r.state = "authorized" => n > 0,
         sale' = [sale EXCEPT ![t] = r],
         events' = [events EXCEPT ![t] = @ + EventsOf(r)]
  PROVE  SaleTableOK'
<1>1. r \in Sale /\ r.member = m /\ r.points = n
      /\ (r.state = "authorized" => r.intent = "redeem" /\ n > 0 /\ r.done = 0)
  BY TillAssumption DEF Sale
<1>0. EventsOf(r) \in Nat
  BY <1>1, TillAssumption DEF EventsOf, Sale
<1>2. events[t] = 0
  BY DEF SaleTableOK, EventsMatchSales
<1>3. sale' \in [Sales -> Sale] /\ sale'[t] = r
      /\ \A u \in Sales \ {t} : sale'[u] = sale[u]
  BY <1>1 DEF SaleTableOK
<1>4. events' \in [Sales -> Nat]
      /\ \A u \in Sales \ {t} : events'[u] = events[u]
  BY <1>0 DEF SaleTableOK
<1>5. events'[t] = EventsOf(r)
  BY <1>0, <1>2 DEF SaleTableOK
<1>6. \A u \in Sales : sale'[u].state # "none" => sale'[u].member \in Members
  BY <1>1, <1>3 DEF SaleTableOK
<1>7. EventsMatchSales'
  BY <1>3, <1>4, <1>5 DEF SaleTableOK, EventsMatchSales, EventsOf
<1>8. OpenSalesRedeem'
  BY <1>1, <1>3 DEF SaleTableOK, OpenSalesRedeem
<1> QED BY <1>3, <1>4, <1>6, <1>7, <1>8 DEF SaleTableOK

(* An authorized sale that is captured, with an event, or voided without.   *)
LEMMA SaleEnds ==
  ASSUME NEW t \in Sales, NEW end \in {"captured", "voided"}, SaleTableOK,
         Claims(t, end),
         events' = IF end = "captured" THEN [events EXCEPT ![t] = @ + 1] ELSE events
  PROVE  SaleTableOK'
<1> DEFINE r == [sale[t] EXCEPT !.state = end]
<1>1. sale[t] \in Sale /\ sale[t].state = "authorized" /\ sale[t].points > 0
      /\ sale[t].member \in Members /\ sale[t].done = 0 /\ events[t] = 0
  BY DEF SaleTableOK, OpenSalesRedeem, EventsMatchSales, Claims
<1>2. r \in Sale /\ r.state = end /\ r.member \in Members /\ r.points > 0 /\ r.done = 0
  BY <1>1 DEF Sale
<1>3. sale' = [sale EXCEPT ![t] = r]
  BY DEF Claims
<1> HIDE DEF r
<1>4. sale' \in [Sales -> Sale] /\ sale'[t] = r
      /\ \A u \in Sales \ {t} : sale'[u] = sale[u]
  BY <1>2, <1>3 DEF SaleTableOK
<1>5. events' \in [Sales -> Nat]
      /\ \A u \in Sales \ {t} : events'[u] = events[u]
  BY DEF SaleTableOK
<1>6. events'[t] = IF end = "captured" THEN 1 ELSE 0
  BY <1>1 DEF SaleTableOK
<1>7. \A u \in Sales : sale'[u].state # "none" => sale'[u].member \in Members
  BY <1>2, <1>4 DEF SaleTableOK
<1>8. EventsMatchSales'
  BY <1>2, <1>4, <1>5, <1>6 DEF SaleTableOK, EventsMatchSales
<1>9. OpenSalesRedeem'
  BY <1>2, <1>4 DEF SaleTableOK, OpenSalesRedeem
<1> QED BY <1>4, <1>5, <1>7, <1>8, <1>9 DEF SaleTableOK


-----------------------------------------------------------------------------
LEMMA InitIsSafe == Init => SalesInv
<1> SUFFICES ASSUME Init PROVE SalesInv
  OBVIOUS
<1>1. MaxPoints \in Nat /\ MaxDone \in Nat /\ MaxBonus \in Nat
  BY TillAssumption
<1>2. balance \in [Members -> Balance] /\ TillNeverOverdraws
  BY FreshRow DEF Init, TillNeverOverdraws
<1>3. SaleTableOK
  BY <1>1 DEF Init, SaleTableOK, NoSale, Sale, EventsMatchSales, OpenSalesRedeem
<1>4. RewardsOK
  BY <1>1 DEF Init, RewardsOK
<1>5. CallsOK
  BY DEF Init, CallsOK, NoCall, Call
<1> QED BY <1>2, <1>3, <1>4, <1>5, Parts

(* Each handler of the till keeps the invariant.                            *)
LEMMA EarnIsSafe ==
  ASSUME SalesInv, NEW t \in Sales, NEW m \in Members, NEW n \in 0..MaxPoints,
         NEW done \in 0..MaxDone, NEW bonus \in 0..MaxBonus, NEW gifts \in SUBSET Vouchers,
         Earn(t, m, n, done, bonus, gifts)
  PROVE  SalesInv'
<1> DEFINE b == Credit(balance[m], n + bonus)
<1>1. balance[m] \in Balance /\ RowChecks(balance[m]) /\ n + bonus \in Nat
  BY Parts, TillAssumption DEF TillNeverOverdraws
<1>2. b \in Balance /\ RowChecks(b)
  BY <1>1, RowCredit
<1> HIDE DEF b
<1>3. balance' \in [Members -> Balance] /\ TillNeverOverdraws'
  BY <1>2, RowChanges, Parts DEF Earn, b
<1>4. SaleTableOK'
  <2> DEFINE r == [state |-> "captured", intent |-> "earn", member |-> m,
                   points |-> n, done |-> done, bonus |-> bonus]
  <2>1. n \in Nat
    BY TillAssumption
  <2>2. events' = [events EXCEPT ![t] = @ + EventsOf(r)]
    <3>1. EventsOf(r) = (IF n > 0 THEN 1 ELSE 0) + done
      BY DEF EventsOf
    <3>2. events \in [Sales -> Nat] /\ done \in Nat
      BY Parts, TillAssumption DEF SaleTableOK
    <3>3. events[t] + (IF n > 0 THEN 1 ELSE 0) + done
            = events[t] + ((IF n > 0 THEN 1 ELSE 0) + done)
      BY <3>2
    <3> QED BY <3>1, <3>3 DEF Earn
  <2>3. sale' = [sale EXCEPT ![t] = r] /\ sale[t].state = "none"
    BY DEF Earn
  <2> QED BY <2>2, <2>3, SaleOpens, Parts
<1>5. RewardsOK'
  BY Parts, HoldsKeepTypes DEF Earn
<1>6. CallsOK'
  BY Parts DEF Earn, CallsOK
<1> QED BY <1>3, <1>4, <1>5, <1>6, NextParts

LEMMA AuthorizeIsSafe ==
  ASSUME SalesInv, NEW t \in Sales, NEW m \in Members, NEW n \in 0..MaxPoints,
         Authorize(t, m, n)
  PROVE  SalesInv'
<1> DEFINE b == Hold(balance[m], n)
<1>1. balance[m] \in Balance /\ n \in Nat /\ 0 \in 0..MaxBonus /\ 0 \in 0..MaxDone /\ HasAvailable(balance[m], n)
  BY Parts, TillAssumption DEF Authorize
<1>2. b \in Balance /\ RowChecks(b)
  BY <1>1, RowHold
<1> HIDE DEF b
<1>3. balance' \in [Members -> Balance] /\ TillNeverOverdraws'
  BY <1>2, RowChanges, Parts DEF Authorize, b
<1>4. SaleTableOK'
  <2> DEFINE r == [state |-> "authorized", intent |-> "redeem", member |-> m,
                   points |-> n, done |-> 0, bonus |-> 0]
  <2>1. events' = [events EXCEPT ![t] = @ + EventsOf(r)]
    <3>1. EventsOf(r) = 0
      BY DEF EventsOf
    <3> QED BY <3>1, Parts DEF Authorize, SaleTableOK
  <2>2. sale' = [sale EXCEPT ![t] = r] /\ sale[t].state = "none" /\ n > 0
    BY DEF Authorize
  <2> QED BY <1>1, <2>1, <2>2, SaleOpens, Parts
<1>5. RewardsOK'
  BY Parts DEF Authorize, RewardsOK, rewards
<1>6. CallsOK'
  BY Parts DEF Authorize, CallsOK
<1> QED BY <1>3, <1>4, <1>5, <1>6, NextParts

LEMMA CaptureIsSafe ==
  ASSUME SalesInv, NEW t \in Sales, CaptureSale(t)
  PROVE  SalesInv'
<1> DEFINE m == sale[t].member
           n == sale[t].points
           b == Capture(balance[m], n)
<1>1. m \in Members /\ n \in Nat
  BY Parts, TillAssumption DEF CaptureSale, Claims, SaleTableOK, Sale
<1>2. balance[m] \in Balance /\ RowChecks(balance[m]) /\ HasPending(balance[m], n)
  BY <1>1, Parts DEF CaptureSale, TillNeverOverdraws
<1>3. balance' = [balance EXCEPT ![m] = b] /\ Claims(t, "captured")
      /\ ConfirmHolds(m, {}) /\ events' = [events EXCEPT ![t] = @ + 1] /\ call' = call /\ contested' = contested
  BY DEF CaptureSale
<1> HIDE DEF m, n
<1>4. b \in Balance /\ RowChecks(b)
  BY <1>1, <1>2, RowCapture
<1> HIDE DEF b
<1>5. balance' \in [Members -> Balance] /\ TillNeverOverdraws'
  BY <1>1, <1>3, <1>4, RowChanges, Parts
<1>6. SaleTableOK'
  BY <1>3, SaleEnds, Parts
<1>7. RewardsOK'
  BY <1>3, Parts, HoldsKeepTypes
<1>8. CallsOK'
  BY <1>3, Parts DEF CallsOK
<1> QED BY <1>5, <1>6, <1>7, <1>8, NextParts

LEMMA VoidIsSafe ==
  ASSUME SalesInv, NEW t \in Sales, VoidSale(t)
  PROVE  SalesInv'
<1> DEFINE m == sale[t].member
           n == sale[t].points
           b == Release(balance[m], n)
<1>1. m \in Members /\ n \in Nat
  BY Parts, TillAssumption DEF VoidSale, Claims, SaleTableOK, Sale
<1>2. balance[m] \in Balance /\ RowChecks(balance[m]) /\ HasPending(balance[m], n)
  BY <1>1, Parts DEF VoidSale, TillNeverOverdraws
<1>3. balance' = [balance EXCEPT ![m] = b] /\ Claims(t, "voided")
      /\ ReturnHolds(m) /\ events' = events /\ call' = call /\ contested' = contested
  BY DEF VoidSale
<1> HIDE DEF m, n
<1>4. b \in Balance /\ RowChecks(b)
  BY <1>1, <1>2, RowRelease
<1> HIDE DEF b
<1>5. balance' \in [Members -> Balance] /\ TillNeverOverdraws'
  BY <1>1, <1>3, <1>4, RowChanges, Parts
<1>6. SaleTableOK'
  BY <1>3, SaleEnds, Parts
<1>7. RewardsOK'
  BY <1>3, Parts, HoldsKeepTypes
<1>8. CallsOK'
  BY <1>3, Parts DEF CallsOK
<1> QED BY <1>5, <1>6, <1>7, <1>8, NextParts

-----------------------------------------------------------------------------
(* The catalog takes points and issues a voucher.                           *)
LEMMA BuyIsSafe ==
  ASSUME SalesInv, NEW v \in Vouchers, NEW n \in 0..MaxPoints, BuyVoucher(v, n)
  PROVE  SalesInv'
<1> DEFINE m == Owner[v]
           h == Hold(balance[m], n)
           b == Capture(h, n)
<1>1. m \in Members /\ n \in Nat
  BY TillAssumption
<1>2. balance[m] \in Balance /\ HasAvailable(balance[m], n)
      /\ balance' = [balance EXCEPT ![m] = b]
  BY <1>1, Parts DEF BuyVoucher
<1>3. h \in Balance /\ RowChecks(h) /\ HasPending(h, n)
  <2>1. h \in Balance /\ RowChecks(h)
    BY <1>1, <1>2, RowHold
  <2>2. HasPending(h, n)
    BY <1>1, <1>2 DEF Hold, HasPending, Balance
  <2> QED BY <2>1, <2>2
<1> HIDE DEF h, m
<1>4. b \in Balance /\ RowChecks(b)
  BY <1>1, <1>3, RowCapture
<1> HIDE DEF b
<1>5. balance' \in [Members -> Balance] /\ TillNeverOverdraws'
  BY <1>1, <1>2, <1>4, RowChanges, Parts
<1>6. RewardsOK'
  BY Parts DEF BuyVoucher, RewardsOK
<1>7. SaleTableOK' /\ CallsOK'
  BY Parts DEF BuyVoucher, SaleTableOK, EventsMatchSales, OpenSalesRedeem, CallsOK
<1> QED BY <1>5, <1>6, <1>7, NextParts

\* The steps that move neither points nor sales.
OnlyRewards == UNCHANGED <<balance, sale, events>> /\ RewardsOK' /\ CallsOK'

LEMMA RewardStepIsSafe ==
  ASSUME SalesInv, OnlyRewards
  PROVE  SalesInv'
<1>1. balance' \in [Members -> Balance] /\ TillNeverOverdraws' /\ SaleTableOK'
  BY Parts DEF OnlyRewards, TillNeverOverdraws, SaleTableOK, EventsMatchSales, OpenSalesRedeem
<1> QED BY <1>1, NextParts DEF OnlyRewards

LEMMA VoucherStepIsSafe ==
  ASSUME SalesInv, VoucherStep
  PROVE  SalesInv'
<1>1. ASSUME NEW v \in Vouchers, IssueVoucher(v) PROVE OnlyRewards
  BY <1>1, Parts DEF IssueVoucher, OnlyRewards, RewardsOK, CallsOK
<1>2. ASSUME NEW v \in Vouchers, HoldLapses(v) PROVE OnlyRewards
  BY <1>2, Parts DEF HoldLapses, OnlyRewards, RewardsOK, CallsOK
<1>3. ASSUME NEW v \in Vouchers, VoucherExpires(v) PROVE OnlyRewards
  BY <1>3, Parts DEF VoucherExpires, OnlyRewards, RewardsOK, CallsOK
<1>4. ASSUME NEW m \in Members, ReleaseStaleHolds(m) PROVE OnlyRewards
  BY <1>4, Parts DEF ReleaseStaleHolds, OnlyRewards, RewardsOK, CallsOK
<1>5. ASSUME NEW v \in Vouchers, NEW n \in 0..MaxPoints, BuyVoucher(v, n) PROVE SalesInv'
  BY <1>5, BuyIsSafe
<1> QED BY <1>1, <1>2, <1>3, <1>4, <1>5, RewardStepIsSafe DEF VoucherStep

LEMMA CallStepIsSafe ==
  ASSUME SalesInv, CallStep
  PROVE  SalesInv'
<1>1. ASSUME NEW c \in Calls, NEW kind \in {"hold", "use", "cancel"}, NEW v \in Vouchers,
             Find(c, kind, v)
      PROVE  OnlyRewards
  BY <1>1, Parts DEF Find, OnlyRewards, RewardsOK, CallsOK, Call, rewards
<1>2. ASSUME NEW c \in Calls, CheckOtherHolds(c) PROVE OnlyRewards
  <2>1. RewardsOK' /\ UNCHANGED <<balance, sale, events>>
    BY <1>2, Parts DEF CheckOtherHolds, RewardsOK, rewards
  <2>2. call[c] \in Call /\ call[c].voucher \in Vouchers
    BY <1>2, Parts DEF CheckOtherHolds, CallsOK
  <2> DEFINE x == IF NoOtherHold(call[c].voucher) THEN [call[c] EXCEPT !.pc = "checked"]
                  ELSE NoCall
  <2>3. x \in Call /\ (x.pc # "idle" => x.voucher \in Vouchers)
    BY <2>2 DEF Call, NoCall
  <2>4. call' = [call EXCEPT ![c] = x] /\ contested' = contested
    BY <1>2 DEF CheckOtherHolds
  <2> HIDE DEF x
  <2>5. CallsOK'
    BY <2>3, <2>4, Parts DEF CallsOK
  <2> QED BY <2>1, <2>5 DEF OnlyRewards
<1>3. ASSUME NEW c \in Calls, call' = [call EXCEPT ![c] = NoCall], contested' = contested
      PROVE  CallsOK'
  BY <1>3, Parts DEF CallsOK, NoCall, Call
<1>4. ASSUME NEW c \in Calls, GiveUp(c) PROVE OnlyRewards
  BY <1>3, <1>4, Parts DEF GiveUp, OnlyRewards, RewardsOK, rewards
<1>5. ASSUME NEW c \in Calls, Write(c) PROVE OnlyRewards
  <2> DEFINE v == call[c].voucher
  <2>1. v \in Vouchers
    BY <1>5, Parts DEF Write, CallsOK
  <2>2. /\ call' = [call EXCEPT ![c] = NoCall]
        /\ UNCHANGED <<balance, sale, expired, cost, events, contested>>
    BY <1>5 DEF Write
  <2>3. /\ status' \in [Vouchers -> {"absent", "issued", "reserved", "redeemed", "void"}]
        /\ recent' \subseteq Vouchers
        /\ uses' \in [Vouchers -> 0..2]
    BY <1>5, <2>1, Parts DEF Write, RewardsOK, OneMore
  <2> QED BY <1>3, <2>2, <2>3, Parts DEF OnlyRewards, RewardsOK
<1> QED BY <1>1, <1>2, <1>4, <1>5, RewardStepIsSafe DEF CallStep

LEMMA StepIsSafe == SalesInv /\ [Next]_vars => SalesInv'
<1> SUFFICES ASSUME SalesInv, [Next]_vars PROVE SalesInv'
  OBVIOUS
<1>1. CASE SaleStep
  BY <1>1, EarnIsSafe, AuthorizeIsSafe, CaptureIsSafe, VoidIsSafe DEF SaleStep
<1>2. CASE VoucherStep
  BY <1>2, VoucherStepIsSafe
<1>3. CASE CallStep
  BY <1>3, CallStepIsSafe
<1>4. CASE UNCHANGED vars
  <2>1. OnlyRewards
    BY <1>4, Parts DEF vars, OnlyRewards, RewardsOK, CallsOK
  <2> QED BY <2>1, RewardStepIsSafe
<1> QED BY <1>1, <1>2, <1>3, <1>4 DEF Next

(* In every state of the till the invariant holds, however sales, rewards   *)
(* and calls interleave.                                                    *)
THEOREM SalesAreSafe == Spec => []SalesInv
<1> QED BY InitIsSafe, StepIsSafe, PTL DEF Spec

(* terminal_transaction, voucher and account_balance rows keep their types. *)
THEOREM SalesTypes == Spec => []TypeOK
<1>1. SalesInv => TypeOK
  BY DEF SalesInv
<1> QED BY <1>1, SalesAreSafe, PTL

(* No interleaving of tills, app and catalog trips the CHECK constraints of *)
(* account_balance.                                                         *)
THEOREM TillsNeverOverdraw == Spec => []TillNeverOverdraws
<1>1. SalesInv => TillNeverOverdraws
  BY DEF SalesInv
<1> QED BY <1>1, SalesAreSafe, PTL

(* Each captured sale that moved points has exactly one points event in the *)
(* outbox, and no other sale has any.                                       *)
THEOREM EventsAreExact == Spec => []EventsMatchSales
<1>1. SalesInv => EventsMatchSales
  BY DEF SalesInv
<1> QED BY <1>1, SalesAreSafe, PTL

-----------------------------------------------------------------------------
(* A step of one sale moves its idempotency key as the gateway promises.    *)
LEMMA TxnMoves ==
  ASSUME NEW t \in Sales, NEW r, sale \in [Sales -> Sale],
         sale' = [sale EXCEPT ![t] = r],
         NEW to, to = IF r.state = "captured" /\ r.intent = "earn" THEN "earned" ELSE r.state
  PROVE  Txn' = [Txn EXCEPT ![t] = to]
BY DEF Txn

LEMMA SaleStepIsMove ==
  ASSUME SalesInv, SaleStep
  PROVE  GW!Next
<1> USE DEF GW!Next, GW!Moves
<1> sale \in [Sales -> Sale]
  BY Parts DEF SaleTableOK
<1>1. ASSUME NEW t \in Sales, NEW m \in Members, NEW n \in 0..MaxPoints,
             NEW done \in 0..MaxDone, NEW bonus \in 0..MaxBonus, NEW gifts \in SUBSET Vouchers,
             Earn(t, m, n, done, bonus, gifts)
      PROVE  GW!Earn(t)
  <2>1. Txn[t] = "none"
    BY <1>1 DEF Earn, Txn
  <2> DEFINE r == [state |-> "captured", intent |-> "earn", member |-> m,
                   points |-> n, done |-> done, bonus |-> bonus]
  <2>2. r.state = "captured" /\ r.intent = "earn" /\ sale' = [sale EXCEPT ![t] = r]
    BY <1>1 DEF Earn
  <2> HIDE DEF r
  <2>3. Txn' = [Txn EXCEPT ![t] = "earned"]
    BY <2>2, TxnMoves
  <2> QED BY <2>1, <2>3 DEF GW!Earn
<1>2. ASSUME NEW t \in Sales, NEW m \in Members, NEW n \in 0..MaxPoints, Authorize(t, m, n)
      PROVE  GW!Authorize(t)
  <2>1. Txn[t] = "none"
    BY <1>2 DEF Authorize, Txn
  <2> DEFINE r == [state |-> "authorized", intent |-> "redeem", member |-> m,
                   points |-> n, done |-> 0, bonus |-> 0]
  <2>2. r.state = "authorized" /\ sale' = [sale EXCEPT ![t] = r]
    BY <1>2 DEF Authorize
  <2> HIDE DEF r
  <2>3. Txn' = [Txn EXCEPT ![t] = "authorized"]
    BY <2>2, TxnMoves
  <2> QED BY <2>1, <2>3 DEF GW!Authorize
<1>3. ASSUME NEW t \in Sales, NEW end \in {"captured", "voided"}, Claims(t, end)
      PROVE  Txn[t] = "authorized" /\ Txn' = [Txn EXCEPT ![t] = end]
  <2> DEFINE r == [sale[t] EXCEPT !.state = end]
  <2>1. r.state = end /\ r.intent = "redeem" /\ sale' = [sale EXCEPT ![t] = r]
    BY <1>3, Parts DEF Claims, SaleTableOK, OpenSalesRedeem, Sale
  <2>2. Txn[t] = "authorized"
    BY <1>3 DEF Claims, Txn
  <2> HIDE DEF r
  <2> QED BY <2>1, <2>2, TxnMoves
<1>4. ASSUME NEW t \in Sales, CaptureSale(t) PROVE GW!Capture(t)
  BY <1>3, <1>4 DEF CaptureSale, GW!Capture
<1>5. ASSUME NEW t \in Sales, VoidSale(t) PROVE GW!Void(t)
  BY <1>3, <1>5 DEF VoidSale, GW!Void
<1> QED BY <1>1, <1>2, <1>4, <1>5 DEF SaleStep

(* Every behaviour of the tills, the rewards and the balances is, seen by   *)
(* the idempotency keys, one of the gateway's promise: a request executes   *)
(* once, and a hold is ended once, by its capture or by its void.           *)
THEOREM TillImplementsGateway == Spec => ImplementsGateway
<1>1. Init => GW!Init
  BY DEF Init, GW!Init, Txn, NoSale
<1>2. ASSUME SalesInv, [Next]_vars PROVE [GW!Next]_Txn
  <2>1. CASE SaleStep
    BY <1>2, <2>1, SaleStepIsMove
  <2>2. ASSUME sale' = sale PROVE Txn' = Txn
    BY <2>2 DEF Txn
  <2>3. CASE VoucherStep
    BY <2>2, <2>3 DEF VoucherStep, IssueVoucher, BuyVoucher, HoldLapses, VoucherExpires,
                      ReleaseStaleHolds
  <2>4. CASE CallStep
    BY <2>2, <2>4 DEF CallStep, Find, CheckOtherHolds, Write, GiveUp
  <2>5. CASE UNCHANGED vars
    BY <2>2, <2>5 DEF vars
  <2> QED BY <1>2, <2>1, <2>3, <2>4, <2>5 DEF Next
<1> QED BY <1>1, <1>2, SalesAreSafe, PTL DEF Spec, ImplementsGateway, GW!Spec

-----------------------------------------------------------------------------
(* What a row of terminal_transaction adds to the sums of a member.         *)
Points(x, m, intent, state) ==
  IF x.member = m /\ x.intent = intent /\ x.state = state THEN x.points ELSE 0

Bonus(x, m) == IF x.member = m THEN x.bonus ELSE 0

\* The writes of a step to the two tables, kept folded in the proofs below.
WritesSale(t, r) == sale \in [Sales -> Sale] /\ sale' = [sale EXCEPT ![t] = r]

WritesCost(v, n) ==
  /\ cost \in [Vouchers -> 0..MaxPoints] /\ cost[v] = 0
  /\ cost' = [cost EXCEPT ![v] = n]

(* Writing one row changes each sum by what the row adds to it.             *)
LEMMA PointsInChange ==
  ASSUME NEW t \in Sales, NEW r \in Sale, WritesSale(t, r),
         NEW m, NEW intent, NEW state
  PROVE  /\ SumOf(PointsIn(m, intent, state)) \in Nat
         /\ SumOf(PointsIn(m, intent, state))' =
              SumOf(PointsIn(m, intent, state))
              - Points(sale[t], m, intent, state) + Points(r, m, intent, state)
<1> DEFINE f == PointsIn(m, intent, state)
<1>1. MaxPoints \in Nat /\ IsFiniteSet(Sales)
  BY TillAssumption
<1>2. \A x \in Sale : Points(x, m, intent, state) \in 0..MaxPoints
  BY <1>1 DEF Sale, Points
<1>3. f \in [Sales -> 0..MaxPoints] /\ f[t] = Points(sale[t], m, intent, state)
  BY <1>2 DEF PointsIn, Points, WritesSale
<1>4. /\ f' \in [Sales -> 0..MaxPoints] /\ f'[t] = Points(r, m, intent, state)
      /\ \A s \in Sales \ {t} : f'[s] = f[s]
  BY <1>2 DEF PointsIn, Points, WritesSale
<1>5. SumOf(f)' = SumOf(f')
  BY DEF SumOf
<1> HIDE DEF f
<1>6. SumOf(f) \in Nat
  BY <1>1, <1>3, SumType
<1>7. SumOf(f') = SumOf(f) - f[t] + f'[t]
  BY <1>1, <1>3, <1>4, SumChanges
<1> QED BY <1>3, <1>4, <1>5, <1>6, <1>7 DEF f

LEMMA BonusChange ==
  ASSUME NEW t \in Sales, NEW r \in Sale, WritesSale(t, r), NEW m
  PROVE  /\ SumOf(BonusPoints(m)) \in Nat
         /\ SumOf(BonusPoints(m))' =
              SumOf(BonusPoints(m)) - Bonus(sale[t], m) + Bonus(r, m)
<1> DEFINE f == BonusPoints(m)
<1>1. MaxBonus \in Nat /\ IsFiniteSet(Sales)
  BY TillAssumption
<1>2. \A x \in Sale : Bonus(x, m) \in 0..MaxBonus
  BY <1>1 DEF Sale, Bonus
<1>3. f \in [Sales -> 0..MaxBonus] /\ f[t] = Bonus(sale[t], m)
  BY <1>2 DEF BonusPoints, Bonus, WritesSale
<1>4. /\ f' \in [Sales -> 0..MaxBonus] /\ f'[t] = Bonus(r, m)
      /\ \A s \in Sales \ {t} : f'[s] = f[s]
  BY <1>2 DEF BonusPoints, Bonus, WritesSale
<1>5. SumOf(f)' = SumOf(f')
  BY DEF SumOf
<1> HIDE DEF f
<1>6. SumOf(f) \in Nat
  BY <1>1, <1>3, SumType
<1>7. SumOf(f') = SumOf(f) - f[t] + f'[t]
  BY <1>1, <1>3, <1>4, SumChanges
<1> QED BY <1>3, <1>4, <1>5, <1>6, <1>7 DEF f

(* Buying a voucher adds its price to what its owner spent on vouchers.     *)
LEMMA CostChange ==
  ASSUME NEW v \in Vouchers, NEW n \in 0..MaxPoints, WritesCost(v, n), NEW m
  PROVE  /\ SumOf(PointsOnVouchers(m)) \in Nat
         /\ SumOf(PointsOnVouchers(m))' =
              SumOf(PointsOnVouchers(m)) + (IF Owner[v] = m THEN n ELSE 0)
<1> DEFINE f == PointsOnVouchers(m)
           k == IF Owner[v] = m THEN n ELSE 0
<1>1. MaxPoints \in Nat /\ IsFiniteSet(Vouchers)
  BY TillAssumption
<1>2. f \in [Vouchers -> 0..MaxPoints] /\ f[v] = 0 /\ k \in 0..MaxPoints
  BY <1>1 DEF PointsOnVouchers, WritesCost
<1>3. /\ f' \in [Vouchers -> 0..MaxPoints] /\ f'[v] = k
      /\ \A w \in Vouchers \ {v} : f'[w] = f[w]
  BY <1>1 DEF PointsOnVouchers, WritesCost
<1>4. SumOf(f)' = SumOf(f')
  BY DEF SumOf
<1> HIDE DEF f, k
<1>5. SumOf(f) \in Nat
  BY <1>1, <1>2, SumType
<1>6. SumOf(f') = SumOf(f) - f[v] + f'[v]
  BY <1>1, <1>2, <1>3, SumChanges
<1>7. SumOf(f') = SumOf(f) + k
  BY <1>1, <1>2, <1>3, <1>5, <1>6
<1> QED BY <1>4, <1>5, <1>7 DEF f, k
-----------------------------------------------------------------------------
(* The five sums SalesExplain speaks of.                                    *)
HeldSum(m)   == SumOf(PointsIn(m, "redeem", "authorized"))
EarnedSum(m) == SumOf(PointsIn(m, "earn", "captured"))
BonusSum(m)  == SumOf(BonusPoints(m))
SpentSum(m)  == SumOf(PointsIn(m, "redeem", "captured"))
BoughtSum(m) == SumOf(PointsOnVouchers(m))

Books(m) ==
  /\ balance[m].pending_debits = HeldSum(m)
  /\ balance[m].posted_credits = EarnedSum(m) + BonusSum(m)
  /\ balance[m].posted_debits = SpentSum(m) + BoughtSum(m)

LEMMA BooksExplain == ASSUME NEW m PROVE Books(m) <=> SalesExplain(m)
BY DEF Books, SalesExplain, HeldSum, EarnedSum, BonusSum, SpentSum, BoughtSum

LEMMA NextBooksExplain == ASSUME NEW m PROVE Books(m)' <=> SalesExplain(m)'
BY DEF Books, SalesExplain, HeldSum, EarnedSum, BonusSum, SpentSum, BoughtSum

\* A sale not begun carries no bonus, a voucher not issued has no price.
Untouched ==
  /\ \A t \in Sales : sale[t].state = "none" => sale[t].bonus = 0
  /\ \A v \in Vouchers : status[v] = "absent" => cost[v] = 0

BooksInv == SalesInv /\ Untouched /\ \A m \in Members : Books(m)

LEMMA SumTypes ==
  ASSUME SalesInv, NEW m
  PROVE  /\ HeldSum(m) \in Nat /\ EarnedSum(m) \in Nat /\ BonusSum(m) \in Nat
         /\ SpentSum(m) \in Nat /\ BoughtSum(m) \in Nat
<1>1. /\ MaxPoints \in Nat /\ MaxBonus \in Nat /\ IsFiniteSet(Sales) /\ IsFiniteSet(Vouchers)
  BY TillAssumption
<1>2. ASSUME NEW intent, NEW state
      PROVE  SumOf(PointsIn(m, intent, state)) \in Nat
  <2>1. PointsIn(m, intent, state) \in [Sales -> 0..MaxPoints]
    BY <1>1, Parts DEF PointsIn, SaleTableOK, Sale
  <2> QED BY <1>1, <2>1, SumType
<1>3. BonusSum(m) \in Nat
  <2>1. BonusPoints(m) \in [Sales -> 0..MaxBonus]
    BY <1>1, Parts DEF BonusPoints, SaleTableOK, Sale
  <2> QED BY <1>1, <2>1, SumType DEF BonusSum
<1>4. BoughtSum(m) \in Nat
  <2>1. PointsOnVouchers(m) \in [Vouchers -> 0..MaxPoints]
    BY <1>1, Parts DEF PointsOnVouchers, RewardsOK
  <2> QED BY <1>1, <2>1, SumType DEF BoughtSum
<1> QED BY <1>2, <1>3, <1>4 DEF HeldSum, EarnedSum, SpentSum

(* The sums after a step that writes one sale and no voucher's price.       *)
LEMMA SumsMove ==
  ASSUME NEW t \in Sales, NEW r \in Sale, WritesSale(t, r), cost' = cost, NEW m
  PROVE  /\ HeldSum(m)' = HeldSum(m) - Points(sale[t], m, "redeem", "authorized")
                                     + Points(r, m, "redeem", "authorized")
         /\ EarnedSum(m)' = EarnedSum(m) - Points(sale[t], m, "earn", "captured")
                                         + Points(r, m, "earn", "captured")
         /\ SpentSum(m)' = SpentSum(m) - Points(sale[t], m, "redeem", "captured")
                                       + Points(r, m, "redeem", "captured")
         /\ BonusSum(m)' = BonusSum(m) - Bonus(sale[t], m) + Bonus(r, m)
         /\ BoughtSum(m)' = BoughtSum(m)
<1>1. BoughtSum(m)' = BoughtSum(m)
  BY DEF BoughtSum, PointsOnVouchers, SumOf
<1>2. BonusSum(m)' = BonusSum(m) - Bonus(sale[t], m) + Bonus(r, m)
  BY BonusChange DEF BonusSum
<1> QED BY <1>1, <1>2, PointsInChange DEF HeldSum, EarnedSum, SpentSum

LEMMA SumsStay ==
  ASSUME sale' = sale, NEW m
  PROVE  /\ HeldSum(m)' = HeldSum(m) /\ EarnedSum(m)' = EarnedSum(m)
         /\ SpentSum(m)' = SpentSum(m) /\ BonusSum(m)' = BonusSum(m)
         /\ (cost' = cost => BoughtSum(m)' = BoughtSum(m))
BY DEF HeldSum, EarnedSum, SpentSum, BonusSum, BoughtSum, PointsIn, BonusPoints,
       PointsOnVouchers, SumOf

-----------------------------------------------------------------------------
(* An earn credits the member what the sale and its bonus add to the sums.  *)
LEMMA EarnKeepsBooks ==
  ASSUME BooksInv, NEW t \in Sales, NEW m \in Members, NEW n \in 0..MaxPoints,
         NEW done \in 0..MaxDone, NEW bonus \in 0..MaxBonus, NEW gifts \in SUBSET Vouchers,
         Earn(t, m, n, done, bonus, gifts), NEW q \in Members
  PROVE  Books(q)'
<1> DEFINE r == [state |-> "captured", intent |-> "earn", member |-> m,
                 points |-> n, done |-> done, bonus |-> bonus]
           b == Credit(balance[m], n + bonus)
<1>1. n \in Nat /\ bonus \in Nat /\ balance[m] \in Balance
  BY TillAssumption, Parts DEF BooksInv
<1>2. /\ b.posted_credits = balance[m].posted_credits + (n + bonus)
      /\ b.posted_debits = balance[m].posted_debits
      /\ b.pending_debits = balance[m].pending_debits
  <2>1. n + bonus \in Nat
    BY <1>1
  <2>2. Credit(balance[m], n + bonus).pending_debits = balance[m].pending_debits
    BY <1>1, <2>1, RowViews
  <2> QED BY <1>1, <2>1, <2>2, RowCredit
<1>3. r \in Sale
  BY TillAssumption DEF Sale
<1>4. /\ \A i \in {"earn", "redeem"}, s \in {"authorized", "captured"} :
           /\ Points(sale[t], q, i, s) = 0
           /\ Points(r, q, i, s) = IF q = m /\ i = "earn" /\ s = "captured" THEN n ELSE 0
      /\ Bonus(sale[t], q) = 0
      /\ Bonus(r, q) = IF q = m THEN bonus ELSE 0
  BY DEF Points, Bonus, Earn, BooksInv, Untouched
<1>5. WritesSale(t, r)
  BY Parts DEF WritesSale, Earn, BooksInv, SaleTableOK
<1>6. cost' = cost
  BY DEF Earn, ConfirmHolds
<1>7. balance'[q] = IF q = m THEN b ELSE balance[q]
  BY Parts DEF Earn, BooksInv
<1> HIDE DEF r, b
<1>8. /\ HeldSum(q)' = HeldSum(q) - 0 + 0
      /\ EarnedSum(q)' = EarnedSum(q) - 0 + (IF q = m THEN n ELSE 0)
      /\ SpentSum(q)' = SpentSum(q) - 0 + 0
      /\ BonusSum(q)' = BonusSum(q) - 0 + (IF q = m THEN bonus ELSE 0)
      /\ BoughtSum(q)' = BoughtSum(q)
  BY <1>3, <1>4, <1>5, <1>6, SumsMove
<1>9. /\ HeldSum(q) \in Nat /\ EarnedSum(q) \in Nat /\ BonusSum(q) \in Nat
      /\ SpentSum(q) \in Nat /\ BoughtSum(q) \in Nat
  BY SumTypes DEF BooksInv
<1>10. Books(q)
  BY DEF BooksInv
<1> QED BY <1>1, <1>2, <1>7, <1>8, <1>9, <1>10 DEF Books
(* A sale that is authorized holds its points.                              *)
LEMMA AuthorizeKeepsBooks ==
  ASSUME BooksInv, NEW t \in Sales, NEW m \in Members, NEW n \in 0..MaxPoints,
         Authorize(t, m, n), NEW q \in Members
  PROVE  Books(q)'
<1> DEFINE r == [state |-> "authorized", intent |-> "redeem", member |-> m,
                 points |-> n, done |-> 0, bonus |-> 0]
           b == Hold(balance[m], n)
<1>1. n \in Nat /\ balance[m] \in Balance
  BY TillAssumption, Parts DEF BooksInv
<1>2. /\ b.posted_credits = balance[m].posted_credits
      /\ b.posted_debits = balance[m].posted_debits
      /\ b.pending_debits = balance[m].pending_debits + n
  BY <1>1, RowHold, RowViews
<1>3. r \in Sale
  BY TillAssumption DEF Sale
<1>4. /\ \A i \in {"earn", "redeem"}, s \in {"authorized", "captured"} :
           /\ Points(sale[t], q, i, s) = 0
           /\ Points(r, q, i, s) = IF q = m /\ i = "redeem" /\ s = "authorized" THEN n ELSE 0
      /\ Bonus(sale[t], q) = 0 /\ Bonus(r, q) = 0
  BY DEF Points, Bonus, Authorize, BooksInv, Untouched
<1>5. WritesSale(t, r)
  BY Parts DEF WritesSale, Authorize, BooksInv, SaleTableOK
<1>6. cost' = cost
  BY DEF Authorize, rewards
<1>7. balance'[q] = IF q = m THEN b ELSE balance[q]
  BY Parts DEF Authorize, BooksInv
<1> HIDE DEF r, b
<1>8. /\ HeldSum(q)' = HeldSum(q) - 0 + (IF q = m THEN n ELSE 0)
      /\ EarnedSum(q)' = EarnedSum(q) - 0 + 0
      /\ SpentSum(q)' = SpentSum(q) - 0 + 0
      /\ BonusSum(q)' = BonusSum(q) - 0 + 0
      /\ BoughtSum(q)' = BoughtSum(q)
  BY <1>3, <1>4, <1>5, <1>6, SumsMove
<1>9. /\ HeldSum(q) \in Nat /\ EarnedSum(q) \in Nat /\ BonusSum(q) \in Nat
      /\ SpentSum(q) \in Nat /\ BoughtSum(q) \in Nat
  BY SumTypes DEF BooksInv
<1>10. Books(q)
  BY DEF BooksInv
<1> QED BY <1>1, <1>2, <1>7, <1>8, <1>9, <1>10 DEF Books

(* The row an authorized sale becomes when it ends, and what it adds.       *)
LEMMA EndedSale ==
  ASSUME BooksInv, NEW t \in Sales, NEW end \in {"captured", "voided"}, Claims(t, end),
         NEW q
  PROVE  LET r == [sale[t] EXCEPT !.state = end]
             n == sale[t].points
         IN /\ r \in Sale /\ WritesSale(t, r)
            /\ sale[t].member \in Members /\ n \in Nat
            /\ Points(sale[t], q, "redeem", "authorized") = IF q = sale[t].member THEN n ELSE 0
            /\ Points(r, q, "redeem", "authorized") = 0
            /\ \A x \in {sale[t], r} : Points(x, q, "earn", "captured") = 0
            /\ Points(sale[t], q, "redeem", "captured") = 0
            /\ Points(r, q, "redeem", "captured") =
                 IF q = sale[t].member /\ end = "captured" THEN n ELSE 0
            /\ Bonus(r, q) = Bonus(sale[t], q) /\ Bonus(r, q) \in Nat
<1> DEFINE r == [sale[t] EXCEPT !.state = end]
<1>1. /\ sale \in [Sales -> Sale] /\ sale[t].state = "authorized" /\ sale[t].intent = "redeem"
      /\ sale[t].member \in Members
  BY Parts DEF BooksInv, SaleTableOK, OpenSalesRedeem, Claims
<1>2. /\ r \in Sale /\ r.state = end /\ r.member = sale[t].member
      /\ r.intent = "redeem" /\ r.points = sale[t].points /\ r.bonus = sale[t].bonus
      /\ r.points \in Nat /\ r.bonus \in Nat
  BY <1>1, TillAssumption DEF Sale
<1>3. WritesSale(t, r)
  BY <1>1 DEF WritesSale, Claims
<1> HIDE DEF r
<1>4. /\ Points(sale[t], q, "redeem", "authorized") =
           IF q = sale[t].member THEN sale[t].points ELSE 0
      /\ Points(r, q, "redeem", "authorized") = 0
      /\ Points(sale[t], q, "earn", "captured") = 0
      /\ Points(r, q, "earn", "captured") = 0
      /\ Points(sale[t], q, "redeem", "captured") = 0
      /\ Points(r, q, "redeem", "captured") =
           IF q = sale[t].member /\ end = "captured" THEN sale[t].points ELSE 0
  BY <1>1, <1>2 DEF Points
<1>5. Bonus(r, q) = Bonus(sale[t], q) /\ Bonus(r, q) \in Nat
  BY <1>2 DEF Bonus
<1> QED BY <1>1, <1>2, <1>3, <1>4, <1>5 DEF r

(* A capture moves the sale's points from what is held to what is spent.    *)
LEMMA CaptureKeepsBooks ==
  ASSUME BooksInv, NEW t \in Sales, CaptureSale(t), NEW q \in Members
  PROVE  Books(q)'
<1> DEFINE r == [sale[t] EXCEPT !.state = "captured"]
           m == sale[t].member
           n == sale[t].points
           b == Capture(balance[m], n)
<1>1. /\ Claims(t, "captured") /\ HasPending(balance[m], n)
      /\ balance' = [balance EXCEPT ![m] = b] /\ cost' = cost
  BY DEF CaptureSale, ConfirmHolds
<1>2. /\ r \in Sale /\ WritesSale(t, r) /\ m \in Members /\ n \in Nat
      /\ Points(sale[t], q, "redeem", "authorized") = IF q = m THEN n ELSE 0
      /\ Points(r, q, "redeem", "authorized") = 0
      /\ Points(sale[t], q, "earn", "captured") = 0
      /\ Points(r, q, "earn", "captured") = 0
      /\ Points(sale[t], q, "redeem", "captured") = 0
      /\ Points(r, q, "redeem", "captured") = IF q = m THEN n ELSE 0
      /\ Bonus(r, q) = Bonus(sale[t], q) /\ Bonus(r, q) \in Nat
  BY <1>1, EndedSale
<1> HIDE DEF r, m, n
<1>3. balance[m] \in Balance /\ balance'[q] = IF q = m THEN b ELSE balance[q]
  BY <1>1, <1>2, Parts DEF BooksInv
<1>4. /\ b.posted_credits = balance[m].posted_credits
      /\ b.posted_debits = balance[m].posted_debits + n
      /\ b.pending_debits = balance[m].pending_debits - n
  BY <1>1, <1>2, <1>3, RowCapture, CaptureView
<1> HIDE DEF b
<1>5. /\ HeldSum(q)' = HeldSum(q) - (IF q = m THEN n ELSE 0) + 0
      /\ EarnedSum(q)' = EarnedSum(q) - 0 + 0
      /\ SpentSum(q)' = SpentSum(q) - 0 + (IF q = m THEN n ELSE 0)
      /\ BonusSum(q)' = BonusSum(q) - Bonus(r, q) + Bonus(r, q)
      /\ BoughtSum(q)' = BoughtSum(q)
  BY <1>1, <1>2, SumsMove
<1>6. /\ HeldSum(q) \in Nat /\ EarnedSum(q) \in Nat /\ BonusSum(q) \in Nat
      /\ SpentSum(q) \in Nat /\ BoughtSum(q) \in Nat
  BY SumTypes DEF BooksInv
<1>7. Books(q)
  BY DEF BooksInv
<1> QED BY <1>2, <1>3, <1>4, <1>5, <1>6, <1>7 DEF Books

(* A void gives the held points back and leaves no other trace.             *)
LEMMA VoidKeepsBooks ==
  ASSUME BooksInv, NEW t \in Sales, VoidSale(t), NEW q \in Members
  PROVE  Books(q)'
<1> DEFINE r == [sale[t] EXCEPT !.state = "voided"]
           m == sale[t].member
           n == sale[t].points
           b == Release(balance[m], n)
<1>1. /\ Claims(t, "voided") /\ HasPending(balance[m], n)
      /\ balance' = [balance EXCEPT ![m] = b] /\ cost' = cost
  BY DEF VoidSale, ReturnHolds
<1>2. /\ r \in Sale /\ WritesSale(t, r) /\ m \in Members /\ n \in Nat
      /\ Points(sale[t], q, "redeem", "authorized") = IF q = m THEN n ELSE 0
      /\ Points(r, q, "redeem", "authorized") = 0
      /\ Points(sale[t], q, "earn", "captured") = 0
      /\ Points(r, q, "earn", "captured") = 0
      /\ Points(sale[t], q, "redeem", "captured") = 0
      /\ Points(r, q, "redeem", "captured") = 0
      /\ Bonus(r, q) = Bonus(sale[t], q) /\ Bonus(r, q) \in Nat
  BY <1>1, EndedSale
<1> HIDE DEF r, m, n
<1>3. balance[m] \in Balance /\ balance'[q] = IF q = m THEN b ELSE balance[q]
  BY <1>1, <1>2, Parts DEF BooksInv
<1>4. /\ b.posted_credits = balance[m].posted_credits
      /\ b.posted_debits = balance[m].posted_debits
      /\ b.pending_debits = balance[m].pending_debits - n
  BY <1>1, <1>2, <1>3, RowRelease, RowViews
<1> HIDE DEF b
<1>5. /\ HeldSum(q)' = HeldSum(q) - (IF q = m THEN n ELSE 0) + 0
      /\ EarnedSum(q)' = EarnedSum(q) - 0 + 0
      /\ SpentSum(q)' = SpentSum(q) - 0 + 0
      /\ BonusSum(q)' = BonusSum(q) - Bonus(r, q) + Bonus(r, q)
      /\ BoughtSum(q)' = BoughtSum(q)
  BY <1>1, <1>2, SumsMove
<1>6. /\ HeldSum(q) \in Nat /\ EarnedSum(q) \in Nat /\ BonusSum(q) \in Nat
      /\ SpentSum(q) \in Nat /\ BoughtSum(q) \in Nat
  BY SumTypes DEF BooksInv
<1>7. Books(q)
  BY DEF BooksInv
<1> QED BY <1>2, <1>3, <1>4, <1>5, <1>6, <1>7 DEF Books

(* Buying a voucher debits its owner what the voucher cost.                 *)
LEMMA BuyKeepsBooks ==
  ASSUME BooksInv, NEW v \in Vouchers, NEW n \in 0..MaxPoints, BuyVoucher(v, n),
         NEW q \in Members
  PROVE  Books(q)'
<1> DEFINE m == Owner[v]
           h == Hold(balance[m], n)
           b == Capture(h, n)
<1>1. m \in Members /\ n \in Nat /\ balance[m] \in Balance
  BY TillAssumption, Parts DEF BooksInv
<1>2. balance'[q] = (IF q = m THEN b ELSE balance[q]) /\ sale' = sale
  BY <1>1, Parts DEF BuyVoucher, BooksInv
<1>3. WritesCost(v, n)
  BY Parts DEF BuyVoucher, BooksInv, WritesCost, RewardsOK, Untouched
<1> HIDE DEF m
<1>4. h \in Balance /\ HasPending(h, n)
  <2>1. h \in Balance
    BY <1>1, RowHold
  <2>2. HasPending(h, n)
    BY <1>1 DEF Hold, HasPending, Balance
  <2> QED BY <2>1, <2>2
<1>5. /\ h.posted_credits = balance[m].posted_credits
      /\ h.posted_debits = balance[m].posted_debits
      /\ h.pending_debits = balance[m].pending_debits + n
  BY <1>1, RowHold, RowViews
<1> HIDE DEF h
<1>6. /\ b.posted_credits = h.posted_credits
      /\ b.posted_debits = h.posted_debits + n
      /\ b.pending_debits = h.pending_debits - n
  BY <1>1, <1>4, RowCapture, CaptureView
<1> HIDE DEF b
<1>7. /\ HeldSum(q)' = HeldSum(q) /\ EarnedSum(q)' = EarnedSum(q)
      /\ SpentSum(q)' = SpentSum(q) /\ BonusSum(q)' = BonusSum(q)
  BY <1>2, SumsStay
<1>8. BoughtSum(q)' = BoughtSum(q) + (IF q = m THEN n ELSE 0)
  BY <1>3, CostChange DEF BoughtSum, m
<1>9. /\ HeldSum(q) \in Nat /\ EarnedSum(q) \in Nat /\ BonusSum(q) \in Nat
      /\ SpentSum(q) \in Nat /\ BoughtSum(q) \in Nat
  BY SumTypes DEF BooksInv
<1>10. Books(q) /\ balance[m].pending_debits \in Nat
  BY <1>1 DEF BooksInv, Balance
<1> QED BY <1>1, <1>2, <1>5, <1>6, <1>7, <1>8, <1>9, <1>10 DEF Books

-----------------------------------------------------------------------------
LEMMA SaleStepKeepsBooks ==
  ASSUME BooksInv, SaleStep, NEW q \in Members
  PROVE  Books(q)'
BY EarnKeepsBooks, AuthorizeKeepsBooks, CaptureKeepsBooks, VoidKeepsBooks DEF SaleStep

(* A step that moves neither points nor sales, nor prices, keeps the books. *)
LEMMA IdleKeepsBooks ==
  ASSUME BooksInv, UNCHANGED <<balance, sale, cost>>, NEW q \in Members
  PROVE  Books(q)'
BY SumsStay DEF BooksInv, Books

LEMMA VoucherStepKeepsBooks ==
  ASSUME BooksInv, VoucherStep, NEW q \in Members
  PROVE  Books(q)'
<1>1. ASSUME NEW v \in Vouchers, IssueVoucher(v) \/ HoldLapses(v) \/ VoucherExpires(v)
      PROVE  UNCHANGED <<balance, sale, cost>>
  BY <1>1 DEF IssueVoucher, HoldLapses, VoucherExpires
<1>2. ASSUME NEW m \in Members, ReleaseStaleHolds(m)
      PROVE  UNCHANGED <<balance, sale, cost>>
  BY <1>2 DEF ReleaseStaleHolds
<1> QED BY <1>1, <1>2, BuyKeepsBooks, IdleKeepsBooks DEF VoucherStep

LEMMA CallStepKeepsBooks ==
  ASSUME BooksInv, CallStep, NEW q \in Members
  PROVE  Books(q)'
<1>1. UNCHANGED <<balance, sale, cost>>
  BY DEF CallStep, Find, CheckOtherHolds, Write, GiveUp, rewards
<1> QED BY <1>1, IdleKeepsBooks

(* No step gives a bonus to a sale not begun or a price to an absent voucher. *)
LEMMA StepKeepsUntouched ==
  ASSUME SalesInv, Untouched, [Next]_vars
  PROVE  Untouched'
<1> USE DEF Untouched
<1>1. sale \in [Sales -> Sale] /\ RewardsOK
  BY Parts DEF SaleTableOK
<1>2. ASSUME NEW t \in Sales, NEW r, r.state # "none", sale' = [sale EXCEPT ![t] = r]
      PROVE  \A u \in Sales : sale'[u].state = "none" => sale'[u].bonus = 0
  BY <1>1, <1>2
<1>3. CASE SaleStep
  <2>1. \A v \in Vouchers : status'[v] = "absent" => cost'[v] = 0
    BY <1>1, <1>3 DEF SaleStep, Earn, Authorize, CaptureSale, VoidSale, ConfirmHolds,
                      ReturnHolds, rewards, RewardsOK
  <2>2. ASSUME NEW t \in Sales, NEW end \in {"captured", "voided"}, Claims(t, end)
        PROVE  \A u \in Sales : sale'[u].state = "none" => sale'[u].bonus = 0
    <3> DEFINE r == [sale[t] EXCEPT !.state = end]
    <3>1. r.state # "none" /\ sale' = [sale EXCEPT ![t] = r]
      BY <1>1, <2>2 DEF Claims, Sale
    <3> HIDE DEF r
    <3> QED BY <1>2, <3>1
  <2>3. \A u \in Sales : sale'[u].state = "none" => sale'[u].bonus = 0
    BY <1>1, <1>3, <2>2 DEF SaleStep, Earn, Authorize, CaptureSale, VoidSale
  <2> QED BY <2>1, <2>3
<1>4. CASE VoucherStep
  <2>1. sale' = sale
    BY <1>4 DEF VoucherStep, IssueVoucher, BuyVoucher, HoldLapses, VoucherExpires,
                ReleaseStaleHolds
  <2>2. \A v \in Vouchers : status'[v] = "absent" => cost'[v] = 0
    BY <1>1, <1>4 DEF VoucherStep, IssueVoucher, BuyVoucher, HoldLapses, VoucherExpires,
                      ReleaseStaleHolds, RewardsOK
  <2> QED BY <2>1, <2>2
<1>5. CASE CallStep
  <2>1. sale' = sale
    BY <1>5 DEF CallStep, Find, CheckOtherHolds, Write, GiveUp
  <2>2. \A v \in Vouchers : status'[v] = "absent" => cost'[v] = 0
    BY <1>1, <1>5 DEF CallStep, Find, CheckOtherHolds, Write, GiveUp, rewards, RewardsOK
  <2> QED BY <2>1, <2>2
<1>6. CASE UNCHANGED vars
  BY <1>6 DEF vars
<1> QED BY <1>3, <1>4, <1>5, <1>6 DEF Next

LEMMA InitKeepsBooks == Init => BooksInv
<1> SUFFICES ASSUME Init PROVE BooksInv
  OBVIOUS
<1>1. Untouched
  BY DEF Init, Untouched, NoSale
<1>2. ASSUME NEW m \in Members PROVE Books(m)
  <2>1. MaxPoints \in Nat /\ MaxBonus \in Nat
    BY TillAssumption
  <2>2. ASSUME NEW intent, NEW state \in {"authorized", "captured"}
        PROVE  SumOf(PointsIn(m, intent, state)) = 0
    <3>1. PointsIn(m, intent, state) \in [Sales -> {0}]
      BY DEF Init, PointsIn, NoSale
    <3> QED BY <2>1, <3>1, SumOfZeros
  <2>3. BonusSum(m) = 0
    <3>1. BonusPoints(m) \in [Sales -> {0}]
      BY DEF Init, BonusPoints, NoSale
    <3> QED BY <2>1, <3>1, SumOfZeros DEF BonusSum
  <2>4. BoughtSum(m) = 0
    <3>1. PointsOnVouchers(m) \in [Vouchers -> {0}]
      BY DEF Init, PointsOnVouchers
    <3> QED BY <2>1, <3>1, SumOfZeros DEF BoughtSum
  <2>5. balance[m] = NewBalance
    BY DEF Init
  <2> QED BY <2>2, <2>3, <2>4, <2>5 DEF Books, HeldSum, EarnedSum, SpentSum, NewBalance
<1> QED BY <1>1, <1>2, InitIsSafe DEF BooksInv

LEMMA StepKeepsBooks == BooksInv /\ [Next]_vars => BooksInv'
<1> SUFFICES ASSUME BooksInv, [Next]_vars PROVE BooksInv'
  OBVIOUS
<1>1. SalesInv'
  BY StepIsSafe DEF BooksInv
<1>2. Untouched'
  BY StepKeepsUntouched DEF BooksInv
<1>3. ASSUME NEW m \in Members PROVE Books(m)'
  <2>1. CASE SaleStep
    BY <2>1, SaleStepKeepsBooks
  <2>2. CASE VoucherStep
    BY <2>2, VoucherStepKeepsBooks
  <2>3. CASE CallStep
    BY <2>3, CallStepKeepsBooks
  <2>4. CASE UNCHANGED vars
    <3>1. UNCHANGED <<balance, sale, cost>>
      BY <2>4 DEF vars
    <3> QED BY <3>1, IdleKeepsBooks
  <2> QED BY <2>1, <2>2, <2>3, <2>4 DEF Next
<1> QED BY <1>1, <1>2, <1>3 DEF BooksInv

(* Whatever the tills, the app and the console interleave, each balance is  *)
(* explained by the sales and the vouchers of its member, and the points on *)
(* hold are exactly those of the sales still authorized.                    *)
THEOREM SalesAlwaysExplainBalance == Spec => []SalesExplainBalance
<1>1. BooksInv => SalesExplainBalance
  BY BooksExplain DEF BooksInv, SalesExplainBalance
<1> QED BY <1>1, InitKeepsBooks, StepKeepsBooks, PTL DEF Spec
-----------------------------------------------------------------------------
(* What a call relies on, between its check and its write, while no other   *)
(* call that gives the voucher is open: it was not given, and no sale holds *)
(* it.  A cancellation may have voided it meanwhile.                        *)
NotGiven(v) == uses[v] = 0 /\ ~ LiveHold(v)

\* A call that will hold or use a voucher.
Giving(c, v) == call[c].voucher = v /\ call[c].kind \in Gives

OverlapsAreContested ==
  \A c, d \in Calls, v \in Vouchers :
    Giving(c, v) /\ Giving(d, v) /\ c # d => v \in contested

\* A reward that was given stays redeemed, or is cancelled.
GivenAtMostOnce ==
  \A v \in Vouchers \ contested :
    uses[v] = 0 \/ (uses[v] = 1 /\ status[v] \in {"redeemed", "void"})

CallsRely ==
  \A c \in Calls, v \in Vouchers \ contested : Giving(c, v) => NotGiven(v)

GivenInv == OverlapsAreContested /\ GivenAtMostOnce /\ CallsRely

(* What every step but a call's write does to a voucher: a held one may be  *)
(* given, and what a call relies on stays so.                               *)
MovesOn(v) ==
  /\ \/ uses'[v] = uses[v] /\ (status[v] \in {"redeemed", "void"} => status'[v] = status[v])
     \/ LiveHold(v) /\ uses'[v] = OneMore(uses[v]) /\ status'[v] = "redeemed"
  /\ NotGiven(v) => NotGiven(v)'

LEMMA MovedOnStaysGiven ==
  ASSUME SalesInv, GivenInv, \A v \in Vouchers : MovesOn(v), UNCHANGED <<call, contested>>
  PROVE  GivenInv'
<1>1. OverlapsAreContested'
  BY DEF GivenInv, OverlapsAreContested, Giving
<1>2. GivenAtMostOnce'
  BY DEF GivenInv, GivenAtMostOnce, MovesOn, OneMore, LiveHold
<1>3. CallsRely'
  BY DEF GivenInv, CallsRely, Giving, MovesOn
<1> QED BY <1>1, <1>2, <1>3 DEF GivenInv

LEMMA HoldsMoveOn ==
  ASSUME SalesInv, NEW m, NEW gifts \in SUBSET Vouchers, NEW v \in Vouchers,
         \A g \in gifts : status[g] = "absent",
         ConfirmHolds(m, gifts) \/ ReturnHolds(m)
  PROVE  MovesOn(v)
<1>1. CASE ConfirmHolds(m, gifts)
  BY <1>1 DEF ConfirmHolds, HeldBy, LiveHold, MovesOn, NotGiven
<1>2. CASE ReturnHolds(m)
  BY <1>2 DEF ReturnHolds, MovesOn, NotGiven, LiveHold
<1> QED BY <1>1, <1>2

LEMMA CallsRest ==
  ASSUME SaleStep \/ VoucherStep
  PROVE  UNCHANGED <<call, contested>>
BY DEF SaleStep, VoucherStep, Earn, Authorize, CaptureSale, VoidSale,
       IssueVoucher, BuyVoucher, HoldLapses, VoucherExpires, ReleaseStaleHolds

LEMMA SaleStepMovesOn ==
  ASSUME SalesInv, SaleStep, NEW v \in Vouchers
  PROVE  MovesOn(v)
<1>1. ASSUME NEW t \in Sales, NEW m \in Members, NEW n \in 0..MaxPoints,
             NEW done \in 0..MaxDone, NEW bonus \in 0..MaxBonus,
             NEW gifts \in SUBSET Vouchers, Earn(t, m, n, done, bonus, gifts)
      PROVE  MovesOn(v)
  <2>1. ConfirmHolds(m, gifts) /\ \A g \in gifts : status[g] = "absent"
    BY <1>1 DEF Earn
  <2> QED BY <2>1, HoldsMoveOn
<1>2. ASSUME NEW t \in Sales, NEW m \in Members, NEW n \in 0..MaxPoints, Authorize(t, m, n)
      PROVE  MovesOn(v)
  BY <1>2 DEF Authorize, rewards, MovesOn, NotGiven, LiveHold
<1>3. ASSUME NEW t \in Sales, CaptureSale(t) PROVE MovesOn(v)
  BY <1>3, HoldsMoveOn DEF CaptureSale
<1>4. ASSUME NEW t \in Sales, VoidSale(t) PROVE MovesOn(v)
  <2>1. ReturnHolds(sale[t].member)
    BY <1>4 DEF VoidSale
  <2>2. {} \in SUBSET Vouchers /\ \A g \in {} : status[g] = "absent"
    OBVIOUS
  <2> QED BY <2>1, <2>2, HoldsMoveOn
<1> QED BY <1>1, <1>2, <1>3, <1>4 DEF SaleStep

LEMMA VoucherStepMovesOn ==
  ASSUME SalesInv, VoucherStep, NEW v \in Vouchers
  PROVE  MovesOn(v)
<1> USE DEF MovesOn, NotGiven, LiveHold
<1>1. status \in [Vouchers -> {"absent", "issued", "reserved", "redeemed", "void"}]
  BY Parts DEF RewardsOK
<1>2. ASSUME NEW w \in Vouchers, IssueVoucher(w) PROVE MovesOn(v)
  BY <1>1, <1>2 DEF IssueVoucher
<1>3. ASSUME NEW w \in Vouchers, NEW n \in 0..MaxPoints, BuyVoucher(w, n)
      PROVE  MovesOn(v)
  BY <1>1, <1>3 DEF BuyVoucher
<1>4. ASSUME NEW w \in Vouchers, HoldLapses(w) \/ VoucherExpires(w)
      PROVE  MovesOn(v)
  BY <1>1, <1>4 DEF HoldLapses, VoucherExpires
<1>5. ASSUME NEW m \in Members, ReleaseStaleHolds(m) PROVE MovesOn(v)
  BY <1>1, <1>5 DEF ReleaseStaleHolds
<1> QED BY <1>2, <1>3, <1>4, <1>5 DEF VoucherStep

-----------------------------------------------------------------------------
(* A call that opens on a voucher no other call gives has just read that it *)
(* was not given; if another does, the voucher is contested from here on.   *)
LEMMA FindKeepsGiven ==
  ASSUME SalesInv, GivenInv,
         NEW c \in Calls, NEW kind \in {"hold", "use", "cancel"}, NEW v \in Vouchers,
         Find(c, kind, v)
  PROVE  GivenInv'
<1>1. call \in [Calls -> Call]
  BY Parts DEF CallsOK
<1>2. /\ UNCHANGED <<status, recent, uses>>
      /\ contested' = IF Contends(kind, v) THEN contested \cup {v} ELSE contested
  BY DEF Find, rewards
<1>3. /\ call'[c].kind = kind /\ call'[c].voucher = v
      /\ \A d \in Calls \ {c} : call'[d] = call[d]
  BY <1>1 DEF Find
<1>4. \A d \in Calls \ {c}, w \in Vouchers : Giving(d, w)' <=> Giving(d, w)
  BY <1>3 DEF Giving
<1>5. \A w \in Vouchers : Giving(c, w)' <=> w = v /\ kind \in Gives
  BY <1>3 DEF Giving
<1>6. OverlapsAreContested'
  <2> SUFFICES ASSUME NEW d \in Calls, NEW e \in Calls, NEW w \in Vouchers,
                      Giving(d, w)', Giving(e, w)', d # e
               PROVE  w \in contested'
    BY DEF OverlapsAreContested
  <2>1. CASE d # c /\ e # c
    BY <1>2, <1>4, <2>1 DEF GivenInv, OverlapsAreContested
  <2>2. ASSUME NEW x \in Calls, x # c, Giving(x, w), w = v, kind \in Gives
        PROVE  w \in contested'
    BY <1>2, <2>2 DEF Contends, Giving
  <2> QED BY <1>4, <1>5, <2>1, <2>2
<1>7. GivenAtMostOnce'
  BY <1>2 DEF GivenInv, GivenAtMostOnce
<1>8. v \notin contested /\ kind \in Gives => NotGiven(v)
  BY DEF Find, Acceptable, StatusAllows, Gives, NotGiven, LiveHold, GivenInv, GivenAtMostOnce
<1>9. CallsRely'
  BY <1>2, <1>4, <1>5, <1>8 DEF GivenInv, CallsRely, NotGiven, LiveHold
<1> QED BY <1>6, <1>7, <1>9 DEF GivenInv

(* A call that moves on or ends without writing relies on no more than it   *)
(* did.                                                                     *)
LEMMA QuietCallKeepsGiven ==
  ASSUME SalesInv, GivenInv, NEW c \in Calls, NEW x,
         call' = [call EXCEPT ![c] = x],
         x = NoCall \/ (x.kind = call[c].kind /\ x.voucher = call[c].voucher),
         UNCHANGED <<status, recent, uses, contested>>
  PROVE  GivenInv'
<1>1. \A d \in Calls, v \in Vouchers : Giving(d, v)' => Giving(d, v)
  <2>1. call \in [Calls -> Call]
    BY Parts DEF CallsOK
  <2>2. NoCall.voucher = None /\ None \notin Vouchers
    BY TillAssumption DEF NoCall
  <2> QED BY <2>1, <2>2 DEF Giving
<1> QED BY <1>1 DEF GivenInv, OverlapsAreContested, GivenAtMostOnce, CallsRely, NotGiven,
                    LiveHold

(* The write of a call that gives an uncontested voucher is the only one:   *)
(* no other such call is open on it, so none relies on what it changes.     *)
LEMMA WriteKeepsGiven ==
  ASSUME SalesInv, GivenInv, NEW c \in Calls, Write(c)
  PROVE  GivenInv'
<1> DEFINE v == call[c].voucher
           kind == call[c].kind
<1>1. call \in [Calls -> Call] /\ RewardsOK /\ v \in Vouchers
  BY Parts DEF CallsOK, Write
<1>2. call' = [call EXCEPT ![c] = NoCall] /\ contested' = contested
  BY DEF Write
<1>3. \A d \in Calls, w \in Vouchers : Giving(d, w)' => Giving(d, w) /\ d # c
  <2>1. NoCall.voucher = None /\ None \notin Vouchers
    BY TillAssumption DEF NoCall
  <2> QED BY <1>1, <1>2, <2>1 DEF Giving
<1>4. OverlapsAreContested'
  BY <1>2, <1>3 DEF GivenInv, OverlapsAreContested
<1>5. kind \in Gives /\ v \notin contested => uses[v] = 0
  BY <1>1 DEF GivenInv, CallsRely, Giving, NotGiven
<1>6. ASSUME kind \in Gives, NEW w \in Vouchers \ contested, w = v, NEW d \in Calls
      PROVE  ~ Giving(d, w)'
  <2>1. Giving(c, w)
    BY <1>6 DEF Giving
  <2> QED BY <1>3, <2>1 DEF GivenInv, OverlapsAreContested
<1>7. \/ /\ kind = "hold" /\ uses' = uses /\ status' = [status EXCEPT ![v] = "reserved"]
         /\ recent' = recent \cup {v}
      \/ /\ kind = "use" /\ uses' = [uses EXCEPT ![v] = OneMore(@)]
         /\ status' = [status EXCEPT ![v] = "redeemed"] /\ recent' = recent
      \/ /\ kind = "cancel" /\ uses' = uses /\ status' = [status EXCEPT ![v] = "void"]
         /\ recent' = recent \ {v}
  BY DEF Write
<1> HIDE DEF v, kind
<1>8. GivenAtMostOnce'
  BY <1>1, <1>2, <1>5, <1>7 DEF GivenInv, GivenAtMostOnce, RewardsOK, Gives, OneMore
<1>9. CallsRely'
  <2> SUFFICES ASSUME NEW d \in Calls, NEW w \in Vouchers \ contested, Giving(d, w)'
               PROVE  NotGiven(w)'
    BY <1>2 DEF CallsRely
  <2>1. NotGiven(w)
    BY <1>3 DEF GivenInv, CallsRely
  <2>2. CASE w # v
    BY <1>1, <1>7, <2>1, <2>2 DEF NotGiven, LiveHold, RewardsOK
  <2>3. CASE w = v
    <3>1. kind = "cancel"
      BY <1>6, <1>7, <2>3 DEF Gives
    <3> QED BY <1>1, <1>7, <2>1, <2>3, <3>1 DEF NotGiven, LiveHold, RewardsOK
  <2> QED BY <2>2, <2>3
<1> QED BY <1>4, <1>8, <1>9 DEF GivenInv

LEMMA StepKeepsGiven ==
  ASSUME SalesInv, GivenInv, [Next]_vars
  PROVE  GivenInv'
<1>1. CASE SaleStep \/ VoucherStep
  <2>1. \A v \in Vouchers : MovesOn(v)
    BY <1>1, SaleStepMovesOn, VoucherStepMovesOn
  <2> QED BY <1>1, <2>1, CallsRest, MovedOnStaysGiven
<1>2. CASE CallStep
  <2>1. ASSUME NEW c \in Calls, CheckOtherHolds(c) PROVE GivenInv'
    <3> DEFINE x == IF NoOtherHold(call[c].voucher) THEN [call[c] EXCEPT !.pc = "checked"]
                    ELSE NoCall
    <3>1. call[c] \in Call
      BY Parts DEF CallsOK
    <3>2. x = NoCall \/ (x.kind = call[c].kind /\ x.voucher = call[c].voucher)
      BY <3>1 DEF Call
    <3>3. call' = [call EXCEPT ![c] = x] /\ UNCHANGED <<status, recent, uses, contested>>
      BY <2>1 DEF CheckOtherHolds, rewards
    <3> HIDE DEF x
    <3> QED BY <3>2, <3>3, QuietCallKeepsGiven
  <2>2. ASSUME NEW c \in Calls, GiveUp(c) PROVE GivenInv'
    <3>1. call' = [call EXCEPT ![c] = NoCall] /\ UNCHANGED <<status, recent, uses, contested>>
      BY <2>2 DEF GiveUp, rewards
    <3> QED BY <3>1, QuietCallKeepsGiven
  <2> QED BY <1>2, <2>1, <2>2, FindKeepsGiven, WriteKeepsGiven DEF CallStep
<1>3. CASE UNCHANGED vars
  BY <1>3 DEF vars, GivenInv, OverlapsAreContested, Giving, GivenAtMostOnce, CallsRely,
              NotGiven, LiveHold
<1> QED BY <1>1, <1>2, <1>3 DEF Next

(* However many calls are open, a reward that two calls which hold or use   *)
(* it were never open on together is given at most once, whatever the tills *)
(* capture and void, and whatever is cancelled, between a call's check and  *)
(* its write.                                                               *)
THEOREM RewardsAreGivenOnce == Spec => []UncontestedGivenOnce
<1>1. Init => GivenInv
  <2>1. None \notin Vouchers
    BY TillAssumption
  <2> QED BY <2>1 DEF Init, NoCall, GivenInv, OverlapsAreContested, Giving,
                       GivenAtMostOnce, CallsRely
<1>2. SalesInv /\ GivenInv /\ [Next]_vars => GivenInv'
  BY StepKeepsGiven
<1>3. GivenInv => UncontestedGivenOnce
  BY DEF GivenInv, GivenAtMostOnce, UncontestedGivenOnce
<1> QED BY <1>1, <1>2, <1>3, SalesAreSafe, PTL DEF Spec
=============================================================================
