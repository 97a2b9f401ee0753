--------------------------- MODULE TerminalSales ---------------------------
(***************************************************************************)
(* The till of one brand: terminal.service.ts (earn, redeem, capture, void *)
(* and the rewards applied to a bill), with the two other callers that     *)
(* change a voucher, the customer app (loyalty.service.ts redeemVoucher)   *)
(* and the platform console (superadmin.service.ts cancelVoucher).         *)
(*                                                                         *)
(* A sale claims its state with a guarded UPDATE before it touches the     *)
(* ledger, so each handler on a sale is one atomic step.  The handlers on  *)
(* a voucher first read it, check it, and then write it by id: a call is   *)
(* such a transaction, and what it checked may be stale when it writes.    *)
(***************************************************************************)
EXTENDS Balances, Sums

CONSTANTS Members,    \* memberships, one points_liability account each
          Sales,      \* idempotency keys of the tills, one terminal_transaction each
          Vouchers,   \* reward vouchers that may ever be issued
          Owner,      \* the membership a voucher belongs to
          Calls,      \* read-check-write transactions on vouchers open at once
          MaxPoints,  \* largest number of points in one sale
          MaxDone,    \* most challenges one earn completes
          MaxBonus,   \* largest number of points they add to it
          None

ASSUME TillAssumption ==
  /\ IsFiniteSet(Sales) /\ IsFiniteSet(Vouchers)
  /\ MaxPoints \in Nat /\ MaxDone \in Nat /\ MaxBonus \in Nat
  /\ Owner \in [Vouchers -> Members]
  /\ None \notin Members /\ None \notin Vouchers

VARIABLES
  balance,   \* account_balance of each membership
  sale,      \* the table terminal_transaction
  status,    \* the table voucher: status,
  recent,    \*   whether reserved_at is within VOUCHER_HOLD_MS,
  expired,   \*   whether expires_at has passed,
  cost,      \*   and points_spent
  call,      \* the open calls on vouchers
  events,    \* how many rows of aggregate 'points' the outbox holds for each sale
  \* What happened, in no column of the database; only properties read it:
  uses,      \* how often each reward was given: never, once, or more often
  contested  \* rewards that two calls which give one were open on at once

rewards == <<status, recent, expired, cost, uses>>

vars == <<balance, sale, status, recent, expired, cost, call, events, uses, contested>>

NoSale ==
  [state |-> "none", intent |-> None, member |-> None, points |-> 0, done |-> 0, bonus |-> 0]

\* The row of a sale, the challenges it completed and what these paid.
Sale ==
  [state : {"none", "authorized", "captured", "voided"},
   intent : {"earn", "redeem", None},
   member : Members \cup {None},
   points : 0..MaxPoints,
   done : 0..MaxDone,
   bonus : 0..MaxBonus]

NoCall == [pc |-> "idle", kind |-> None, voucher |-> None]

Call ==
  [pc : {"idle", "found", "checked"},
   kind : {"hold", "use", "cancel", None},
   voucher : Vouchers \cup {None}]

Init ==
  /\ balance = [m \in Members |-> NewBalance]
  /\ sale = [t \in Sales |-> NoSale]
  /\ status = [v \in Vouchers |-> "absent"]
  /\ recent = {}
  /\ expired = {}
  /\ cost = [v \in Vouchers |-> 0]
  /\ call = [c \in Calls |-> NoCall]
  /\ events = [t \in Sales |-> 0]
  /\ uses = [v \in Vouchers |-> 0]
  /\ contested = {}
-----------------------------------------------------------------------------
\* One more use of a reward: what comes after two is not told apart.
OneMore(n) == IF n = 0 THEN 1 ELSE 2

\* A hold younger than fifteen minutes.
LiveHold(v) == status[v] = "reserved" /\ v \in recent

HeldBy(m) == {v \in Vouchers : Owner[v] = m /\ LiveHold(v)}

\* confirmVoucherHolds: the rewards held for the member are now spent.  The
\* gifts are vouchers the same transaction issues.
ConfirmHolds(m, gifts) ==
  /\ status' = [v \in Vouchers |->
       IF v \in HeldBy(m) THEN "redeemed"
       ELSE IF v \in gifts THEN "issued" ELSE status[v]]
  /\ uses' = [v \in Vouchers |-> IF v \in HeldBy(m) THEN OneMore(uses[v]) ELSE uses[v]]
  /\ UNCHANGED <<recent, expired, cost>>

\* voidTxn: every reward held for the member goes back to them, old holds too.
ReturnHolds(m) ==
  LET returned == {v \in Vouchers : Owner[v] = m /\ status[v] = "reserved"}
  IN /\ status' = [v \in Vouchers |-> IF v \in returned THEN "issued" ELSE status[v]]
     /\ recent' = recent \ returned
     /\ UNCHANGED <<expired, cost, uses>>

\* Mutant of Earn: an event also for a sale that moved no points.
EarnAlwaysEmits(t, m, n, done, bonus, gifts) ==
  /\ sale[t].state = "none"
  /\ bonus > 0 => done > 0
  /\ Cardinality(gifts) <= done
  /\ \A v \in gifts : status[v] = "absent" /\ Owner[v] = m
  /\ sale' = [sale EXCEPT ![t] =
       [state |-> "captured", intent |-> "earn", member |-> m,
        points |-> n, done |-> done, bonus |-> bonus]]
  /\ balance' = [balance EXCEPT ![m] = Credit(@, n + bonus)]
  /\ ConfirmHolds(m, gifts)
  /\ events' = [events EXCEPT ![t] = @ + 1 + done]
  /\ UNCHANGED <<call, contested>>

(* transaction, intent earn: one step from nothing to captured.  An earn    *)
(* that the rules value at zero points still completes the sale, and still  *)
(* may complete challenges (onEarnWithTx), each with a row of its own in    *)
(* the outbox and perhaps some points and a voucher.                        *)
Earn(t, m, n, done, bonus, gifts) ==
  /\ sale[t].state = "none"
  /\ bonus > 0 => done > 0
  /\ Cardinality(gifts) <= done
  /\ \A v \in gifts : status[v] = "absent" /\ Owner[v] = m
  /\ sale' = [sale EXCEPT ![t] =
       [state |-> "captured", intent |-> "earn", member |-> m,
        points |-> n, done |-> done, bonus |-> bonus]]
  /\ balance' = [balance EXCEPT ![m] = Credit(@, n + bonus)]
  /\ ConfirmHolds(m, gifts)
  /\ events' = [events EXCEPT ![t] = @ + (IF n > 0 THEN 1 ELSE 0) + done]
  /\ UNCHANGED <<call, contested>>

(* transaction, intent redeem: hold the points until the sale is captured.  *)
Authorize(t, m, n) ==
  /\ sale[t].state = "none"
  /\ n > 0
  /\ HasAvailable(balance[m], n)
  /\ sale' = [sale EXCEPT ![t] =
       [state |-> "authorized", intent |-> "redeem", member |-> m,
        points |-> n, done |-> 0, bonus |-> 0]]
  /\ balance' = [balance EXCEPT ![m] = Hold(@, n)]
  /\ UNCHANGED <<rewards, call, events, contested>>

\* Mutant of Claims: the state is checked when read, not when written.
ClaimsFinished(t, next) ==
  /\ sale[t].state \in {"authorized", "captured"}
  /\ sale' = [sale EXCEPT ![t].state = next]

\* updateMany where state = 'authorized', and exactly one row must match.
Claims(t, next) ==
  /\ sale[t].state = "authorized"
  /\ sale' = [sale EXCEPT ![t].state = next]

CaptureSale(t) ==
  LET m == sale[t].member
      n == sale[t].points
  IN /\ Claims(t, "captured")
     /\ HasPending(balance[m], n)
     /\ balance' = [balance EXCEPT ![m] = Capture(@, n)]
     /\ ConfirmHolds(m, {})
     /\ events' = [events EXCEPT ![t] = @ + 1]
     /\ UNCHANGED <<call, contested>>

VoidSale(t) ==
  LET m == sale[t].member
      n == sale[t].points
  IN /\ Claims(t, "voided")
     /\ HasPending(balance[m], n)
     /\ balance' = [balance EXCEPT ![m] = Release(@, n)]
     /\ ReturnHolds(m)
     /\ UNCHANGED <<call, events, contested>>
-----------------------------------------------------------------------------
(* The platform console issues a voucher as a gift.                         *)
IssueVoucher(v) ==
  /\ status[v] = "absent"
  /\ status' = [status EXCEPT ![v] = "issued"]
  /\ UNCHANGED <<balance, sale, recent, expired, cost, call, events, uses, contested>>

(* The catalog: points are authorized and captured in one transaction, and  *)
(* the voucher they bought is issued with it.                               *)
BuyVoucher(v, n) ==
  LET m == Owner[v]
  IN /\ status[v] = "absent"
     /\ n > 0
     /\ HasAvailable(balance[m], n)
     /\ balance' = [balance EXCEPT ![m] = Capture(Hold(@, n), n)]
     /\ status' = [status EXCEPT ![v] = "issued"]
     /\ cost' = [cost EXCEPT ![v] = n]
     /\ UNCHANGED <<sale, recent, expired, call, events, uses, contested>>

\* memberVouchers: holds that lapsed go back to the member first.
ReleaseStaleHolds(m) ==
  /\ status' = [v \in Vouchers |->
       IF Owner[v] = m /\ status[v] = "reserved" /\ v \notin recent
       THEN "issued" ELSE status[v]]
  /\ UNCHANGED <<balance, sale, recent, expired, cost, call, events, uses, contested>>

\* Mutant of StatusAllows: only a cancelled voucher is refused.
StatusNotVoid(kind, v) == status[v] \notin {"absent", "void"}

\* The status a handler demands of the voucher it read.
StatusAllows(kind, v) ==
  \/ status[v] = "issued"
  \/ status[v] = "reserved" /\ kind = "cancel"
  \/ status[v] = "reserved" /\ kind = "hold" /\ v \notin recent

\* The calls that end in the customer getting the reward.
Gives == {"hold", "use"}

\* Another call that gives the reward is under way.
Contends(kind, v) ==
  kind \in Gives /\ \E d \in Calls : call[d].voucher = v /\ call[d].kind \in Gives

\* Cancelling alone does not look at expires_at.
Acceptable(kind, v) == StatusAllows(kind, v) /\ (v \in expired => kind = "cancel")

Find(c, kind, v) ==
  /\ call[c].pc = "idle"
  /\ Acceptable(kind, v)
  /\ call' = [call EXCEPT ![c] =
       [pc |-> IF kind = "hold" THEN "found" ELSE "checked", kind |-> kind, voucher |-> v]]
  /\ contested' = IF Contends(kind, v) THEN contested \cup {v} ELSE contested
  /\ UNCHANGED <<balance, sale, rewards, events>>

\* "Rewards don't stack": no other live hold of the member may exist.
NoOtherHold(v) == HeldBy(Owner[v]) \subseteq {v}

CheckOtherHolds(c) ==
  /\ call[c].pc = "found"
  /\ call' = [call EXCEPT ![c] =
       IF NoOtherHold(@.voucher) THEN [@ EXCEPT !.pc = "checked"] ELSE NoCall]
  /\ UNCHANGED <<balance, sale, rewards, events, contested>>

\* voucher.update where id: nothing re-checks what Find read.
Write(c) ==
  LET v == call[c].voucher
  IN /\ call[c].pc = "checked"
     /\ call' = [call EXCEPT ![c] = NoCall]
     /\ \/ /\ call[c].kind = "hold"
           /\ status' = [status EXCEPT ![v] = "reserved"]
           /\ recent' = recent \cup {v}
           /\ UNCHANGED uses
        \/ /\ call[c].kind = "use"
           /\ status' = [status EXCEPT ![v] = "redeemed"]
           /\ uses' = [uses EXCEPT ![v] = OneMore(@)]
           /\ UNCHANGED recent
        \/ /\ call[c].kind = "cancel"
           /\ status' = [status EXCEPT ![v] = "void"]
           /\ recent' = recent \ {v}
           /\ UNCHANGED uses
     /\ UNCHANGED <<balance, sale, expired, cost, events, contested>>

\* The call's process dies, or its transaction times out: a rollback.
GiveUp(c) ==
  /\ call[c].pc # "idle"
  /\ call' = [call EXCEPT ![c] = NoCall]
  /\ UNCHANGED <<balance, sale, rewards, events, contested>>

\* Fifteen minutes pass since the hold.
HoldLapses(v) ==
  /\ LiveHold(v)
  /\ recent' = recent \ {v}
  /\ UNCHANGED <<balance, sale, status, expired, cost, call, events, uses, contested>>

VoucherExpires(v) ==
  /\ status[v] # "absent" /\ v \notin expired
  /\ expired' = expired \cup {v}
  /\ UNCHANGED <<balance, sale, status, recent, cost, call, events, uses, contested>>

SaleStep ==
  \E t \in Sales :
    \/ \E m \in Members, n \in 0..MaxPoints :
         \/ \E done \in 0..MaxDone, bonus \in 0..MaxBonus, gifts \in SUBSET Vouchers :
              Earn(t, m, n, done, bonus, gifts)
         \/ Authorize(t, m, n)
    \/ CaptureSale(t)
    \/ VoidSale(t)

VoucherStep ==
  \/ \E v \in Vouchers :
       \/ IssueVoucher(v)
       \/ \E n \in 0..MaxPoints : BuyVoucher(v, n)
       \/ HoldLapses(v)
       \/ VoucherExpires(v)
  \/ \E m \in Members : ReleaseStaleHolds(m)

CallStep ==
  \E c \in Calls :
    \/ \E kind \in {"hold", "use", "cancel"}, v \in Vouchers : Find(c, kind, v)
    \/ CheckOtherHolds(c)
    \/ Write(c)
    \/ GiveUp(c)

Next == SaleStep \/ VoucherStep \/ CallStep

Spec == Init /\ [][Next]_vars

-----------------------------------------------------------------------------
(* Every variable holds what its table or transaction can hold.             *)
TypeOK ==
  /\ balance \in [Members -> Balance]
  /\ sale \in [Sales -> Sale]
  /\ \A t \in Sales : sale[t].state # "none" => sale[t].member \in Members
  /\ status \in [Vouchers -> {"absent", "issued", "reserved", "redeemed", "void"}]
  /\ recent \subseteq Vouchers
  /\ expired \subseteq Vouchers
  /\ cost \in [Vouchers -> 0..MaxPoints]
  /\ call \in [Calls -> Call]
  /\ \A c \in Calls : call[c].pc # "idle" => call[c].voucher \in Vouchers
  /\ events \in [Sales -> Nat]
  /\ uses \in [Vouchers -> 0..2]
  /\ contested \subseteq Vouchers

\* The points of a member's sales of one intent in one state.
PointsIn(m, intent, state) ==
  [t \in Sales |->
     IF sale[t].member = m /\ sale[t].intent = intent /\ sale[t].state = state
     THEN sale[t].points ELSE 0]

\* The points stamp cards paid a member.
BonusPoints(m) == [t \in Sales |-> IF sale[t].member = m THEN sale[t].bonus ELSE 0]

\* The points a member's vouchers were bought with.
PointsOnVouchers(m) == [v \in Vouchers |-> IF Owner[v] = m THEN cost[v] ELSE 0]

(* "What stopped the capture/void race that drove pending_debits negative": *)
(* whichever tills capture and void the sales of a member, the points held  *)
(* are those of the sales still authorized, every point credited was earned *)
(* by a captured sale or paid by a stamp card it filled, and every point    *)
(* debited was redeemed by a captured sale or bought a voucher.             *)
SalesExplain(m) ==
  /\ balance[m].pending_debits = SumOf(PointsIn(m, "redeem", "authorized"))
  /\ balance[m].posted_credits =
       SumOf(PointsIn(m, "earn", "captured")) + SumOf(BonusPoints(m))
  /\ balance[m].posted_debits =
       SumOf(PointsIn(m, "redeem", "captured")) + SumOf(PointsOnVouchers(m))

SalesExplainBalance == \A m \in Members : SalesExplain(m)

(* Tills, the app and the catalog compete for the points of one member and  *)
(* no interleaving of theirs trips the CHECK constraints on account_balance. *)
TillNeverOverdraws == \A m \in Members : RowChecks(balance[m])

(* "This fires exactly once per real sale, and never for a retry": the      *)
(* outbox holds one row for a captured sale that moved points, one for each *)
(* challenge the sale completed, also when it was worth no points, and none *)
(* for a sale that is open or voided.                                       *)
EventsMatchSales ==
  \A t \in Sales :
    events[t] = IF sale[t].state = "captured"
                THEN (IF sale[t].points > 0 THEN 1 ELSE 0) + sale[t].done
                ELSE 0

(* "A concurrent capture or void blocks on this row and then sees a         *)
(* non-authorized state, so exactly one of them proceeds": seen by the      *)
(* idempotency keys of its tills, the gateway is the one of Gateway.tla.    *)
Txn ==
  [t \in Sales |->
     IF sale[t].state = "captured" /\ sale[t].intent = "earn" THEN "earned" ELSE sale[t].state]

GW == INSTANCE Gateway WITH Keys <- Sales, txn <- Txn

ImplementsGateway == GW!Spec

(* "This voucher was already used": no reward is given twice.  It fails     *)
(* when two calls that hold or use the reward are open together, for both   *)
(* pass that check before either writes.                                    *)
RewardGivenOnce == \A v \in Vouchers : uses[v] <= 1

(* A reward is given at most once unless two calls that hold or use it were *)
(* open together: cancellations, the tills' captures and voids, lapsing     *)
(* holds and calls on it one after another may interleave in any order.     *)
UncontestedGivenOnce == \A v \in Vouchers \ contested : uses[v] <= 1
=============================================================================
