----------------------------- MODULE Conversion -----------------------------
(***************************************************************************)
(* Converting merchant points into a partner's points: conversion.service  *)
(* convert(), and the merchant's prepaid allowance it draws on, which      *)
(* partnership.service.ts funds and tops up.                               *)
(*                                                                         *)
(* A conversion is one transaction: checks, then the hold on the points,   *)
(* the decrement of the allowance and the row, then the partner is called  *)
(* and the transaction ends.  From the hold on it has the row locks of the *)
(* member's balance and of the allowance, so its writes are applied at its *)
(* end; what it checked before that may be stale.  The partner answers by  *)
(* the interface of partner-connector.ts, which is all there is of it.     *)
(***************************************************************************)
EXTENDS Balances, Sums

CONSTANTS Members,
          Keys,       \* idempotency keys of conversions, and their rows
          Sessions,   \* conversions that may be in progress at once
          Topups,     \* allowance_topup_request rows
          Reviews,    \* calls of the platform console on top-ups at once
          MaxPoints,  \* most points in one conversion
          RatioBps,   \* partner points per merchant point, in 1/10000
          UnitCost,   \* allowance one partner point costs, in minor units
          TopupAmount,
          DailyLimit, \* maxConversionPerDay, 0 for none; the model is one day
          MaxFunds,   \* bound on what is credited to a member or the allowance
          MaxCredits, \* bound on how often one top-up is credited
          None

ASSUME ConversionAssumption ==
  /\ {MaxPoints, RatioBps, UnitCost, TopupAmount, DailyLimit, MaxFunds, MaxCredits} \subseteq Nat
  /\ IsFiniteSet(Keys) /\ IsFiniteSet(Topups)
  /\ None \notin Members \cup Keys \cup Topups

VARIABLES
  balance,   \* account_balance of each member
  allowance, \* allowance_wallet.balance_minor: no CHECK constraint bounds it
  funded,    \* all that fundAllowance ever credited
  row,       \* the table conversion, by idempotency key
  credited,  \* keys for which the partner credited its points
  session,   \* the conversions in progress
  topup,     \* allowance_topup_request.status
  paidIn,    \* how often each request was credited to the allowance
  review,    \* the console calls in progress
  contested, \* top-ups of which a confirmation overlapped another console call
  overlapped \* pairs of members whose conversions were in progress at once

conversions == <<row, credited, session, overlapped>>
topups == <<topup, paidIn, review, contested>>
vars == <<balance, allowance, funded, conversions, topups>>

NoRow == [status |-> "none", member |-> None, points |-> 0]
Idle == [pc |-> "idle", key |-> None, member |-> None, points |-> 0]
NoReview == [pc |-> "idle", topup |-> None]

Init ==
  /\ balance = [m \in Members |-> NewBalance]
  /\ allowance = 0
  /\ funded = 0
  /\ row = [k \in Keys |-> NoRow]
  /\ credited = {}
  /\ session = [s \in Sessions |-> Idle]
  /\ topup = [q \in Topups |-> "absent"]
  /\ paidIn = [q \in Topups |-> 0]
  /\ review = [c \in Reviews |-> NoReview]
  /\ contested = {}
  /\ overlapped = {}
-----------------------------------------------------------------------------
PartnerPoints(n) == (n * RatioBps) \div 10000
Cost(n) == PartnerPoints(n) * UnitCost

\* Sessions that hold row locks: those past their hold.
Locking == {s \in Sessions : session[s].pc \in {"held", "credited", "refused"}}
AllowanceUnlocked == Locking = {}
MemberUnlocked(m) == \A s \in Locking : session[s].member # m

Completed(m) == {k \in Keys : row[k].status = "completed" /\ row[k].member = m}
ConvertedUnder(m) == [k \in Keys |-> IF k \in Completed(m) THEN row[k].points ELSE 0]
Converted(m) == SumOf(ConvertedUnder(m))

(* The member earns points at the tills.                                    *)
Earn(m, n) ==
  /\ MemberUnlocked(m)
  /\ balance[m].posted_credits + n <= MaxFunds
  /\ balance' = [balance EXCEPT ![m] = Credit(@, n)]
  /\ UNCHANGED <<allowance, funded, conversions, topups>>

FundAllowance(n) ==
  /\ AllowanceUnlocked
  /\ funded + n <= MaxFunds
  /\ funded' = funded + n
  /\ allowance' = allowance + n
  /\ UNCHANGED <<balance, conversions, topups>>

\* Mutant of MayConvert: the daily limit is compared with the earlier conversions.
MayConvertAtLimit(k, m, n) ==
  /\ row[k].status = "none"
  /\ DailyLimit > 0 => Converted(m) <= DailyLimit
  /\ PartnerPoints(n) > 0
  /\ allowance >= Cost(n)

\* The reads of convert(): no row yet, below the daily limit, allowance enough.
MayConvert(k, m, n) ==
  /\ row[k].status = "none"
  /\ DailyLimit > 0 => Converted(m) + n <= DailyLimit
  /\ PartnerPoints(n) > 0
  /\ allowance >= Cost(n)

(* A check that fails answers the caller, with the existing row or an error. *)
Check(s, k, m, n) ==
  /\ session[s].pc = "idle"
  /\ session' = [session EXCEPT ![s] =
       IF MayConvert(k, m, n)
       THEN [pc |-> "checked", key |-> k, member |-> m, points |-> n] ELSE Idle]
  /\ overlapped' = overlapped \cup
       UNION {{<<m, session[o].member>>, <<session[o].member, m>>} :
                o \in {q \in Sessions : session[q].pc # "idle"}}
  /\ UNCHANGED <<balance, allowance, funded, row, credited, topups>>

(* authorizeRedeem, the decrement and the pending row: the unique indexes   *)
(* and the guard on the points decide, and the row locks are taken.         *)
Reserve(s) ==
  LET me == session[s]
  IN /\ me.pc = "checked"
     /\ AllowanceUnlocked /\ MemberUnlocked(me.member)
     /\ row[me.key].status = "none"
     /\ HasAvailable(balance[me.member], me.points)
     /\ session' = [session EXCEPT ![s].pc = "held"]
     /\ UNCHANGED <<balance, allowance, funded, row, credited, overlapped, topups>>

(* creditPoints: the partner may credit and answer, credit without an       *)
(* answer that arrives, or refuse.                                          *)
CallPartner(s, credits, answers) ==
  /\ session[s].pc = "held"
  /\ answers => credits
  /\ credited' = IF credits THEN credited \cup {session[s].key} ELSE credited
  /\ session' = [session EXCEPT ![s].pc = IF answers THEN "credited" ELSE "refused"]
  /\ UNCHANGED <<balance, allowance, funded, row, overlapped, topups>>

\* The transaction's row of the table conversion, as it ends.
EndAs(s, status) ==
  /\ row' = [row EXCEPT ![session[s].key] =
       [status |-> status, member |-> session[s].member, points |-> session[s].points]]
  /\ session' = [session EXCEPT ![s] = Idle]
  /\ UNCHANGED <<funded, credited, overlapped, topups>>

(* captureRedeem and commit.                                                *)
Complete(s) ==
  LET n == session[s].points
  IN /\ session[s].pc = "credited"
     /\ balance' = [balance EXCEPT ![session[s].member] = Capture(Hold(@, n), n)]
     /\ allowance' = allowance - Cost(n)
     /\ EndAs(s, "completed")

\* Mutants of Reverse: the void fails and its error is swallowed; the allowance
\* is not given back.
ReverseKeepsHold(s) ==
  /\ session[s].pc = "refused"
  /\ balance' = [balance EXCEPT ![session[s].member] = Hold(@, session[s].points)]
  /\ UNCHANGED allowance
  /\ EndAs(s, "failed")
ReverseKeepsAllowance(s) ==
  /\ session[s].pc = "refused"
  /\ allowance' = allowance - Cost(session[s].points)
  /\ UNCHANGED balance
  /\ EndAs(s, "failed")

(* The catch: voidRedeem, the allowance given back, a failed row, commit.   *)
Reverse(s) ==
  LET n == session[s].points
  IN /\ session[s].pc = "refused"
     /\ balance' = [balance EXCEPT ![session[s].member] = Release(Hold(@, n), n)]
     /\ allowance' = (allowance - Cost(n)) + Cost(n)
     /\ EndAs(s, "failed")

(* A check that no longer holds, a statement that fails, the transaction's  *)
(* time limit, or a process that stops: everything rolls back.              *)
Abort(s) ==
  /\ session[s].pc # "idle"
  /\ session' = [session EXCEPT ![s] = Idle]
  /\ UNCHANGED <<balance, allowance, funded, row, credited, overlapped, topups>>
-----------------------------------------------------------------------------
RequestTopup(q) ==
  /\ topup[q] = "absent"
  /\ topup' = [topup EXCEPT ![q] = "pending"]
  /\ UNCHANGED <<balance, allowance, funded, conversions, paidIn, review, contested>>

\* Mutant of Reviewable: a confirmed request may be confirmed again.
ReviewableAgain(act, status) == status # "absent"

\* The status each handler of the console accepts in the request it read.
Reviewable(act, status) ==
  \/ act = "invoice" /\ status = "pending"
  \/ act = "confirm" /\ status \in {"pending", "invoiced"}
  \/ act = "reject"  /\ status \in {"pending", "invoiced", "rejected"}

\* The other console calls that have read request q.
Reading(c, q) == {d \in Reviews \ {c} : review[d].pc # "idle" /\ review[d].topup = q}

ReadTopup(c, act, q) ==
  /\ review[c].pc = "idle"
  /\ Reviewable(act, topup[q])
  /\ review' = [review EXCEPT ![c] = [pc |-> act, topup |-> q]]
  /\ contested' = IF \E d \in Reading(c, q) : "confirm" \in {act, review[d].pc}
                  THEN contested \cup {q} ELSE contested
  /\ UNCHANGED <<balance, allowance, funded, conversions, topup, paidIn>>

\* The update by id: nothing re-checks the status.
WriteTopup(c, act, status) ==
  /\ review[c].pc = act
  /\ topup' = [topup EXCEPT ![review[c].topup] = status]
  /\ review' = [review EXCEPT ![c] = NoReview]
  /\ UNCHANGED <<balance, funded, conversions, contested>>

MarkTopupInvoiced(c) ==
  WriteTopup(c, "invoice", "invoiced") /\ UNCHANGED <<allowance, paidIn>>

RejectTopup(c) ==
  WriteTopup(c, "reject", "rejected") /\ UNCHANGED <<allowance, paidIn>>

ConfirmTopup(c) ==
  /\ WriteTopup(c, "confirm", "confirmed")
  /\ AllowanceUnlocked
  /\ paidIn[review[c].topup] < MaxCredits
  /\ allowance' = allowance + TopupAmount
  /\ paidIn' = [paidIn EXCEPT ![review[c].topup] = @ + 1]

AbandonReview(c) ==
  /\ review[c].pc # "idle"
  /\ review' = [review EXCEPT ![c] = NoReview]
  /\ UNCHANGED <<balance, allowance, funded, conversions, topup, paidIn, contested>>

ConversionStep ==
  \E s \in Sessions :
    \/ \E k \in Keys, m \in Members, n \in 1..MaxPoints : Check(s, k, m, n)
    \/ Reserve(s)
    \/ \E credits, answers \in BOOLEAN : CallPartner(s, credits, answers)
    \/ Complete(s)
    \/ Reverse(s)
    \/ Abort(s)

ReviewStep ==
  \/ \E q \in Topups : RequestTopup(q)
  \/ \E c \in Reviews :
       \/ \E act \in {"invoice", "confirm", "reject"}, q \in Topups : ReadTopup(c, act, q)
       \/ MarkTopupInvoiced(c)
       \/ RejectTopup(c)
       \/ ConfirmTopup(c)
       \/ AbandonReview(c)

Next ==
  \/ \E m \in Members, n \in 1..MaxFunds : Earn(m, n)
  \/ \E n \in 1..MaxFunds : FundAllowance(n)
  \/ ConversionStep
  \/ ReviewStep

Spec == Init /\ [][Next]_vars
-----------------------------------------------------------------------------
(* Every variable holds what its table or transaction can hold.             *)
TypeOK ==
  /\ balance \in [Members -> Balance]
  /\ allowance \in Int
  /\ funded \in Nat
  /\ row \in [Keys -> [status : {"none", "completed", "failed"},
                       member : Members \cup {None}, points : 0..MaxPoints]]
  /\ credited \subseteq Keys
  /\ session \in [Sessions ->
       [pc : {"idle", "checked", "held", "credited", "refused"}, key : Keys \cup {None},
        member : Members \cup {None}, points : 0..MaxPoints]]
  /\ topup \in [Topups -> {"absent", "pending", "invoiced", "confirmed", "rejected"}]
  /\ paidIn \in [Topups -> Nat]
  /\ review \in [Reviews -> [pc : {"idle", "invoice", "confirm", "reject"},
                             topup : Topups \cup {None}]]
  /\ contested \subseteq Topups
  /\ overlapped \subseteq Members \X Members

(* "Never burn customer points without crediting" the partner: every point  *)
(* a member lost went into a completed conversion the partner credited, no  *)
(* hold outlives its conversion, and no member is overdrawn.                *)
BurnedPointsAreCredited ==
  \A m \in Members :
    /\ balance[m].posted_debits = Converted(m)
    /\ Completed(m) \subseteq credited
    /\ balance[m].pending_debits = 0
    /\ RowChecks(balance[m])

\* What each completed conversion cost.
Costs == [k \in Keys |-> IF row[k].status = "completed" THEN Cost(row[k].points) ELSE 0]

(* The allowance is what was funded and topped up less what the completed   *)
(* conversions cost: a reversed or lost conversion leaves no trace in it.   *)
AllowanceIsExplained ==
  allowance = (funded + TopupAmount * SumOf(paidIn)) - SumOf(Costs)

(* confirmTopup refuses what is "already confirmed": a request is credited  *)
(* when it is confirmed and once, whoever invoices, rejects or gives up and  *)
(* in whatever order, unless a confirmation overlapped another call on it:   *)
(* each handler writes by id what it decided from an earlier read, so two    *)
(* overlapping confirmations both credit, and an invoice or a rejection that *)
(* lands after one reopens or relabels a request that was paid.              *)
UncontestedTopupCreditedOnce ==
  \A q \in Topups \ contested :
    paidIn[q] <= 1 /\ (paidIn[q] = 1 <=> topup[q] = "confirmed")

(* The daily limit is kept, and "when it's empty, conversions pause":       *)
(* whatever answers are lost and whatever is funded meanwhile, only two      *)
(* conversions in progress at once can exceed the limit of their member, or  *)
(* spend allowance the merchant has not paid for.                            *)
LimitsHoldOneAtATime ==
  /\ \A m \in Members : DailyLimit > 0 /\ <<m, m>> \notin overlapped => Converted(m) <= DailyLimit
  /\ overlapped = {} => allowance >= 0
=============================================================================
