---------------------------- MODULE ExpirySweep ----------------------------
(***************************************************************************)
(* Expiry of a brand's points: expiry-sweep.service.ts, run by every API   *)
(* instance on a timer, beside the operations that change the same         *)
(* accounts, and the forecast of loyalty.service.ts expiring() that the    *)
(* customer is shown.                                                      *)
(*                                                                         *)
(* There is no table of lots: an earn records the day its points lapse,    *)
(* debits are taken to consume the earliest lots first.  A sweep reads all *)
(* accounts in one SELECT and posts one journal per account from what it   *)
(* read, all in one transaction; the ledger's guard on the debit is the    *)
(* only thing that looks at the account again.                             *)
(***************************************************************************)
EXTENDS Balances, Sums

CONSTANTS Members,   \* customers of the brand
          Sweepers,  \* API instances whose timer runs the sweep
          LastDay,   \* days are 1..LastDay; points that lapse on LastDay never do
          MaxEarned  \* bound on the points a member ever earns

ASSUME SweepAssumption == LastDay \in Nat \ {0} /\ MaxEarned \in Nat

Days == 1..LastDay

VARIABLES
  balance,  \* account_balance of each member
  earned,   \* entry: points credited to a member, by expiry_bucket
  today,    \* current_date
  sweep     \* each instance: what its SELECT told it to expire, member by member

sweepVars == <<balance, earned, today, sweep>>

NotSweeping == [pc |-> "resting", toExpire |-> [m \in Members |-> 0]]

SweepInit ==
  /\ balance = [m \in Members |-> NewBalance]
  /\ earned = [m \in Members |-> [d \in Days |-> 0]]
  /\ today = 1
  /\ sweep = [w \in Sweepers |-> NotSweeping]
-----------------------------------------------------------------------------
\* What a member earned in the lots that lapse by day d.
PointsUpTo(m, d) == SumOf([e \in 1..d |-> earned[m][e]])

\* Mutant of EarnedExpired: points lapse on the last day they are good for.
EarnedExpiredToday(m) == PointsUpTo(m, today)

EarnedExpired(m) == PointsUpTo(m, today - 1)

Lesser(a, b) == IF a < b THEN a ELSE b

\* Mutant of ToExpire: more spent than has expired gives a negative journal.
ToExpireUnclamped(m) ==
  Lesser(EarnedExpired(m) - balance[m].posted_debits, Available(balance[m]))

\* What a sweep computes for an account from the row it read.
ToExpire(m) ==
  LET due == Lesser(EarnedExpired(m) - balance[m].posted_debits, Available(balance[m]))
  IN IF due > 0 THEN due ELSE 0

\* expiring(): what was spent or is held, less what the lots up to each day,
\* in order, have eaten of it.
Uneaten(m) ==
  LET after[e \in 0..LastDay] ==
        IF e = 0 THEN balance[m].posted_debits + balance[m].pending_debits
                 ELSE after[e - 1] - Lesser(after[e - 1], earned[m][e])
  IN after

Left(m, d) == earned[m][d] - (Uneaten(m)[d - 1] - Uneaten(m)[d])

\* The points of lapsed lots that the forecast leaves to the sweep.
Lapsed(m) == SumOf([d \in 1..(today - 1) |-> Left(m, d)])
-----------------------------------------------------------------------------
Earn(m, d, n) ==
  /\ d >= today
  /\ PointsUpTo(m, LastDay) + n <= MaxEarned
  /\ balance' = [balance EXCEPT ![m] = Credit(@, n)]
  /\ earned' = [earned EXCEPT ![m][d] = @ + n]
  /\ UNCHANGED <<today, sweep>>

\* The other operations of the ledger, as PointsLedger has them.
Update(m, row) ==
  /\ balance' = [balance EXCEPT ![m] = row]
  /\ UNCHANGED <<earned, today, sweep>>

Spend(m, n)     == HasAvailable(balance[m], n) /\ Update(m, Debit(balance[m], n))
Authorize(m, n) == HasAvailable(balance[m], n) /\ Update(m, Hold(balance[m], n))
CaptureSale(m, n) == HasPending(balance[m], n) /\ Update(m, Capture(balance[m], n))
Void(m, n)      == HasPending(balance[m], n) /\ Update(m, Release(balance[m], n))

(* The SELECT of sweepBrand, over every account of the brand.               *)
ReadAccounts(w) ==
  /\ sweep[w].pc = "resting"
  /\ sweep' = [sweep EXCEPT ![w] =
       [pc |-> "read", toExpire |-> [m \in Members |-> ToExpire(m)]]]
  /\ UNCHANGED <<balance, earned, today>>

\* Mutant of Covered: the breakage journal trusts what the sweep read.
CoveredWhenRead(m, n) == TRUE

\* applyPosted: the debit of a credit-normal account needs the points to be there.
Covered(m, n) == n > 0 => HasAvailable(balance[m], n)

(* The breakage journals, one per account, and the commit.                  *)
PostBreakage(w) ==
  LET due == sweep[w].toExpire
  IN /\ sweep[w].pc = "read"
     /\ \A m \in Members : Covered(m, due[m])
     /\ balance' = [m \in Members |-> Debit(balance[m], due[m])]
     /\ sweep' = [sweep EXCEPT ![w] = NotSweeping]
     /\ UNCHANGED <<earned, today>>

\* Mutant of FailSweep: a failed pass leaves its job marked as busy.
FailSweepBusy(w) ==
  /\ sweep[w].pc = "read"
  /\ \E m \in Members : ~Covered(m, sweep[w].toExpire[m])
  /\ UNCHANGED sweepVars

(* One account that was spent meanwhile fails its guard: insufficient_balance *)
(* rolls back the whole brand's sweep, and the next tick starts again.      *)
FailSweep(w) ==
  /\ sweep[w].pc = "read"
  /\ \E m \in Members : ~Covered(m, sweep[w].toExpire[m])
  /\ sweep' = [sweep EXCEPT ![w] = NotSweeping]
  /\ UNCHANGED <<balance, earned, today>>

(* The instance stops in the middle of a sweep: nothing was committed.      *)
SweepDies(w) ==
  /\ sweep[w].pc = "read"
  /\ sweep' = [sweep EXCEPT ![w] = NotSweeping]
  /\ UNCHANGED <<balance, earned, today>>

NextDay ==
  /\ today < LastDay
  /\ today' = today + 1
  /\ UNCHANGED <<balance, earned, sweep>>

MemberStep ==
  \E m \in Members, n \in 1..MaxEarned :
    \/ \E d \in Days : Earn(m, d, n)
    \/ Spend(m, n)
    \/ Authorize(m, n)
    \/ CaptureSale(m, n)
    \/ Void(m, n)

SweepStep ==
  \E w \in Sweepers : ReadAccounts(w) \/ PostBreakage(w) \/ FailSweep(w) \/ SweepDies(w)

SweepNext == MemberStep \/ SweepStep \/ NextDay

SweepSpec == SweepInit /\ [][SweepNext]_sweepVars

(* The timers keep ticking, and not every pass dies with its process: an    *)
(* instance starts passes for ever and ends some, by rollback or commit.    *)
SweepFairSpec ==
  /\ SweepSpec
  /\ \A w \in Sweepers :
       /\ WF_sweepVars(ReadAccounts(w))
       /\ SF_sweepVars(PostBreakage(w))
       /\ WF_sweepVars(FailSweep(w))
-----------------------------------------------------------------------------
(* Every variable holds what its table or instance can hold.                *)
SweepTypeOK ==
  /\ balance \in [Members -> Balance]
  /\ earned \in [Members -> [Days -> Nat]]
  /\ today \in Days
  /\ sweep \in [Sweepers -> [pc : {"resting", "read"}, toExpire : [Members -> Nat]]]

(* Sweeps post from rows that may be stale, beside sales and other sweeps,  *)
(* and still never take points that are held or that are not there: every   *)
(* hold can be captured after a sweep.                                      *)
SweepNeverOverdraws == \A m \in Members : RowChecks(balance[m])

(* "This reproduces exactly the FIFO the expiry sweep settles with": while  *)
(* nothing is held, what the forecast lets lapse is what a sweep would take. *)
ForecastExactWithoutHolds ==
  \A m \in Members : balance[m].pending_debits = 0 => ToExpire(m) = Lapsed(m)

(* A pass is lost when one account moves under it or the process dies, but  *)
(* once the members pause, a later pass expires everything that is due.     *)
AllIsSwept ==
  <>[][~MemberStep]_sweepVars => <>[](\A m \in Members : ToExpire(m) = 0)
=============================================================================
