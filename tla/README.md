# Partners Points Engine: a TLA+ model

The repository is a TypeScript monorepo: a multi-tenant loyalty platform whose
API (`apps/api`) runs as several identical instances over one Postgres
database. Customers earn, hold, redeem, convert and lose points; merchants pay
for them from prepaid wallets; tills, customer apps, a platform console and
timers all change the same rows. This directory models the part of it where
that concurrency decides whether the money and the points add up.

## 1. The system

### Parts and how they interact

| part | state | operations | talks to |
| --- | --- | --- | --- |
| ledger engine (`packages/db/src/ledger/engine.ts`, `prisma/sql/ledger.sql`) | `ledger_account`, `account_balance`, `journal`, `entry`, `idempotency_key` | guarded UPDATEs, `postJournal`, `reserveIdempotency`, `completeIdempotency` | called by every part below, inside their transaction |
| points operations (`operations.ts`) | none of its own | earn, load, spend, adjust, authorize, capture, void | engine |
| group wallet (`operations.ts`) | wallet accounts | `topUpWallet`, `drawdownWallet` | engine; settlement worker and platform console |
| terminal gateway | `terminal_transaction`, `voucher` | transaction (earn, redeem), capture, void, voucher hold, loads, spends, refunds, pairing | ledger, gamification, outbox |
| loyalty rules | `voucher`, campaigns | catalog purchase, online voucher use, forecast of expiry | ledger |
| gamification | `challenge_progress`, `badge_award`, `voucher` | `onEarnWithTx`: advance, complete, award, pay | called by every earn, inside its transaction; ledger |
| referrals | `referral` | issue a code, redeem it | ledger |
| superadmin | vouchers, cost rules, wallets | gift, cancel, top up, set rules | ledger |
| outbox, webhooks, alerts | `outbox`, `webhook_delivery` | emit, relay, claim, deliver | written in every change's transaction, read by timers |
| settlement | `terminal_transaction.settled_at` | settle captured redemptions | wallet |
| expiry sweep | none of its own | breakage journals | ledger |
| partnerships | `conversion`, `allowance_wallet`, `allowance_topup_request` | convert, fund, request, invoice, confirm, reject | ledger, the partner's API |
| worker runner | busy flags in memory | one timer per job, on every instance | the four workers above, deletions, fraud, retention |
| governance | `change_request` | submit, approve, reject, apply | appliers of the other parts |
| auth | sessions, refresh tokens, OTPs, nonces | login, refresh, verify | - |
| fraud, account deletion, retention | alerts, deletion requests, old rows | scan, sweep, purge | timers |
| coupons, segments, messaging, passes, reporting, team, API keys | rows of their own | mostly single-row configuration, reads and rendering | - |
| Android terminal | preference of the pending hold, `outbox.json`, the sale on the screen | take a payment, retry, recover after a killed process, replay queued earns | terminal gateway, the card terminal |
| mobile and web apps, SDK | none | calls of the API | the parts above |

Every request is one interactive database transaction (`TenantService.run`) at
Postgres' default level, READ COMMITTED: a statement sees what was committed
before it started, an UPDATE re-checks its WHERE clause on the latest committed
row and keeps it locked until the end. (`docs/01-architecture.md:456` asks for
REPEATABLE READ or SERIALIZABLE; no code sets it.) Hence the one question asked
of every handler: which of its conditions are in the UPDATE, and which were
only read before it?

### What is hard, and what makes each part correct

- *Ledger.* Requests are repeated and overlap. Correct: no member overdrawn,
  cached balances equal the entries, one effect per key, answers are true.
- *Till.* Capture, void and their retries race; rewards are held by one till
  while an app or the console changes them. Correct: the points held are those
  of open sales, every sale ends once, the outbox tells of each sale that moved
  points and of each challenge it completed and of nothing else, one use per
  reward that no two calls give at once.
- *Expiry.* A sweep acts on rows it read earlier. Correct: never takes held or
  missing points, agrees with the forecast, finishes in the end.
- *Outbox.* Two relays share a column, several instances poll, passes die.
  Correct: nothing is lost, outcomes are true, every delivery ends and then
  stays as it is.
- *Settlement.* Several instances, a wallet that runs empty, rules that change.
  Correct: one drawdown per sale, the wallet is explained by the sales, every
  affordable sale settles.
- *Conversion.* An outside call in the middle of a transaction. Correct: points
  burned are credited, the allowance adds up, a limit can be exceeded only by
  conversions that overlap, a top-up be credited twice only by console calls
  that overlap.
- *Gamification.* Progress is read, incremented in memory and written back.
  Nothing in that code serializes two tills; what does is the row of the
  member's balance, which the earn has updated before it reads the first card -
  unless it earns no points. Correct: every sale is on every card once, a filled
  card pays once, except where a sale of no points overlapped another.
- *Governance.* A review reads the request, applies the change and records the
  decision in three transactions. Correct: what is recorded as approved took
  effect, and one review at a time decides once.
- *Referrals.* The four rules are reads, the code's row is written by id.
  Correct: points are paid for redemptions and once each; redemptions that do
  not overlap keep the rules.
- *Android terminal.* Points are held before the money is taken and captured
  after; answers get lost, the process is killed, the queue is replayed by two
  coroutines, and a cancelled payment stays blocked in its request while the
  next one starts. Correct: a sale is awarded once and only if it was paid, and
  a sale reported to the customer is not forgotten.

`PROJECT.json` lists each such hazard at its line of source, with the property
that guards it or the reason why none does yet.

## 2. Modules

| module | models | instance |
| --- | --- | --- |
| `Balances` | a row of `account_balance`: each UPDATE as a WHERE predicate and a SET function | - |
| `PointsAccount` | abstract specification: points available and held, each request taking effect once | - |
| `PointsLedger` | the seven operations in concurrent transactions with idempotency keys | `MCPointsLedger` |
| `Gateway` | abstract specification: what becomes of an idempotency key of the terminal gateway | - |
| `TerminalSales` | sales and vouchers of a brand: till, app, console | `MCTerminalSales` |
| `Checkout` | the Android terminal in front of `Gateway` | `MCCheckout` |
| `ExpirySweep` | the sweep beside the ledger operations, and the forecast | `MCExpirySweep` |
| `OutboxRelay` | outbox, alert claim, webhook relay and delivery | `MCOutboxRelay` |
| `Settlement` | settlement passes over the prepaid wallet | `MCSettlement` |
| `Conversion` | conversions and the allowance they draw on | `MCConversion` |
| `StampCards` | `onEarnWithTx` in concurrent earns of one member | `MCStampCards` |
| `ChangeRequests` | requests, reviews and changes of mode | `MCChangeRequests` |
| `Referrals` | codes and their redemption | `MCReferrals` |
| `Sums` | the sum of a function over a finite set, in a form that can be proved about | - |
| `Accounting_proofs` | lemmas about balance rows and sums, used by the proofs below | - |
| `PointsLedger_proofs`, `TerminalSales_proofs`, `Conversion_proofs`, `Checkout_proofs`, `StampCards_proofs` | theorems about one component each | - |
| `Jobs_proofs` | theorems about the worker runner's jobs: `Settlement`, `ExpirySweep`, `OutboxRelay` | - |
| `Decisions_proofs` | theorems about `ChangeRequests` and `Referrals`, which decide on what they read earlier | - |

The modules about points of the ledger extend `Balances`, so the engine's
UPDATEs are written once and those components move points by them. Two
compositions go through an abstract specification: `PointsLedger` implements
`PointsAccount`, and `TerminalSales` implements `Gateway`, the same module
`Checkout` instantiates for the server it talks to. What the terminal app relies
on is therefore what the gateway is shown to do. Every module has a type
invariant (`TypeOK`, or `SweepTypeOK`, `RelayTypeOK`, `ReferralsTypeOK` where one
proof module covers several components); where stronger invariants of the same
run or a proof fail with it, the run does not list it again.

### How code becomes an action

A handler that decides everything in guarded statements is one atomic action:
its writes are invisible until the commit and its locks are held until then. A
handler that reads, checks and later writes by id is split: one action reads
and remembers, a later one writes what was remembered. So:

- `PointsLedger`: a *session* is a transaction. `Reserve` (the key lookup),
  `ReadAvailable` (the clamp of `adjustPoints`) are reads; `Commit` applies all
  writes of the operation, its journal and its key; `Abort` is any rollback.
  `Replay` and `Conflict` answer for a key that is already committed.
- `TerminalSales`: `Earn`, `Authorize`, `CaptureSale`, `VoidSale`, `BuyVoucher`
  are atomic (claimed by `updateMany ... state = 'authorized'`, or guarded by
  the ledger). `Find`, `CheckOtherHolds`, `Write` are the three statements of
  the voucher handlers. The ledger's own keys are not repeated here: they are
  the subject of `PointsLedger`. The stamp-card engine is abstracted to what it
  does to an earn, in the same transaction: some challenges completed, each with
  its own row in the outbox also when the sale is worth no points, bonus points
  and gift vouchers. `contested` is a history variable: the rewards that two
  calls which give one (the till's hold, the app's use) were open on at once.
- `ExpirySweep`: `ReadAccounts` is the SELECT, `PostBreakage` all journals of a
  brand and the commit, `FailSweep` the rollback when one guard fails, `SweepDies`
  any other. `Uneaten` is the loop of the forecast over the lots.
- `OutboxRelay`: `ReadOutbox`/`FanOut` and `ReadDue`/`Send`/`Post`/
  `RecordDelivered`/`RecordFailed`; `ClaimAlerts` is one statement. `PassDies`
  is an exception or a stopped process anywhere. Every instance has a pass of
  its own, which writes its answers over whatever a row says by then.
- `Settlement`: one action per statement of `settleOne` up to the drawdown,
  which commits together with the stamp. `Crash` loses the batch and leaves the
  instance down until `Restart`.
- `Conversion`: `Check` is what is read, `Reserve` takes the row locks,
  `CallPartner` is the outside world, `Complete`, `Reverse` and `Abort` end the
  transaction. The partner is modelled from the interface the code declares;
  today's stub always credits. The console's calls on a top-up are a read and a
  write; `contested` is a history variable: the top-ups of which a confirmation
  overlapped another call.
- `Checkout`: a request that is answered is one step, its effect at the gateway
  and the app's next state together. A request without an answer (`Unanswered`)
  either never arrives or is in `late` and may be served at any later time, at
  once or after a restart. `Kill` loses all but the preferences and
  `outbox.json`; `Launch` starts the recovery of the hold and one replay of the
  queue, the home screen another (`HomeReplay`); a replay remembers the queue it
  read and merges it at its end. `ResetSale` is the cancellation of a payment
  that is waiting, `LeaveBlocked` of one that is in a blocking request: it is no
  longer the active payment, so another may start, and `BlockedReturns` is what
  it still does when the request returns (forget a hold, queue its earn).
- `StampCards`: `Begin` is the earn up to its update of the balance row, which
  it keeps locked if it earned a point; one of no points locks nothing.
  `ReadCard` reads the progress of one challenge; `Commit` writes all of them
  with badges, vouchers and bonuses; `GiveUp` is the rollback. `contested` is a
  history variable: the challenges that two open sales both move, one of them
  worth no points.
- `ChangeRequests`: `StartReview`, `Apply` and `Record` are the three
  transactions of approve, `FailApply` the applier's refusal, `Die` a process
  that ends in between. `Submit` and `PassThrough` are the two answers of the
  interceptor. `disturbed` is a history variable: the requests whose reviews
  overlapped or died.
- `Referrals`: `FindReferral` and `CheckRules` read, `Reward` writes the row,
  posts both rewards and commits. `NoLongerNew` and `NoLongerRecent` are the
  end of the seven days a member is new and of the thirty days of the cap.
  `overlapped` is a history variable: the redemptions that overlapped a related
  one. In `Conversion` it names the conversions that overlapped.

Time is abstracted to events: `HoldLapses` (fifteen minutes), `Age` (the twenty
seconds of `SETTLE_SECONDS`), `NextDay`. Amounts are small integers; identifiers
are model values.

## 3. Runs

Runs that pass:

| run | instance | states | what it shows |
| --- | --- | --- | --- |
| `points_ledger` | 4 keys, 2 sessions, 1 member, amounts -2..2 | 65,725 | no interleaving, replay, conflict or abort overdraws a member, doubles a journal or falsifies an answer; the ledger implements `PointsAccount` |
| `terminal_sales` | 3 sales, 2 members, 1 voucher, 2 voucher calls | 434,685 | holds are exactly the open sales; capture, void and their retries have one winner; each row of the outbox belongs to one sale; a reward is given twice only by two calls that overlap |
| `expiry_sweep` | 2 members, 3 days, 1 instance | 23,793 | stale sweeps never overdraw; forecast and sweep agree while nothing is held; all that is due is swept |
| `outbox_relay` | an event (for points or not), 1 endpoint, 2 attempts, 2 instances | 337,144 | outcomes are true although passes overlap and die; a delivery that ended is not retried; each ends while one instance goes on |
| `settlement` | 2 sales, 2 instances, 2 cost rules | 26,869 | one drawdown per sale from any reads; affordable sales settle |
| `conversion` | 2 members, 2 keys, 2 sessions, 1 top-up, 2 console calls, 3 partner points for 2, daily limit 1 | 819,450 | points are burned only when credited; the allowance adds up; limits hold for conversions that do not overlap, and top-ups are credited once by console calls that do not |
| `checkout` | 2 sales, 4 keys, 1 kill | 172,014 | a sale is awarded once and only if paid, also beside a cancelled payment; none reported as done is lost, and each is settled or refused in the end |
| `stamp_cards` | 3 sales worth 0 to 2 points, 2 tills, 2 transactions, 3 challenges | 419,600 | stamps, rewards and bonuses agree with the sales, of points or of none, outside the challenges that a sale of no points contests |
| `change_requests` | 2 requests, 2 entities, 2 reviews, 1 death | 1,044,840 | what is approved was applied; undisturbed reviews decide once |
| `referrals` | 3 members, 3 codes, 2 transactions, cap 1 | 1,104,372 | points are explained by redemptions; undisturbed redemptions keep the rules |

`terminal_sales` also checks `ImplementsGateway`, `points_ledger` also
`ImplementsAccount`: the two refinements.

Why the bounds are enough. One member shows every conflict on a row, since rows
of different members share nothing but a commit; a second is added where one
transaction touches several (`expiry_sweep`) or shares another row
(`conversion`). Two sessions give every pairwise overlap; four keys let earn,
hold, capture and a competing request follow each other. Amounts of one and two
separate "enough" from "not enough" and "clamped" from "whole". Three sales let
two overlap on the points of a third. In `settlement` one sale costs 3 with a
margin rounded down (2 points) and one costs 1 (margin 0), with 4 units of
funds. `outbox_relay` has two attempts, so first, last and exhausted differ.
`terminal_sales` has one voucher: vouchers of a member meet only in the check
for other holds, which can do no more than refuse a call. `outbox_relay` has two
instances and one event that is emitted, either kind of it: rows of different
events share nothing but the batch of a pass, and with two instances one event
already makes two deliveries. In `conversion` a point costs one and a half
partner points, so amounts are rounded; one conversion uses up the daily limit
and two units of funds, so the allowance runs empty first when less came in.
Each of the two sales of `checkout` draws a key for its hold and one for its
earn; one kill can fall into any step of either, and the recovery, or a
cancelled payment, then runs beside the next sale. In `stamp_cards` a sale earns
nothing or up to two points, one fills the card of spend twice, one is no visit,
and two challenges award the same badge, so the badge's bonus has two claimants.
In `change_requests` one entity exists and one is created by a request; two
reviews may be of the same request or of two for one entity. In `referrals`
three members are the least that tell the reciprocal rule from the cap and from
the repeated referee. `MaxFunds`, `MaxCredits`, `MaxEarned`, `MaxPoints`,
`MaxDone`, `MaxBonus`, `MaxAmount`, `MaxSales`, `MaxKeys`, `MaxKills`,
`MaxEvents`, `MaxDeaths`, `LastDay` and what is counted up to two only (`posts`,
`uses`) are bounds of the model, not of the code. `checkout`, `stamp_cards`,
`change_requests` and `referrals` may stop: every sale, request or code of the
instance is used up.

Runs that find a violation, each of a claim the repository makes:

| run | claim | what happens |
| --- | --- | --- |
| `till_reward_twice` | "This voucher was already used" (`terminal.service.ts:538`) | the till and the app both read `issued`, both write by id: the reward is given twice |
| `outbox_lost_webhook` | "no lost events" (`docs/01-architecture.md:682`) | the alert claim publishes the row before the webhook relay has seen it |

Each property of a passing run has a mutant in the module it is about: the
operator marked "Mutant of", a plausible bug under which TLC finds the property
violated.

### Fairness

`worker-runner.ts` starts every job with `setInterval`, skips a tick while the
job is busy, and clears the busy flag in `finally`; so a resting instance
eventually starts a pass (weak fairness of the first read), and goes on to its
next statement. In `OutboxRelay` this is asked of the instances in `Steady`
only, one of the two of the run; the other may stop for good anywhere. A pass
may be lost to a rollback or a stopped process, but not every pass is: the
liveness of `ExpirySweep` and `OutboxRelay` uses strong fairness of the commits
for that, and `EverySaleSettles` states instead that instances stop only
finitely often. An endpoint never has to accept: a request that fails or times
out is recorded as failed, and that counts as progress. `AllIsSwept` assumes
that members pause at some point, since each sale may invalidate a sweep of the
whole brand. `EverySaleSettles` is for a backlog that fits into one batch and a
sale that stays affordable. Members, tills, the console and the partner are
never assumed to do anything. In `Checkout` the app is launched again after a
kill and comes back to its home screen, which replays the queue, and a replay
goes on to its end (weak fairness); a queued earn that the home screen tries
again and again is answered at some time (strong fairness of an answered
replay), since a network that is down for ever excuses the till. The cashier,
the card and the recovery of a hold are assumed to do nothing.

## 4. Proofs

Every invariant and every action property of the passing runs is also a
theorem, for all values of the constants, and so are both refinements. TLC's
bounds (`MaxPoints`, `MaxKills` and the like) stay in the guards as constants of
any size, so no theorem depends on a bound being small. `PROJECT.json` lists the
theorems; each component has one *is safe* theorem for its inductive invariant,
from which the others follow. Most properties are not inductive. What follows is
what each needs and why.

**Rows and sums** (`Accounting_proofs`). One lemma per UPDATE of a balance row:
a row stays a row, and an update whose WHERE clause holds *on the row of now*
keeps the CHECK constraints. `SumOf(f)` is the number of points below the graph
of `f`: a recursive sum is out of the provers' reach, a cardinality is not.
`SumChanges` (one value changes), `SumOfNext` (one value more), `SumGrows` (what
is added point for point), `SumOfTwo` (over disjoint domains) and
`NumberedPayments` (bonuses under keys numbered by completions add up to
completions times rewards) are what the books of the components rest on.

**Ledger** (`PointsLedger_proofs`). `LedgerInv` is the type invariant, the four
safety invariants and `SessionsKnow`: a session that is not idle has a key and a
request of the caller's, and one that has clamped or answered has an amount.
That is what makes `Commit` typed and positive, and it is needed because a
session acts on what it read earlier. Only `Commit` touches the tables:
`ApplyIsSafe` shows that each operation, with its guard *re-evaluated at
commit*, keeps the row checks and moves balance and entries alike; `KeyFree`
makes the new key's row the first, so no earlier answer becomes false. Nothing
is used of what a session read except its sign and its bound, which is why
stale reads are harmless here. For `ImplementsAccount`, `ViewMoves` computes the
abstract state after each UPDATE, `AbstractOperation` picks the abstract action,
and a claw-back clamped to nothing is `Nothing`.

**Till** (`TerminalSales_proofs`). `SalesInv` adds `OpenSalesRedeem` (an
authorized sale has points to redeem) to the types, the checks and the events:
without it a capture could emit an event for a sale that moved nothing.
`ImplementsGateway` needs nothing but the claim on the sale's state, one abstract
action per handler. `BooksInv` says that held, earned and redeemed points are
sums over sales and vouchers; each action changes one sale or one voucher, so it
is preserved by `SumChanges`. `UncontestedGivenOnce` holds for any number of calls
on vouchers: `GivenInv` says that overlapping calls are noted
(`OverlapsAreContested`), that a call which nobody contests still has an unused
reward when it writes (`CallsRely`), and that a reward once given stays redeemed
or is cancelled, whatever tills capture, void and let lapse in between. Without
the exception it is false (`till_reward_twice`).

**Settlement** (`Jobs_proofs`). `KeysMatchStamps` (the key of a drawdown is done
exactly for sales stamped with a journal) is why a second instance that read the
sale as unsettled replays the first one's response instead of drawing again;
`PassesAreCaptured` (a pass works on captured sales, which never change state
again) is why it may act on what it read. `WalletIsExplained` is a sum over the
keys.

**Expiry** (`Jobs_proofs`). A stale sweep is harmless to the checks because of
the guard alone. `ForecastExactWithoutHolds` compares two algorithms: the
customer's forecast eats the lots in order, day by day; the sweep subtracts two
sums. `EarnedIsCredited` (what is credited to a member is what they earned in
all lots) ties the balance row to the lots, and `UneatenIsBeyond` brings the
loop to a closed form: after the lots up to a day, what is left of the spending
is what exceeds all they earned. The loop is a function on `0..LastDay`, and the
induction over days goes by the first day at which the closed form would fail
(`LeastNumber`).

**Outbox** (`Jobs_proofs`). All three theorems are for any number of instances.
`BatchIsTried` (what was read had an attempt left) bounds the attempts written,
whatever the row says by then, and `AcceptedIsPosted` backs every outcome
"delivered" by an accepted request. `ClosedStaysClosed` needs `RelayedOnce` (a
delivery exists only for a published row that its instance will not fan out
again) and `BatchWasRelayed` (what an instance has in hand exists): nothing then
resets or reads a delivery that ended and is in nobody's batch. While it is in
one, it does change (section 5).

**Conversion** (`Conversion_proofs`). `OneLocks` and `LocksHold`: a session past
its hold has the allowance's row, so there is one such session, the key it
found free is still free and the points it found are still there. So both the
completion and the reversal apply to what was reserved. `ChecksHold`: what an
undisturbed session compared with the limits still compares so; with
`OverlapsAreNoted` this gives `LimitsHoldOneAtATime`.
`UncontestedTopupCreditedOnce` holds for any number of console calls, by
`CallsAreTimely`: while no confirmation of a top-up overlapped another call, the
calls on it have read a status that is still that of an unconfirmed request, and
one that confirms is alone.

**Android terminal** (`Checkout_proofs`). The heart is `KeysApart`: the keys
under which an earn was, is or *may yet be* executed - in flight, late, queued,
in a replay's snapshot, owed by a cancelled payment, refused, done - are no keys
of holds, each belongs to a paid sale that has ended, and no sale has two.
`OneJob` says that the hold and the last key drawn belong to the one sale being
paid, and what a cancelled payment owes to its own sale, `CapturesArePaid`
extends `OnlyPaidSalesSettle` to requests still on their way, and
`ReplaysAreWhole` (a replay has tried, is to try or has failed on each key it
started with) is why the merge at the end of a replay drops nothing.

**Gamification** (`StampCards_proofs`). Sales of no points included, what is
proved of a challenge is proved outside `contested`. `StampInv` is `Shape`
(types), `OpenSales` (an open transaction that has earned a point holds the
lock), `SalesApart` (two open sales do not both move an uncontested card: of two
that earn points one waits, and of the others `Begin` notes the clash),
`ReadsAreFresh` (what a transaction has read of an uncontested card is what it
will overwrite, or it writes nothing), `CardsAreExact` (progress and completions
are the division of a card's stamps by its target) and `VouchersAreCompletions`.
`PaidInv` adds what the bonuses need while nothing is contested: `CardsAreRows`,
and `KeysAreSpent` (a bonus key numbers a completion that is on the card, or
names a badge that was awarded), so that the next bonus has a fresh key and is
not swallowed as a replay.

**Governance and referrals** (`Decisions_proofs`). Both decide on a row read
earlier, and both have a history variable that names what overlapped.
`ReviewInv` adds `ReviewsAreOrderly`: an undisturbed request under review is
pending and has one review, and a review that says it has applied its change did
so. `ReferralsInv` adds `RowsAreIssued`, `CallsKnow` and `PaidIsRewarded` (what a
redemption under way knows of its row), `OverlapsAreKnown` (two related
redemptions under way are both named; so is one whose code was paid meanwhile,
with the one it was paid to), `RefereesAreNamed` (the row of an undisturbed
redemption is not overwritten) and `CheckedKeepRules`: what `CheckRules` found
is still true when the reward is paid.

**Assumptions.** Each module names its own, TLC evaluates them, and they say
what the schema says: sets of rows are finite, null values (`None`, `NoRequest`,
...) are no rows, points, prices and limits are natural numbers, targets and
batch sizes positive, accounts of members and of the brand differ, challenges
and badges have different keys (`challenge:<id>`, `badge:<id>`). No theorem
assumes that calls, instances or reviewers do not overlap, or that a sale earns
a point: where an overlap breaks a rule, the property names what overlapped in a
history variable and claims the rest.

**Only model-checked.** The four liveness properties `AllIsSwept`,
`EveryDeliveryEnds`, `EverySaleSettles` and `DoneSaleIsSettled`: liveness under
fairness is out of the provers' reach. So is induction by the theorems of the
library, which take an operator as parameter; over natural numbers a least
counterexample serves instead (`LeastNumber`, from the well-founded order of the
naturals), which is how the loop of the forecast is handled. Nothing here needs
a recursive operator.

## 5. Not modelled, and why

- *Coupons*: limits compared when read and counted later, the shape of
  `Conversion`'s and `Referrals`' limits; no other part reads what they change.
- *Campaigns and earn rules*: a pure evaluation, in floating point, of JSON the
  brand writes; what it computes cannot be enumerated. Every model lets a sale
  earn any number of points between two bounds instead.
- *Authentication*: rotation of tokens and attempts of one-time codes are a
  protocol of credentials, apart from the books this project is about.
- *Fraud alerts, account deletion, retention*: single SQL statements on one row
  or by age, with no state another part relies on.
- *Row-level security*: a predicate over a row and not a protocol.
- *Segments, reporting, wallet passes, messaging, team, API keys, consoles, SDK,
  mobile app*: reads, rendering, fan-out and configuration rows.
- *Cash loads, cash spends and refunds at the till* use the ledger operations of
  `PointsLedger` without a state of their own.
- Lock order between accounts: Postgres breaks a deadlock by aborting a side,
  which every model has as its abort. `getOrCreateAccount` is an initial state
  (accounts exist); its catch re-reads in a transaction that Postgres has
  already aborted, which is again an abort.
- Of the Android terminal: the card terminal is only its answer; receipts kept
  in the queue, sales without a member, card charges nobody waits for, the
  prompt against duplicate amounts, and a torn write of `outbox.json`.

### Other disagreements met while modelling

- The hold of an authorized sale does not auto-release
  (`docs/01-architecture.md:593`): no code voids an old authorization.
- "Rewards don't stack" (`terminal.service.ts:554`) is a read: two tills that
  hold two vouchers of one member at once both pass.
- `voidTxn` returns and `confirmVoucherHolds` spends all holds of the member,
  whichever sale they belong to; a hold older than fifteen minutes is not spent.
- With points on hold the forecast (`loyalty.service.ts:147-154`) and the sweep
  differ: the forecast lets holds eat the oldest points first.
- Running the workers on every instance "is safe" and re-runs are idempotent
  (`worker-runner.service.ts:23-25`, `expiry-sweep.service.ts:7-11`): a second
  sweep posts what it read before the first and takes points that have not
  expired; two instances relay one outbox row twice (`webhook.service.ts:155`).
- Nor is it safe for deliveries: of two instances that read one row as due, the
  later answer overwrites the earlier, so a delivered webhook may become failed
  and be sent again. `ClosedStaysClosed` therefore speaks of deliveries that no
  instance has in hand. They are retried at every pass, without the backoff of
  `webhook.service.ts:21`.
- When the cost rule changes between two instances, one may draw a sale down
  that the other stamps as free.
- Two reviewers can confirm a top-up twice, although "already confirmed" is
  refused (`partnership.service.ts:311-325`): the status is read, the row is
  written by id and the allowance is incremented. A confirmation beside a
  rejection may also leave a credited top-up rejected. Both are what
  `UncontestedTopupCreditedOnce` excepts.
- The partner may credit although the transaction then does not complete, so
  that nothing is drawn (`docs/partnerships-lulu-plan.md:96-98`); two
  conversions that overlap overdraw the allowance (line 18) and the daily limit
  (`conversion.service.ts:90-94`); the cost of a conversion has no platform
  margin (line 107); the reconciliation worker of lines 93-94 does not exist.
- `2026-10-10_retention.sql:48-51` also deletes failed deliveries, which may
  still be due.
- Gamification is said to run atomically in the earn (`loyalty.service.ts:262`),
  and "stamp cards must still tick" for a visit that earns no points. Alone they
  do; but such a visit locks nothing, so beside another sale a stamp is lost or
  a reward issued twice. The properties of `StampCards` except just those
  challenges. Such a visit also writes progress 0 on challenges of lifetime
  points. A repeatable challenge of lifetime points, once reached, pays again on
  every later earn.
- A retried `POST customers/earn` of the back office
  (`manage.controller.ts:352-364`) replays the journal but advances the cards
  again.
- A change that is approved and rejected at once may be applied and recorded as
  rejected, or applied twice; a change is applied from the snapshot it was
  submitted with, whatever happened since. Both differ from
  `docs/07-master-architecture.md:176`. If the process dies after it applied a
  deletion, the request can never be approved.
- Two redemptions of one referral code at once are both paid; the row names only
  the second referee, so the first may be rewarded for another code.
- A closed fraud alert can be reopened by a change of state, and a deletion that
  is requested again after it was carried out keeps a deadline in the past.
- The Android app's `redeemAuthorize` (`TerminalApi.kt:134-142`) never sends
  `amountMinor`, while the gateway refuses a redemption without the amount of
  the bill (`terminal.service.ts:761-763`): this build's redemptions are all
  refused. `Checkout` follows the protocol both sides implement otherwise.
- A replayed earn that is answered with any 4xx, 401 and 429 included, is
  dropped from the queue. A hold whose answer was lost stays held. A process
  killed between the card's approval and the capture makes the recovery void the
  hold of a sale that was paid. Recovery may clear the preference of a newer
  hold, and so may a payment that was cancelled in a blocking request and
  returns beside the next one (`CheckoutViewModel.kt:151-156`, `280`): if the
  process is killed then, nobody voids that hold. A capture whose answer was
  lost is refused as a conflict when repeated, and the sale is flagged although
  it was captured.

## 6. Plan

Done: ledger, till, expiry, outbox, settlement, conversion with its limits,
Android terminal, gamification, governance, referrals; the refinements to
`PointsAccount` and `Gateway`; the proofs of section 4, which cover every safety
property of the passing runs. Next, in this order:

1. `EverySaleSettles` for a backlog larger than one batch, with sales
   that cannot be paid set apart.
2. Abstract specifications for settlement (a sale is charged at most once) and
   for a conversion (all or nothing), and refinements to them.
3. Cash loads and refunds at the till as competitors in `TerminalSales`.
4. Account deletion and retention beside late retries; coupons; refresh tokens
   and one-time codes.
