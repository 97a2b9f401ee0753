------------------------------ MODULE Checkout ------------------------------
(***************************************************************************)
(* The Android till: CheckoutViewModel.takePayment (hold the points, take  *)
(* the money, capture the hold, earn), its crash recovery, and the queue   *)
(* of earns the gateway could not be reached for (OfflineOutbox).          *)
(*                                                                         *)
(* A request the till gave up on may still be on its way: it stays in      *)
(* late, where the gateway may serve it at any later time, or never.  A    *)
(* request that is answered is served and answered in one step.  Sales     *)
(* without a member touch no points and are left out, and the order of the *)
(* queue is abstracted to a set.                                           *)
(***************************************************************************)
EXTENDS Integers, Sequences

CONSTANTS MaxSales,    \* bound on payments the cashier starts
          MaxKeys,     \* bound on idempotency keys drawn
          MaxKills     \* bound on how often the process is killed

ASSUME CheckoutAssumption ==
  MaxSales \in Nat /\ MaxKeys \in Nat /\ MaxKills \in Nat

Sales == 1..MaxSales   \* in the order in which they are started
Keys == 1..MaxKeys

\* The coroutines that may run replayAll at once: one started with the view
\* model, one with the home screen.
Replayers == {"launch", "home"}
NoKey == 0

VARIABLES
  txn,       \* the gateway: what has become of the request under each key
  drawn,     \* the sale each key was drawn for, in the order of drawing
  late,      \* requests on their way whose caller no longer waits
  running,   \* whether the app's process is alive
  step,      \* where each sale is in takePayment
  hold,      \* the payment job's holdId
  tries,     \* the payment job's failed attempts to capture it
  owed,      \* the key of the earn a cancelled job has yet to queue
  paid,      \* sales whose payment the till saw approved
  pref,      \* PENDING_HOLD in the shared preferences
  recovery,  \* the hold the recovery of the last launch is voiding
  queue,     \* outbox.json: the keys of the earns to replay
  replay,    \* the running replays: snapshot, what is left to try, what failed
  refused,   \* queued earns dropped because the gateway refused them
  kills

till == <<step, hold, tries, owed, paid>>
outbox == <<queue, replay, refused>>

vars == <<txn, drawn, late, running, till, pref, recovery, outbox, kills>>

GW == INSTANCE Gateway

NoReplay == [snapshot |-> {}, todo |-> {}, failed |-> {}]

Request == [op : {"authorize", "capture", "void", "earn"}, key : Keys]

Init ==
  /\ GW!Init
  /\ drawn = <<>>
  /\ late = {}
  /\ running = TRUE
  /\ step = [s \in Sales |-> "new"]
  /\ hold = NoKey
  /\ tries = 0
  /\ owed = [s \in Sales |-> NoKey]
  /\ paid = {}
  /\ pref = NoKey
  /\ recovery = NoKey
  /\ queue = {}
  /\ replay = [r \in Replayers |-> NoReplay]
  /\ refused = {}
  /\ kills = 0
-----------------------------------------------------------------------------
\* newIdempotencyKey: a random UUID, so a key nobody has drawn.
NewKey == Len(drawn) + 1

Draw(s) == NewKey \in Keys /\ drawn' = Append(drawn, s)

\* What a request does at the gateway.
Effect(op, k) ==
  \/ op = "authorize" /\ GW!Authorize(k)
  \/ op = "capture" /\ GW!Capture(k)
  \/ op = "void" /\ GW!Void(k)
  \/ op = "earn" /\ GW!Earn(k)

\* The gateway executes a request; from then on it refuses, or answers from
\* what it stored, every other request for the key that is still on its way.
Executed(op, k) == Effect(op, k) /\ late' = {c \in late : c.key # k}

\* The gateway refuses a request, or it never gets there.
NotExecuted == UNCHANGED <<txn, late>>

\* No answer comes in time: the request may be executed yet, or never.
Unanswered(op, k) ==
  /\ txn[k] \in {"none", "authorized"}
  /\ late' = late \cup {[op |-> op, key |-> k]}
  /\ UNCHANGED txn

\* An earn under a key the gateway has seen is answered with what it stored.
EarnAnswered(k) == Executed("earn", k) \/ (txn[k] = "earned" /\ NotExecuted)

ServeLate(c) ==
  /\ c \in late
  /\ Executed(c.op, c.key)
  /\ UNCHANGED <<drawn, running, till, pref, recovery, outbox, kills>>
-----------------------------------------------------------------------------
Paying == {s \in Sales : step[s] \in {"authorizing", "paying", "voiding", "capturing", "earning"}}

GoesTo(s, next) == step' = [step EXCEPT ![s] = next] /\ UNCHANGED <<hold, tries>>

\* The payment job is over, and its local variables with it.
Ends(s, outcome) ==
  /\ step' = [step EXCEPT ![s] = outcome]
  /\ hold' = NoKey
  /\ tries' = 0

(* takePayment: nothing while payJob is active.  A cancelled job is no      *)
(* longer payJob, even if it is still blocked in a call.                    *)
TakePayment(s, redeem) ==
  /\ running
  /\ Paying = {}
  /\ step[s] = "new" /\ \A p \in 1..(s - 1) : step[p] # "new"
  /\ IF redeem
     THEN Draw(s) /\ GoesTo(s, "authorizing")
     ELSE UNCHANGED drawn /\ GoesTo(s, "paying")
  /\ UNCHANGED <<txn, late, running, owed, paid, pref, recovery, outbox, kills>>

\* The hold's key is the last one drawn: no other call draws one meanwhile.
Authorized(s) ==
  /\ step[s] = "authorizing"
  /\ Executed("authorize", Len(drawn))
  /\ hold' = Len(drawn)
  /\ pref' = Len(drawn)
  /\ step' = [step EXCEPT ![s] = "paying"]
  /\ UNCHANGED <<drawn, running, tries, owed, paid, recovery, outbox, kills>>

\* Refused (too few points), or no answer: the cashier is told to try again.
NotAuthorized(s) ==
  /\ step[s] = "authorizing"
  /\ Unanswered("authorize", Len(drawn)) \/ NotExecuted
  /\ Ends(s, "failed")
  /\ UNCHANGED <<drawn, running, owed, paid, pref, recovery, outbox, kills>>

\* Settle loyalty: capture the hold if there is one, else post the earn.
Settles(s) ==
  IF hold # NoKey
  THEN GoesTo(s, "capturing") /\ UNCHANGED drawn
  ELSE GoesTo(s, "earning") /\ Draw(s)

\* Mutant of Approved: the points move however the payment ended.
ApprovedUnpaid(s) ==
  /\ step[s] = "paying"
  /\ paid' \in {paid, paid \cup {s}}
  /\ Settles(s)
  /\ UNCHANGED <<txn, late, running, owed, pref, recovery, outbox, kills>>

Approved(s) ==
  /\ step[s] = "paying"
  /\ paid' = paid \cup {s}
  /\ Settles(s)
  /\ UNCHANGED <<txn, late, running, owed, pref, recovery, outbox, kills>>

\* Declined, cancelled, timed out or the link failed.
NotApproved(s) ==
  /\ step[s] = "paying"
  /\ IF hold # NoKey THEN GoesTo(s, "voiding") ELSE Ends(s, "failed")
  /\ UNCHANGED <<txn, drawn, late, running, owed, paid, pref, recovery, outbox, kills>>

\* Whatever became of the void, the till forgets the hold.
Voided(s) ==
  /\ step[s] = "voiding"
  /\ Executed("void", hold) \/ Unanswered("void", hold) \/ NotExecuted
  /\ pref' = NoKey
  /\ Ends(s, "failed")
  /\ UNCHANGED <<drawn, running, owed, paid, recovery, outbox, kills>>

Captured(s) ==
  /\ step[s] = "capturing"
  /\ Executed("capture", hold)
  /\ pref' = NoKey
  /\ GoesTo(s, "earning")
  /\ Draw(s)
  /\ UNCHANGED <<running, owed, paid, recovery, outbox, kills>>

\* Refused (already captured or voided) or not answered: three attempts, then
\* the sale is flagged for the back office, and the till forgets the hold.
NotCaptured(s) ==
  /\ step[s] = "capturing"
  /\ Unanswered("capture", hold) \/ NotExecuted
  /\ tries' = tries + 1
  /\ IF tries' < 3
     THEN UNCHANGED <<step, pref, drawn>>
     ELSE step' = [step EXCEPT ![s] = "earning"] /\ pref' = NoKey /\ Draw(s)
  /\ UNCHANGED <<running, hold, owed, paid, recovery, outbox, kills>>

Earned(s) ==
  /\ step[s] = "earning"
  /\ EarnAnswered(Len(drawn))
  /\ Ends(s, "done")
  /\ UNCHANGED <<drawn, running, owed, paid, pref, recovery, outbox, kills>>

\* Mutant of Queued: the queued earn gets a key of its own.
QueuedUnderNewKey(s) ==
  /\ Draw(s)
  /\ queue' = queue \cup {NewKey}

\* enqueueEarn, with the ORIGINAL key of the earn that was just tried.
Queued(s) ==
  /\ queue' = queue \cup {Len(drawn)}
  /\ UNCHANGED drawn

\* Any exception, a refusal included, queues the earn.
NotEarned(s) ==
  /\ step[s] = "earning"
  /\ Unanswered("earn", Len(drawn)) \/ NotExecuted
  /\ Queued(s)
  /\ Ends(s, "done")
  /\ UNCHANGED <<running, owed, paid, pref, recovery, replay, refused, kills>>

(* resetSale cancels the payment job.  The cancellation surfaces where the  *)
(* job waits: in the payment or in the pause between two captures, it ends  *)
(* the job; in the request for the hold, as if that had failed              *)
(* (NotAuthorized).                                                         *)
ResetSale(s) ==
  /\ step[s] = "paying" \/ (step[s] = "capturing" /\ tries < 2)
  /\ NotExecuted \/ (step[s] = "capturing" /\ Unanswered("capture", hold))
  /\ Ends(s, "failed")
  /\ UNCHANGED <<drawn, running, owed, paid, pref, recovery, outbox, kills>>

\* resetSale drops a job that goes on once the call it is blocked in returns.
Leaves(s, blocked, k) == Ends(s, blocked) /\ owed' = [owed EXCEPT ![s] = k]

(* A request to the gateway blocks its job until it returns, and            *)
(* runCatching and catch (Exception) then swallow the cancellation: a void, *)
(* the last capture and an earn are left behind, and nothing keeps the      *)
(* cashier from the next payment.  The key of the earn that follows the     *)
(* capture is drawn here: a fresh key is the same whenever it is drawn.     *)
LeaveBlocked(s) ==
  /\ \/ /\ step[s] = "voiding"
        /\ Unanswered("void", hold) \/ NotExecuted
        /\ Leaves(s, "unvoided", NoKey) /\ UNCHANGED drawn
     \/ /\ step[s] = "capturing" /\ tries = 2
        /\ Unanswered("capture", hold) \/ NotExecuted
        /\ Leaves(s, "uncaptured", NewKey) /\ Draw(s)
     \/ /\ step[s] = "earning"
        /\ Unanswered("earn", Len(drawn)) \/ NotExecuted
        /\ Leaves(s, "unearned", Len(drawn)) /\ UNCHANGED drawn
  /\ UNCHANGED <<running, paid, pref, recovery, outbox, kills>>

Blocked == {s \in Sales : step[s] \in {"unvoided", "uncaptured", "unearned"}}

(* The call returns.  The job forgets the hold, whoever's the preference    *)
(* names by now, and queues its earn: a cancelled job's request throws at   *)
(* once.                                                                    *)
BlockedReturns(s) ==
  /\ s \in Blocked
  /\ step' = [step EXCEPT ![s] = IF @ = "unvoided" THEN "failed" ELSE "done"]
  /\ pref' = IF step[s] = "unearned" THEN pref ELSE NoKey
  /\ queue' = queue \cup ({owed[s]} \ {NoKey})
  /\ owed' = [owed EXCEPT ![s] = NoKey]
  /\ UNCHANGED <<txn, drawn, late, running, hold, tries, paid, recovery, replay, refused, kills>>
-----------------------------------------------------------------------------
Replaying(r) == replay[r].snapshot # {}

ReplayOfQueue == [snapshot |-> queue, todo |-> queue, failed |-> {}]

\* replayAll, whenever the home screen opens.
HomeReplay ==
  /\ running
  /\ ~ Replaying("home")
  /\ queue # {}
  /\ replay' = [replay EXCEPT !["home"] = ReplayOfQueue]
  /\ UNCHANGED <<txn, drawn, late, running, till, pref, recovery, queue, refused, kills>>

\* The gateway took the earn, or refused it with a 4xx: done with it either way.
Replayed(r, k) ==
  /\ k \in replay[r].todo
  /\ \/ EarnAnswered(k) /\ UNCHANGED refused
     \/ refused' = refused \cup ({k} \ {j \in Keys : txn[j] = "earned"}) /\ NotExecuted
  /\ replay' = [replay EXCEPT ![r].todo = @ \ {k}]
  /\ UNCHANGED <<drawn, running, till, pref, recovery, queue, kills>>

\* A 5xx or no answer: kept for the next replay.
NotReplayed(r, k) ==
  /\ k \in replay[r].todo
  /\ Unanswered("earn", k) \/ NotExecuted
  /\ replay' = [replay EXCEPT ![r].todo = @ \ {k}, ![r].failed = @ \cup {k}]
  /\ UNCHANGED <<drawn, running, till, pref, recovery, queue, refused, kills>>

\* Mutant of Merged: what was queued during the replay is overwritten.
MergedOver(r) == replay[r].failed

\* What failed, and what was queued meanwhile.
Merged(r) == replay[r].failed \cup (queue \ replay[r].snapshot)

\* Mutant of EndReplay: a replay with failures never finishes.
EndReplayStuck(r) ==
  /\ Replaying(r)
  /\ replay[r].todo = {}
  /\ queue' = Merged(r)
  /\ IF replay[r].failed = {} THEN replay' = [replay EXCEPT ![r] = NoReplay] ELSE UNCHANGED replay
  /\ UNCHANGED <<txn, drawn, late, running, till, pref, recovery, refused, kills>>

EndReplay(r) ==
  /\ Replaying(r)
  /\ replay[r].todo = {}
  /\ queue' = Merged(r)
  /\ replay' = [replay EXCEPT ![r] = NoReplay]
  /\ UNCHANGED <<txn, drawn, late, running, till, pref, recovery, refused, kills>>
-----------------------------------------------------------------------------
\* The calls the process was waiting for when it died (for the call of a replay,
\* see NotReplayed: nothing else of a replay survives).
Outstanding ==
  {[op |-> "authorize", key |-> Len(drawn)] : s \in {p \in Sales : step[p] = "authorizing"}}
  \cup {[op |-> "void", key |-> hold] : s \in {p \in Sales : step[p] = "voiding"}}
  \cup {[op |-> "capture", key |-> hold] : s \in {p \in Sales : step[p] = "capturing"}}
  \cup {[op |-> "earn", key |-> Len(drawn)] : s \in {p \in Sales : step[p] = "earning"}}
  \cup {[op |-> "void", key |-> k] : k \in {recovery} \ {NoKey}}

\* Only the preferences and outbox.json survive.
Kill ==
  /\ running
  /\ kills < MaxKills
  /\ kills' = kills + 1
  /\ running' = FALSE
  /\ late' = late \cup {c \in Outstanding : txn[c.key] \in {"none", "authorized"}}
  /\ step' = [s \in Sales |-> IF s \in Paying \cup Blocked THEN "failed" ELSE step[s]]
  /\ hold' = NoKey
  /\ tries' = 0
  /\ owed' = [s \in Sales |-> NoKey]
  /\ recovery' = NoKey
  /\ replay' = [r \in Replayers |-> NoReplay]
  /\ UNCHANGED <<txn, drawn, paid, pref, queue, refused>>

\* CheckoutViewModel's init: void the hold the preferences name, replay the queue.
Launch ==
  /\ ~ running
  /\ running' = TRUE
  /\ recovery' = pref
  /\ replay' = [replay EXCEPT !["launch"] = ReplayOfQueue]
  /\ UNCHANGED <<txn, drawn, late, till, pref, queue, refused, kills>>

\* Best effort; then the preference is removed, whatever it holds by now.
Recovered ==
  /\ recovery # NoKey
  /\ Executed("void", recovery) \/ Unanswered("void", recovery) \/ NotExecuted
  /\ recovery' = NoKey
  /\ pref' = NoKey
  /\ UNCHANGED <<drawn, running, till, outbox, kills>>

SaleStep(s) ==
  \/ \E redeem \in BOOLEAN : TakePayment(s, redeem)
  \/ Authorized(s) \/ NotAuthorized(s)
  \/ Approved(s) \/ NotApproved(s)
  \/ Voided(s)
  \/ Captured(s) \/ NotCaptured(s)
  \/ Earned(s) \/ NotEarned(s)
  \/ ResetSale(s) \/ LeaveBlocked(s) \/ BlockedReturns(s)

ReplayStep(r) ==
  \/ \E k \in Keys : Replayed(r, k) \/ NotReplayed(r, k)
  \/ EndReplay(r)

Next ==
  \/ \E s \in Sales : SaleStep(s)
  \/ \E r \in Replayers : ReplayStep(r)
  \/ \E c \in late : ServeLate(c)
  \/ HomeReplay
  \/ Kill \/ Launch \/ Recovered

Spec == Init /\ [][Next]_vars

(* Nothing is assumed of the cashier but that the app is opened again and   *)
(* comes back to its home screen, which replays the queue; and of the       *)
(* network, that while it is tried again and again, some earn is answered.  *)
Fairness ==
  /\ WF_vars(Launch)
  /\ WF_vars(HomeReplay)
  /\ WF_vars(EndReplay("home"))
  /\ WF_vars(\E k \in Keys : Replayed("home", k) \/ NotReplayed("home", k))
  /\ SF_vars(\E k \in Keys : Replayed("home", k))

FairSpec == Spec /\ Fairness

-----------------------------------------------------------------------------
(* Every variable holds what its table, file or field can hold.             *)
TypeOK ==
  /\ txn \in [Keys -> GW!States]
  /\ drawn \in Seq(Sales) /\ Len(drawn) <= MaxKeys
  /\ late \subseteq Request
  /\ running \in BOOLEAN
  /\ step \in [Sales -> {"new", "authorizing", "paying", "voiding", "capturing", "earning",
                        "unvoided", "uncaptured", "unearned", "done", "failed"}]
  /\ hold \in Keys \cup {NoKey} /\ tries \in 0..3
  /\ owed \in [Sales -> Keys \cup {NoKey}]
  /\ paid \subseteq Sales
  /\ pref \in Keys \cup {NoKey} /\ recovery \in Keys \cup {NoKey}
  /\ queue \subseteq Keys /\ refused \subseteq Keys
  /\ replay \in [Replayers -> [snapshot : SUBSET Keys, todo : SUBSET Keys, failed : SUBSET Keys]]
  /\ kills \in 0..MaxKills

KeysOf(s) == {k \in 1..Len(drawn) : drawn[k] = s}

(* "The server dedupes, so replays are safe": however the answers are lost, *)
(* late requests served and the queue replayed, twice at once and across    *)
(* restarts, a sale is awarded under one key and so once.                   *)
AwardedOnce ==
  \A s \in Sales : \A j, k \in KeysOf(s) : txn[j] = "earned" /\ txn[k] = "earned" => j = k

(* A sale the till reported as successful is never forgotten: its points    *)
(* were awarded or refused by the gateway, or its earn is still queued.     *)
DoneSaleIsKept ==
  \A s \in Sales :
    step[s] = "done" => \E k \in KeysOf(s) : txn[k] = "earned" \/ k \in queue \cup refused

(* The hold comes before the money and the points after it: no sale is      *)
(* awarded points, and none takes the customer's points, unless it was paid,*)
(* whatever request arrives late.                                           *)
OnlyPaidSalesSettle ==
  \A k \in DOMAIN drawn : txn[k] \in {"earned", "captured"} => drawn[k] \in paid

(* The queue drains: the earn of every sale reported as successful reaches  *)
(* the gateway, or is refused by it.                                        *)
DoneSaleIsSettled ==
  \A s \in Sales :
    step[s] = "done" ~> \E k \in KeysOf(s) : txn[k] = "earned" \/ k \in refused
=============================================================================
