---------------------------- MODULE PointsLedger ----------------------------
(***************************************************************************)
(* The points operations of packages/db/src/ledger/operations.ts for one   *)
(* brand, run by concurrent database transactions.                         *)
(*                                                                         *)
(* Every operation runs inside one interactive transaction at READ         *)
(* COMMITTED.  It first looks up and inserts its idempotency key, may read *)
(* a balance, then updates balances with guarded UPDATEs and completes the *)
(* key.  A session is such a transaction: Reserve and ReadAvailable are    *)
(* its reads (what it read may be stale later), Commit applies all of its  *)
(* writes at once, because a row stays locked from its UPDATE to the       *)
(* commit, and Abort is the rollback: an error thrown by the operation, a  *)
(* unique violation on the key, or a process that died.  Replay answers a  *)
(* request whose key is already committed from the stored response.        *)
(***************************************************************************)
EXTENDS Balances

CONSTANTS Members,    \* customers of the brand, one points_liability account each
          Keys,       \* values of (actor_id, key), the unique index of idempotency_key
          Sessions,   \* database transactions that may be open at once
          MaxPoints,  \* largest amount a request names
          Requests,   \* the requests callers make: [op, member, points]
          None

Ops == {"earn", "load", "spend", "adjust", "redeem_auth", "redeem_capture", "void"}

\* The brand's own accounts, the other side of every member entry.
Contra == {"points_expense", "points_sold", "points_revenue"}

Accounts == Members \cup Contra

ASSUME RequestsAssumption ==
  /\ MaxPoints \in Nat
  /\ Requests \subseteq [op : Ops, member : Members, points : -MaxPoints..MaxPoints]

ASSUME NamesAssumption ==
  /\ Members \cap Contra = {}
  /\ None \notin Keys
  /\ None \notin Requests
  /\ None \notin Int
  /\ None \notin [request : Requests, applied : 0..MaxPoints]

VARIABLES
  balance,   \* account_balance, by account
  debits,    \* the table entry: sum of its debit rows, by account
  credits,   \* the table entry: sum of its credit rows, by account
  keyTable,  \* idempotency_key: the committed row of each key, or None
  postings,  \* how many journals carry each key
  session    \* the open transactions, and the last answer each connection gave

tables == <<balance, debits, credits>>

vars == <<balance, debits, credits, keyTable, postings, session>>

\* A done key keeps the hash of its request and the response it replays.
KeyRow == [request : Requests, applied : 0..MaxPoints]

Idle == [pc |-> "idle", key |-> None, request |-> None, amount |-> None]

Session ==
  [pc : {"idle", "reserved", "sized", "answered"},
   key : Keys \cup {None},
   request : Requests \cup {None},
   amount : 0..MaxPoints \cup {None}]

Init ==
  /\ balance = [a \in Accounts |-> NewBalance]
  /\ debits = [a \in Accounts |-> 0]
  /\ credits = [a \in Accounts |-> 0]
  /\ keyTable = [k \in Keys |-> None]
  /\ postings = [k \in Keys |-> 0]
  /\ session = [s \in Sessions |-> Idle]

-----------------------------------------------------------------------------
Open(s) == session[s].pc \in {"reserved", "sized"}

(* reserveIdempotency: no row yet, so this transaction inserts its own. The *)
(* insert is invisible to the others until the commit.                      *)
Reserve(s, k, r) ==
  /\ ~Open(s)
  /\ keyTable[k] = None
  /\ session' = [session EXCEPT ![s] =
       [pc |-> "reserved", key |-> k, request |-> r, amount |-> None]]
  /\ UNCHANGED <<tables, keyTable, postings>>

\* Mutant of Replay: the request's hash is not compared.
ReplayAnyRequest(s, k, r) ==
  /\ ~Open(s)
  /\ keyTable[k] # None
  /\ session' = [session EXCEPT ![s] =
       [pc |-> "answered", key |-> k, request |-> r, amount |-> keyTable[k].applied]]
  /\ UNCHANGED <<tables, keyTable, postings>>

(* The same request again: the stored response, and nothing else happens.   *)
Replay(s, k, r) ==
  /\ ~Open(s)
  /\ keyTable[k] # None
  /\ keyTable[k].request = r
  /\ session' = [session EXCEPT ![s] =
       [pc |-> "answered", key |-> k, request |-> r, amount |-> keyTable[k].applied]]
  /\ UNCHANGED <<tables, keyTable, postings>>

(* The key again with another request: idempotency_conflict.                *)
Conflict(s, k, r) ==
  /\ ~Open(s)
  /\ keyTable[k] # None
  /\ keyTable[k].request # r
  /\ session' = [session EXCEPT ![s] = Idle]
  /\ UNCHANGED <<tables, keyTable, postings>>

\* Does the operation take back points, so that adjustPoints clamps it first?
ClawsBack(r) == r.op = "adjust" /\ r.points < 0

(* adjustPoints reads the available balance and clamps the claw-back to it. *)
ReadAvailable(s) ==
  LET r    == session[s].request
      left == Available(balance[r.member])
  IN /\ session[s].pc = "reserved"
     /\ ClawsBack(r)
     /\ session' = [session EXCEPT
          ![s].pc = "sized",
          ![s].amount = IF left <= 0 THEN 0
                        ELSE IF -r.points > left THEN left ELSE -r.points]
     /\ UNCHANGED <<tables, keyTable, postings>>

\* The journal's two legs move amount n from one account to the other.
Post(debited, credited, n) ==
  /\ balance' = [balance EXCEPT ![debited] = Debit(@, n), ![credited] = Credit(@, n)]
  /\ debits' = [debits EXCEPT ![debited] = @ + n]
  /\ credits' = [credits EXCEPT ![credited] = @ + n]

\* Mutant of PostGuarded: a debit without its guard.
PostUnguarded(debited, credited, n) == Post(debited, credited, n)

\* applyPosted guards the debit of a credit-normal account only.
PostGuarded(debited, credited, n) ==
  /\ HasAvailable(balance[debited], n)
  /\ Post(debited, credited, n)

EarnPoints(m, n)  == n > 0 /\ Post("points_expense", m, n)
LoadPoints(m, n)  == n > 0 /\ Post("points_sold", m, n)
SpendPoints(m, n) == n > 0 /\ PostGuarded(m, "points_revenue", n)

AuthorizeRedeem(m, n) ==
  /\ n > 0
  /\ HasAvailable(balance[m], n)
  /\ balance' = [balance EXCEPT ![m] = Hold(@, n)]
  /\ UNCHANGED <<debits, credits>>

\* Mutant of CaptureRedeem: its journal applies the balances once more.
CaptureRedeemApplied(m, n) ==
  /\ n > 0
  /\ HasPending(balance[m], n)
  /\ balance' = [balance EXCEPT ![m] = Debit(Capture(@, n), n),
                                !["points_revenue"] = Credit(Credit(@, n), n)]
  /\ debits' = [debits EXCEPT ![m] = @ + n]
  /\ credits' = [credits EXCEPT !["points_revenue"] = @ + n]

\* captureHold and creditAccount move the balances, the journal only records.
CaptureRedeem(m, n) ==
  /\ n > 0
  /\ HasPending(balance[m], n)
  /\ balance' = [balance EXCEPT ![m] = Capture(@, n), !["points_revenue"] = Credit(@, n)]
  /\ debits' = [debits EXCEPT ![m] = @ + n]
  /\ credits' = [credits EXCEPT !["points_revenue"] = @ + n]

VoidRedeem(m, n) ==
  /\ n > 0
  /\ HasPending(balance[m], n)
  /\ balance' = [balance EXCEPT ![m] = Release(@, n)]
  /\ UNCHANGED <<debits, credits>>

Grant(m, n) == n > 0 /\ Post("points_expense", m, n)

\* A claw-back that was clamped to nothing completes its key without a journal.
ClawBack(m, n) ==
  \/ n = 0 /\ UNCHANGED tables
  \/ n > 0 /\ PostGuarded(m, "points_expense", n)

\* What a session's operation does to the tables when it reaches its end.
Apply(r, n) ==
  \/ r.op = "earn"           /\ EarnPoints(r.member, n)
  \/ r.op = "load"           /\ LoadPoints(r.member, n)
  \/ r.op = "spend"          /\ SpendPoints(r.member, n)
  \/ r.op = "redeem_auth"    /\ AuthorizeRedeem(r.member, n)
  \/ r.op = "redeem_capture" /\ CaptureRedeem(r.member, n)
  \/ r.op = "void"           /\ VoidRedeem(r.member, n)
  \/ r.op = "adjust" /\ ~ClawsBack(r) /\ Grant(r.member, n)
  \/ ClawsBack(r) /\ ClawBack(r.member, n)

\* A claw-back commits what it clamped, everything else what was asked for.
Ready(s) == session[s].pc = IF ClawsBack(session[s].request) THEN "sized" ELSE "reserved"
Amount(s) == IF session[s].pc = "sized" THEN session[s].amount ELSE session[s].request.points

\* Mutant of KeyFree: no unique index on the key.
KeyUnchecked(k) == TRUE

\* The unique index on (actor_id, key), which a concurrent insert trips.
KeyFree(k) == keyTable[k] = None

Commit(s) ==
  LET k == session[s].key
      r == session[s].request
      n == Amount(s)
  IN /\ Open(s)
     /\ Ready(s)
     /\ KeyFree(k)
     /\ Apply(r, n)
     /\ keyTable' = [keyTable EXCEPT ![k] = [request |-> r, applied |-> n]]
     /\ postings' = [postings EXCEPT ![k] = @ + (IF n = 0 THEN 0 ELSE 1)]
     /\ session' = [session EXCEPT ![s] =
          [pc |-> "answered", key |-> k, request |-> r, amount |-> n]]

Abort(s) ==
  /\ Open(s)
  /\ session' = [session EXCEPT ![s] = Idle]
  /\ UNCHANGED <<tables, keyTable, postings>>

Next ==
  \E s \in Sessions :
    \/ \E k \in Keys, r \in Requests :
         Reserve(s, k, r) \/ Replay(s, k, r) \/ Conflict(s, k, r)
    \/ ReadAvailable(s)
    \/ Commit(s)
    \/ Abort(s)

Spec == Init /\ [][Next]_vars
-----------------------------------------------------------------------------
(* Every variable holds what its table or connection can hold.              *)
TypeOK ==
  /\ balance \in [Accounts -> Balance]
  /\ debits \in [Accounts -> Nat]
  /\ credits \in [Accounts -> Nat]
  /\ keyTable \in [Keys -> KeyRow \cup {None}]
  /\ postings \in [Keys -> Nat]
  /\ session \in [Sessions -> Session]

(* However many sessions debit, hold, capture and claw back a member at     *)
(* once, from balances read before the others committed, no member is ever  *)
(* overdrawn and no hold is ever released twice: the database's CHECK       *)
(* constraints on account_balance are never what stops a transaction.       *)
NeverOverdrawn == \A m \in Members : RowChecks(balance[m])

(* "Balances are derived from an immutable ledger": the cached row of every *)
(* account equals the sum of its entries, although captureRedeem moves the  *)
(* balances itself and posts its journal with applyBalances = false.        *)
BalancesMatchEntries ==
  \A a \in Accounts :
    /\ balance[a].posted_credits = credits[a]
    /\ balance[a].posted_debits = debits[a]

(* A key posts at most one journal, however often and however concurrently  *)
(* its request is sent; a journal exists only under a committed key; and a  *)
(* committed key without a journal is a claw-back that found nothing left.  *)
AtMostOncePerKey ==
  \A k \in Keys :
    /\ postings[k] <= 1
    /\ postings[k] = 1 => keyTable[k] # None
    /\ keyTable[k] # None /\ postings[k] = 0 =>
         ClawsBack(keyTable[k].request) /\ keyTable[k].applied = 0

(* Every answer a caller was given, first or replayed, is the committed     *)
(* outcome of its own request.                                              *)
AnswersAreTrue ==
  \A s \in Sessions :
    session[s].pc = "answered" =>
      keyTable[session[s].key] =
        [request |-> session[s].request, applied |-> session[s].amount]

(* The ledger is append-only and a done key is never rewritten.             *)
AppendOnly ==
  [][/\ \A a \in Accounts : debits'[a] >= debits[a] /\ credits'[a] >= credits[a]
     /\ \A k \in Keys : keyTable[k] # None => keyTable'[k] = keyTable[k]]_vars

(* The abstract ledger, read off the tables.                                *)
Account == INSTANCE PointsAccount WITH
  Amounts   <- 1..MaxPoints,
  available <- [m \in Members |-> Available(balance[m])],
  held      <- [m \in Members |-> balance[m].pending_debits],
  done      <- {k \in Keys : keyTable[k] # None}

(* Every step of the concurrent ledger is one step of the abstract one, or  *)
(* none: each request takes effect once, in one step, and in full.          *)
ImplementsAccount == Account!Spec
=============================================================================
