------------------------------ MODULE Balances ------------------------------
(***************************************************************************)
(* One row of the table account_balance, and the single-statement UPDATEs  *)
(* of packages/db/src/ledger/engine.ts that change it.  Each UPDATE is     *)
(* atomic in Postgres (row lock, WHERE re-evaluated on the latest          *)
(* committed row), so it is a pair of operators here: the WHERE clause as  *)
(* a predicate, the SET clause as a function of the row.                   *)
(***************************************************************************)
EXTENDS Integers

Balance == [posted_credits : Nat, posted_debits : Nat, pending_debits : Nat]

\* The row getOrCreateAccount inserts beside a new account.
NewBalance == [posted_credits |-> 0, posted_debits |-> 0, pending_debits |-> 0]

\* getBalance: what is left of a credit-normal account once holds are taken off.
Available(b) == b.posted_credits - b.posted_debits - b.pending_debits

\* Mutant of HasAvailable: the guard forgets what is held.
HasPosted(b, n) == b.posted_credits - b.posted_debits >= n

\* WHERE (posted_credits - posted_debits - pending_debits) >= n
HasAvailable(b, n) == Available(b) >= n

\* Mutant of HasPending: the release that underflowed pending_debits.
HasPendingUnchecked(b, n) == TRUE

\* WHERE pending_debits >= n
HasPending(b, n) == b.pending_debits >= n

Credit(b, n) == [b EXCEPT !.posted_credits = @ + n]

\* Mutant of Debit: a plain debit is written with the SET clause of
\* captureHold, which also releases a hold, here one that nobody placed.
DebitOfHold(b, n) ==
  [b EXCEPT !.posted_debits = @ + n, !.pending_debits = @ - n]

Debit(b, n)  == [b EXCEPT !.posted_debits = @ + n]

\* holdPending, releasePending and captureHold.
Hold(b, n)    == [b EXCEPT !.pending_debits = @ + n]
Release(b, n) == [b EXCEPT !.pending_debits = @ - n]

\* Mutant of Capture: the hold is released and captured.
CaptureAndRelease(b, n) == Debit(Release(Release(b, n), n), n)

Capture(b, n) == Debit(Release(b, n), n)

\* The CHECK constraints account_balance_non_negative and pending_debits >= 0.
\* They are the database's last line of defence: the model leaves them out of
\* the guards, so that an invariant can say no statement ever trips them.
RowChecks(b) == b.pending_debits >= 0 /\ Available(b) >= 0
=============================================================================
