------------------------ MODULE PointsLedger_proofs ------------------------
(***************************************************************************)
(* Proofs about PointsLedger, for every set of members, keys, sessions and *)
(* requests.  LedgerInv is the inductive invariant: the type invariant,    *)
(* what an open or answered session knows, and the safety invariants.      *)
(***************************************************************************)
EXTENDS PointsLedger, Accounting_proofs

(* What a session has in hand: an open one has a key and a request, and an  *)
(* amount once it has clamped a claw-back or given its answer.              *)
Knows(e) ==
  /\ e.pc # "idle" => e.key \in Keys /\ e.request \in Requests
  /\ e.pc \in {"sized", "answered"} => e.amount \in 0..MaxPoints

\* An answer is the committed row of its key.
Truthful(e) ==
  e.pc = "answered" => keyTable[e.key] = [request |-> e.request, applied |-> e.amount]

SessionsKnow == \A s \in Sessions : Knows(session[s])

LedgerInv ==
  /\ TypeOK
  /\ SessionsKnow
  /\ NeverOverdrawn
  /\ BalancesMatchEntries
  /\ AtMostOncePerKey
  /\ AnswersAreTrue

-----------------------------------------------------------------------------
(* A request that a caller may make has the fields its operation needs.     *)
LEMMA RequestType ==
  ASSUME NEW r \in Requests
  PROVE  /\ r.op \in Ops
         /\ r.member \in Members
         /\ r.points \in -MaxPoints..MaxPoints
         /\ MaxPoints \in Nat
BY RequestsAssumption

(* The contra account of a journal is never a member's own account.         *)
LEMMA ContraApart ==
  ASSUME NEW m \in Members
  PROVE  /\ m # "points_expense" /\ m # "points_sold" /\ m # "points_revenue"
         /\ m \in Accounts
         /\ "points_expense" \in Accounts
         /\ "points_sold" \in Accounts
         /\ "points_revenue" \in Accounts
         /\ Members \subseteq Accounts
BY NamesAssumption DEF Accounts, Contra

(* Posting a journal's two legs keeps the rows well formed and the cached   *)
(* balances equal to the entries, and only ever adds to the entries.        *)
LEMMA PostLegs ==
  ASSUME NEW d \in Accounts, NEW c \in Accounts, d # c,
         NEW n \in Nat,
         balance \in [Accounts -> Balance],
         debits \in [Accounts -> Nat],
         credits \in [Accounts -> Nat],
         BalancesMatchEntries,
         Post(d, c, n)
  PROVE  /\ balance' \in [Accounts -> Balance]
         /\ debits' \in [Accounts -> Nat]
         /\ credits' \in [Accounts -> Nat]
         /\ BalancesMatchEntries'
         /\ \A a \in Accounts : debits'[a] >= debits[a] /\ credits'[a] >= credits[a]
         /\ balance'[d] = Debit(balance[d], n)
         /\ balance'[c] = Credit(balance[c], n)
         /\ \A a \in Accounts \ {d, c} : balance'[a] = balance[a]
<1> DEFINE x == Debit(balance[d], n)
           y == Credit(balance[c], n)
<1>1. /\ balance[d] \in Balance /\ balance[c] \in Balance
      /\ x \in Balance
      /\ x.posted_credits = balance[d].posted_credits
      /\ x.posted_debits = balance[d].posted_debits + n
      /\ y \in Balance
      /\ y.posted_credits = balance[c].posted_credits + n
      /\ y.posted_debits = balance[c].posted_debits
  BY RowDebit, RowCredit
<1>2. /\ balance' \in [Accounts -> Balance]
      /\ balance'[d] = x
      /\ balance'[c] = y
      /\ \A a \in Accounts \ {d, c} : balance'[a] = balance[a]
  BY <1>1 DEF Post
<1> HIDE DEF x, y
<1>3. /\ debits' \in [Accounts -> Nat]
      /\ credits' \in [Accounts -> Nat]
      /\ \A a \in Accounts : debits'[a] = IF a = d THEN debits[a] + n ELSE debits[a]
      /\ \A a \in Accounts : credits'[a] = IF a = c THEN credits[a] + n ELSE credits[a]
  BY DEF Post
<1>5. ASSUME NEW a \in Accounts
      PROVE  debits'[a] >= debits[a] /\ credits'[a] >= credits[a]
             /\ balance'[a].posted_credits = credits'[a]
             /\ balance'[a].posted_debits = debits'[a]
  <2>1. CASE a = d
    BY <1>1, <1>2, <1>3, <2>1 DEF BalancesMatchEntries
  <2>2. CASE a = c
    BY <1>1, <1>2, <1>3, <2>2 DEF BalancesMatchEntries
  <2>3. CASE a \in Accounts \ {d, c}
    BY <1>2, <1>3, <2>3 DEF BalancesMatchEntries
  <2> QED BY <2>1, <2>2, <2>3
<1> QED BY <1>2, <1>3, <1>5 DEF BalancesMatchEntries, x, y

(* What every step owes the two tables.                                     *)
TablesStaySafe ==
  /\ balance' \in [Accounts -> Balance]
  /\ debits' \in [Accounts -> Nat]
  /\ credits' \in [Accounts -> Nat]
  /\ NeverOverdrawn'
  /\ BalancesMatchEntries'
  /\ \A a \in Accounts : debits'[a] >= debits[a] /\ credits'[a] >= credits[a]

(* The effect of one operation on the tables: nothing it does can overdraw  *)
(* a member or part the balances from the entries, and only a clamped       *)
(* claw-back comes to nothing.                                              *)
LEMMA ApplyIsSafe ==
  ASSUME NEW r \in Requests, NEW n \in Int, n <= MaxPoints,
         balance \in [Accounts -> Balance],
         debits \in [Accounts -> Nat],
         credits \in [Accounts -> Nat],
         NeverOverdrawn,
         BalancesMatchEntries,
         Apply(r, n)
  PROVE  /\ TablesStaySafe
         /\ n \in 0..MaxPoints
         /\ n = 0 => ClawsBack(r)
<1> DEFINE m == r.member
<1>0. /\ m \in Members
      /\ m \in Accounts
      /\ "points_expense" \in Accounts /\ "points_sold" \in Accounts
      /\ "points_revenue" \in Accounts
      /\ m # "points_expense" /\ m # "points_sold" /\ m # "points_revenue"
      /\ Members \subseteq Accounts
      /\ "points_expense" \notin Members /\ "points_sold" \notin Members
      /\ "points_revenue" \notin Members
      /\ MaxPoints \in Nat
  BY RequestType, ContraApart
<1>1. ASSUME NEW x \in {"points_expense", "points_sold"}, n > 0, Post(x, m, n)
      PROVE  TablesStaySafe
  <2>1. x \in Accounts /\ x # m /\ x \notin Members /\ n \in Nat
    BY <1>0, <1>1
  <2>2. /\ balance' \in [Accounts -> Balance]
        /\ debits' \in [Accounts -> Nat]
        /\ credits' \in [Accounts -> Nat]
        /\ BalancesMatchEntries'
        /\ \A a \in Accounts : debits'[a] >= debits[a] /\ credits'[a] >= credits[a]
        /\ balance'[m] = Credit(balance[m], n)
        /\ \A a \in Accounts \ {x, m} : balance'[a] = balance[a]
    BY <1>0, <1>1, <2>1, PostLegs
  <2>3. RowChecks(Credit(balance[m], n))
    BY <1>0, <2>1, RowCredit DEF NeverOverdrawn
  <2>4. NeverOverdrawn'
    BY <1>0, <2>1, <2>2, <2>3 DEF NeverOverdrawn
  <2> QED BY <2>2, <2>4 DEF TablesStaySafe
<1>2. ASSUME NEW x \in {"points_expense", "points_revenue"}, n > 0, PostGuarded(m, x, n)
      PROVE  TablesStaySafe
  <2>1. x \in Accounts /\ x # m /\ x \notin Members /\ n \in Nat
    BY <1>0, <1>2
  <2>2. Post(m, x, n) /\ HasAvailable(balance[m], n)
    BY <1>2 DEF PostGuarded
  <2>3. /\ balance' \in [Accounts -> Balance]
        /\ debits' \in [Accounts -> Nat]
        /\ credits' \in [Accounts -> Nat]
        /\ BalancesMatchEntries'
        /\ \A a \in Accounts : debits'[a] >= debits[a] /\ credits'[a] >= credits[a]
        /\ balance'[m] = Debit(balance[m], n)
        /\ \A a \in Accounts \ {m, x} : balance'[a] = balance[a]
    BY <1>0, <2>1, <2>2, PostLegs
  <2>4. RowChecks(Debit(balance[m], n))
    BY <1>0, <2>1, <2>2, RowDebit
  <2>5. NeverOverdrawn'
    BY <1>0, <2>1, <2>3, <2>4 DEF NeverOverdrawn
  <2> QED BY <2>3, <2>5 DEF TablesStaySafe
<1>3. ASSUME n > 0, NEW b \in Balance, RowChecks(b),
             b.posted_credits = balance[m].posted_credits,
             b.posted_debits = balance[m].posted_debits,
             balance' = [balance EXCEPT ![m] = b],
             UNCHANGED <<debits, credits>>
      PROVE  TablesStaySafe
  <2>1. balance' \in [Accounts -> Balance] /\ balance'[m] = b
        /\ \A a \in Accounts \ {m} : balance'[a] = balance[a]
    BY <1>0, <1>3
  <2> QED BY <1>0, <1>3, <2>1 DEF TablesStaySafe, NeverOverdrawn, BalancesMatchEntries
<1>4. ASSUME AuthorizeRedeem(m, n)
      PROVE  TablesStaySafe
  <2> DEFINE b == Hold(balance[m], n)
  <2>1. /\ n > 0 /\ n \in Nat /\ balance[m] \in Balance
        /\ HasAvailable(balance[m], n)
        /\ balance' = [balance EXCEPT ![m] = b]
        /\ UNCHANGED <<debits, credits>>
    BY <1>0, <1>4 DEF AuthorizeRedeem
  <2>2. /\ b \in Balance /\ RowChecks(b)
        /\ b.posted_credits = balance[m].posted_credits
        /\ b.posted_debits = balance[m].posted_debits
    BY <1>0, <2>1, RowHold
  <2> HIDE DEF b
  <2> QED BY <1>3, <2>1, <2>2
<1>5. ASSUME VoidRedeem(m, n)
      PROVE  TablesStaySafe
  <2> DEFINE b == Release(balance[m], n)
  <2>1. /\ n > 0 /\ n \in Nat /\ balance[m] \in Balance
        /\ HasPending(balance[m], n)
        /\ balance' = [balance EXCEPT ![m] = b]
        /\ UNCHANGED <<debits, credits>>
    BY <1>0, <1>5 DEF VoidRedeem
  <2>2. /\ b \in Balance /\ RowChecks(b)
        /\ b.posted_credits = balance[m].posted_credits
        /\ b.posted_debits = balance[m].posted_debits
    BY <1>0, <2>1, RowRelease DEF NeverOverdrawn
  <2> HIDE DEF b
  <2> QED BY <1>3, <2>1, <2>2
<1>6. ASSUME CaptureRedeem(m, n)
      PROVE  TablesStaySafe
  <2> DEFINE rev == "points_revenue"
             x == Capture(balance[m], n)
             y == Credit(balance[rev], n)
  <2>1. /\ n \in Nat
        /\ HasPending(balance[m], n)
        /\ balance' = [balance EXCEPT ![m] = Capture(@, n), ![rev] = Credit(@, n)]
        /\ debits' = [debits EXCEPT ![m] = @ + n]
        /\ credits' = [credits EXCEPT ![rev] = @ + n]
    BY <1>6 DEF CaptureRedeem
  <2>2. /\ balance[m] \in Balance /\ balance[rev] \in Balance
        /\ x \in Balance
        /\ x.posted_credits = balance[m].posted_credits
        /\ x.posted_debits = balance[m].posted_debits + n
        /\ RowChecks(x)
        /\ y \in Balance
        /\ y.posted_credits = balance[rev].posted_credits + n
        /\ y.posted_debits = balance[rev].posted_debits
    BY <1>0, <2>1, RowCapture, RowCredit DEF NeverOverdrawn
  <2>3. /\ balance' \in [Accounts -> Balance]
        /\ balance'[m] = x
        /\ balance'[rev] = y
        /\ \A a \in Accounts \ {m, rev} : balance'[a] = balance[a]
    BY <1>0, <2>1, <2>2
  <2> HIDE DEF x, y
  <2>4. /\ debits' \in [Accounts -> Nat]
        /\ credits' \in [Accounts -> Nat]
        /\ \A a \in Accounts : debits'[a] = IF a = m THEN debits[a] + n ELSE debits[a]
        /\ \A a \in Accounts : credits'[a] = IF a = rev THEN credits[a] + n ELSE credits[a]
    BY <1>0, <2>1
  <2>5. /\ rev \notin Members
        /\ \A a \in Members : a = m \/ a \in Accounts \ {m, rev}
    BY <1>0
  <2> HIDE DEF rev
  <2>6. ASSUME NEW a \in Accounts
        PROVE  debits'[a] >= debits[a] /\ credits'[a] >= credits[a]
               /\ balance'[a].posted_credits = credits'[a]
               /\ balance'[a].posted_debits = debits'[a]
    <3>1. CASE a = m
      BY <2>1, <2>2, <2>3, <2>4, <3>1 DEF BalancesMatchEntries
    <3>2. CASE a = rev
      BY <2>1, <2>2, <2>3, <2>4, <3>2 DEF BalancesMatchEntries
    <3>3. CASE a \in Accounts \ {m, rev}
      BY <2>3, <2>4, <3>3 DEF BalancesMatchEntries
    <3> QED BY <3>1, <3>2, <3>3
  <2>7. NeverOverdrawn'
    BY <2>2, <2>3, <2>5 DEF NeverOverdrawn
  <2> QED BY <2>3, <2>4, <2>6, <2>7 DEF TablesStaySafe, BalancesMatchEntries
<1>7. ASSUME n = 0, UNCHANGED tables
      PROVE  TablesStaySafe
  BY <1>7 DEF TablesStaySafe, NeverOverdrawn, BalancesMatchEntries, tables
<1>8. n > 0 \/ (n = 0 /\ ClawsBack(r) /\ UNCHANGED tables)
  BY DEF Apply, EarnPoints, LoadPoints, SpendPoints, AuthorizeRedeem, CaptureRedeem,
         VoidRedeem, Grant, ClawBack
<1>9. TablesStaySafe
  BY <1>1, <1>2, <1>4, <1>5, <1>6, <1>7
  DEF Apply, EarnPoints, LoadPoints, SpendPoints, Grant, ClawBack
<1> QED BY <1>0, <1>8, <1>9
-----------------------------------------------------------------------------
(* The five actions that write no table.                                    *)
LEMMA OnlySessions ==
  ASSUME LedgerInv,
         NEW s \in Sessions, NEW e \in Session,
         session' = [session EXCEPT ![s] = e],
         UNCHANGED <<tables, keyTable, postings>>,
         Knows(e),
         Truthful(e)
  PROVE  LedgerInv'
<1> USE DEF LedgerInv
<1>1. /\ UNCHANGED <<balance, debits, credits, keyTable, postings>>
      /\ session \in [Sessions -> Session]
  BY DEF tables, TypeOK
<1>2. /\ session' \in [Sessions -> Session]
      /\ \A t \in Sessions : session'[t] = IF t = s THEN e ELSE session[t]
  BY <1>1
<1>3. TypeOK'
  BY <1>1, <1>2 DEF TypeOK
<1>4. SessionsKnow'
  BY <1>1, <1>2 DEF SessionsKnow, Knows
<1>5. AnswersAreTrue'
  BY <1>1, <1>2 DEF AnswersAreTrue, Truthful
<1>6. NeverOverdrawn' /\ BalancesMatchEntries' /\ AtMostOncePerKey'
  BY <1>1 DEF NeverOverdrawn, BalancesMatchEntries, AtMostOncePerKey
<1> QED BY <1>3, <1>4, <1>5, <1>6

(* Reserving a key only moves the connection: the tables stay as they were. *)
LEMMA ReserveKeeps ==
  ASSUME LedgerInv, NEW s \in Sessions, NEW k \in Keys, NEW r \in Requests, Reserve(s, k, r)
  PROVE  LedgerInv'
<1> DEFINE e == [pc |-> "reserved", key |-> k, request |-> r, amount |-> None]
<1>1. e \in Session /\ Knows(e) /\ Truthful(e)
  BY DEF Session, Knows, Truthful
<1>2. session' = [session EXCEPT ![s] = e] /\ UNCHANGED <<tables, keyTable, postings>>
  BY DEF Reserve
<1> HIDE DEF e
<1> QED BY <1>1, <1>2, OnlySessions

(* A replay answers with the response the key committed, for the same request. *)
LEMMA ReplayKeeps ==
  ASSUME LedgerInv, NEW s \in Sessions, NEW k \in Keys, NEW r \in Requests, Replay(s, k, r)
  PROVE  LedgerInv'
<1> DEFINE n == keyTable[k].applied
           e == [pc |-> "answered", key |-> k, request |-> r, amount |-> n]
<1>1. keyTable[k] \in KeyRow /\ keyTable[k].request = r
  BY DEF LedgerInv, TypeOK, Replay
<1>2. n \in 0..MaxPoints /\ keyTable[k] = [request |-> r, applied |-> n]
  BY <1>1 DEF KeyRow
<1>3. session' = [session EXCEPT ![s] = e] /\ UNCHANGED <<tables, keyTable, postings>>
  BY DEF Replay
<1> HIDE DEF n
<1>4. e \in Session /\ Knows(e) /\ Truthful(e)
  BY <1>2 DEF Session, Knows, Truthful
<1> HIDE DEF e
<1> QED BY <1>3, <1>4, OnlySessions

(* A connection at rest satisfies every invariant about connections.        *)
LEMMA IdleIsFine == Idle \in Session /\ Knows(Idle) /\ Truthful(Idle)
BY DEF Idle, Session, Knows, Truthful

(* adjustPoints reads a balance and clamps its debit: no table changes.      *)
LEMMA ReadKeeps ==
  ASSUME LedgerInv, NEW s \in Sessions, ReadAvailable(s)
  PROVE  LedgerInv'
<1> DEFINE r == session[s].request
           left == Available(balance[r.member])
           n == IF left <= 0 THEN 0 ELSE IF -r.points > left THEN left ELSE -r.points
           e == [session[s] EXCEPT !.pc = "sized", !.amount = n]
<1>1. /\ session[s] \in Session /\ session[s].pc = "reserved"
      /\ session[s].key \in Keys /\ r \in Requests /\ r.points < 0
  BY DEF LedgerInv, TypeOK, SessionsKnow, Knows, ReadAvailable, ClawsBack
<1>2. balance[r.member] \in Balance /\ left \in Int
  BY <1>1, RequestType DEF LedgerInv, TypeOK, Accounts, Balance, Available
<1>3. n \in 0..MaxPoints
  BY <1>1, <1>2, RequestType
<1>4. session' = [session EXCEPT ![s] = e] /\ UNCHANGED <<tables, keyTable, postings>>
  BY DEF ReadAvailable, LedgerInv, TypeOK
<1> HIDE DEF n
<1>5. /\ e \in Session /\ e.pc = "sized" /\ e.key = session[s].key
      /\ e.request = r /\ e.amount = n
  BY <1>1, <1>3 DEF Session
<1> HIDE DEF e
<1>6. Knows(e) /\ Truthful(e)
  BY <1>1, <1>3, <1>5 DEF Knows, Truthful
<1> QED BY <1>4, <1>5, <1>6, OnlySessions

(* The commit: the operation's effect, its journal and its key in one step. *)
LEMMA CommitKeeps ==
  ASSUME LedgerInv, NEW s \in Sessions, Commit(s)
  PROVE  /\ LedgerInv'
         /\ \A a \in Accounts : debits'[a] >= debits[a] /\ credits'[a] >= credits[a]
         /\ \A k \in Keys : keyTable[k] # None => keyTable'[k] = keyTable[k]
<1> DEFINE k == session[s].key
           r == session[s].request
           n == Amount(s)
           row == [request |-> r, applied |-> n]
           e == [pc |-> "answered", key |-> k, request |-> r, amount |-> n]
<1> USE DEF LedgerInv
<1>1. /\ session \in [Sessions -> Session] /\ session[s] \in Session
      /\ k \in Keys /\ r \in Requests
      /\ Knows(session[s])
  BY DEF TypeOK, SessionsKnow, Knows, Commit, Open
<1>2. n \in Int /\ n <= MaxPoints
  BY <1>1, RequestType DEF Amount, Knows
<1>3. Apply(r, n) /\ keyTable[k] = None
  BY DEF Commit, KeyFree
<1>4. TablesStaySafe /\ n \in 0..MaxPoints /\ (n = 0 => ClawsBack(r))
  BY <1>1, <1>2, <1>3, ApplyIsSafe DEF TypeOK
<1>5. /\ keyTable' = [keyTable EXCEPT ![k] = row]
      /\ postings' = [postings EXCEPT ![k] = @ + (IF n = 0 THEN 0 ELSE 1)]
      /\ session' = [session EXCEPT ![s] = e]
  BY DEF Commit
<1> HIDE DEF n
<1>6. row \in KeyRow /\ row # None /\ row.request = r /\ row.applied = n
  BY <1>1, <1>4, NamesAssumption DEF KeyRow
<1>7. /\ e \in Session /\ Knows(e)
      /\ e.pc = "answered" /\ e.key = k
      /\ row = [request |-> e.request, applied |-> e.amount]
  BY <1>1, <1>4 DEF Session, Knows
<1> HIDE DEF row, e, k
<1>8. /\ keyTable' \in [Keys -> KeyRow \cup {None}]
      /\ \A j \in Keys : keyTable'[j] = IF j = k THEN row ELSE keyTable[j]
      /\ session' \in [Sessions -> Session]
      /\ \A t \in Sessions : session'[t] = IF t = s THEN e ELSE session[t]
  BY <1>1, <1>5, <1>6, <1>7 DEF TypeOK
<1>9. postings[k] = 0
  BY <1>1, <1>3 DEF TypeOK, AtMostOncePerKey
<1>10. /\ postings' \in [Keys -> Nat]
       /\ \A j \in Keys : postings'[j] = IF j # k THEN postings[j] ELSE IF n = 0 THEN 0 ELSE 1
  BY <1>1, <1>4, <1>5, <1>9 DEF TypeOK
<1>11. TypeOK'
  BY <1>4, <1>8, <1>10 DEF TypeOK, TablesStaySafe
<1>12. SessionsKnow'
  BY <1>7, <1>8 DEF SessionsKnow, Knows
<1>13. AtMostOncePerKey'
  <2> SUFFICES ASSUME NEW j \in Keys
               PROVE  /\ postings'[j] <= 1
                      /\ postings'[j] = 1 => keyTable'[j] # None
                      /\ keyTable'[j] # None /\ postings'[j] = 0 =>
                           ClawsBack(keyTable'[j].request) /\ keyTable'[j].applied = 0
    BY DEF AtMostOncePerKey, ClawsBack
  <2>1. CASE j = k
    BY <1>4, <1>6, <1>8, <1>10, <2>1
  <2>2. CASE j # k
    BY <1>8, <1>10, <2>2 DEF AtMostOncePerKey
  <2> QED BY <2>1, <2>2
<1>14. AnswersAreTrue'
  <2> SUFFICES ASSUME NEW t \in Sessions, session'[t].pc = "answered"
               PROVE  keyTable'[session'[t].key] =
                        [request |-> session'[t].request, applied |-> session'[t].amount]
    BY DEF AnswersAreTrue
  <2>1. CASE t = s
    BY <1>1, <1>7, <1>8, <2>1
  <2>2. CASE t # s
    <3> DEFINE old == [request |-> session[t].request, applied |-> session[t].amount]
    <3>1. session'[t] = session[t] /\ keyTable[session[t].key] = old
          /\ session[t].key \in Keys /\ session[t].request \in Requests
          /\ session[t].amount \in 0..MaxPoints
      BY <1>8, <2>2 DEF AnswersAreTrue, SessionsKnow, Knows
    <3>2. old # None
      BY <3>1, NamesAssumption
    <3>3. session[t].key # k
      BY <1>3, <3>1, <3>2 DEF k
    <3> QED BY <1>8, <3>1, <3>3
  <2> QED BY <2>1, <2>2
<1>15. \A j \in Keys : keyTable[j] # None => keyTable'[j] = keyTable[j]
  BY <1>3, <1>8 DEF k
<1> QED BY <1>4, <1>11, <1>12, <1>13, <1>14, <1>15 DEF TablesStaySafe

-----------------------------------------------------------------------------
(* The empty ledger satisfies the inductive invariant.                      *)
LEMMA InitIsSafe == Init => LedgerInv
<1> SUFFICES ASSUME Init PROVE LedgerInv
  OBVIOUS
<1>1. TypeOK
  BY FreshRow, IdleIsFine DEF Init, TypeOK
<1>2. SessionsKnow /\ AnswersAreTrue
  BY DEF Init, SessionsKnow, Knows, AnswersAreTrue, Idle
<1>3. NeverOverdrawn
  BY FreshRow DEF Init, NeverOverdrawn, Accounts
<1>4. BalancesMatchEntries
  BY DEF Init, BalancesMatchEntries, NewBalance
<1>5. AtMostOncePerKey
  BY DEF Init, AtMostOncePerKey
<1> QED BY <1>1, <1>2, <1>3, <1>4, <1>5 DEF LedgerInv

(* What one step of the ledger never undoes.                                *)
Appends ==
  /\ \A a \in Accounts : debits'[a] >= debits[a] /\ credits'[a] >= credits[a]
  /\ \A k \in Keys : keyTable[k] # None => keyTable'[k] = keyTable[k]

(* A step that leaves entries and keys alone is an append.                  *)
LEMMA StillIsAppend ==
  ASSUME TypeOK, UNCHANGED <<tables, keyTable>> PROVE Appends
BY DEF TypeOK, tables, Appends

(* Every step of the ledger preserves the invariant and only appends.       *)
LEMMA StepIsSafe == LedgerInv /\ [Next]_vars => LedgerInv' /\ Appends
<1> SUFFICES ASSUME LedgerInv, [Next]_vars PROVE LedgerInv' /\ Appends
  OBVIOUS
<1>0. TypeOK
  BY DEF LedgerInv
<1>1. ASSUME NEW s \in Sessions, NEW k \in Keys, NEW r \in Requests, Reserve(s, k, r)
      PROVE  LedgerInv' /\ Appends
  BY <1>0, <1>1, ReserveKeeps, StillIsAppend DEF Reserve
<1>2. ASSUME NEW s \in Sessions, NEW k \in Keys, NEW r \in Requests, Replay(s, k, r)
      PROVE  LedgerInv' /\ Appends
  BY <1>0, <1>2, ReplayKeeps, StillIsAppend DEF Replay
<1>3. ASSUME NEW s \in Sessions, NEW k \in Keys, NEW r \in Requests, Conflict(s, k, r)
      PROVE  LedgerInv' /\ Appends
  BY <1>0, <1>3, IdleIsFine, OnlySessions, StillIsAppend DEF Conflict
<1>4. ASSUME NEW s \in Sessions, ReadAvailable(s)
      PROVE  LedgerInv' /\ Appends
  BY <1>0, <1>4, ReadKeeps, StillIsAppend DEF ReadAvailable
<1>5. ASSUME NEW s \in Sessions, Commit(s)
      PROVE  LedgerInv' /\ Appends
  BY <1>5, CommitKeeps DEF Appends
<1>6. ASSUME NEW s \in Sessions, Abort(s)
      PROVE  LedgerInv' /\ Appends
  BY <1>0, <1>6, IdleIsFine, OnlySessions, StillIsAppend DEF Abort
<1>7. CASE UNCHANGED vars
  <2>1. UNCHANGED <<balance, debits, credits, keyTable, postings, session>>
    BY <1>7 DEF vars
  <2>2. LedgerInv'
    BY <2>1 DEF LedgerInv, TypeOK, SessionsKnow, Knows, NeverOverdrawn, BalancesMatchEntries,
                AtMostOncePerKey, AnswersAreTrue
  <2> QED BY <1>0, <2>1, <2>2, StillIsAppend DEF tables
<1> QED BY <1>1, <1>2, <1>3, <1>4, <1>5, <1>6, <1>7 DEF Next

(* The inductive invariant holds in every reachable state of the ledger.    *)
THEOREM LedgerIsSafe == Spec => []LedgerInv
<1>1. LedgerInv /\ [Next]_vars => LedgerInv'
  BY StepIsSafe
<1> QED BY InitIsSafe, <1>1, PTL DEF Spec

(* TypeOK: every variable always holds what its table or connection can.    *)
THEOREM LedgerTypes == Spec => []TypeOK
BY LedgerIsSafe, PTL DEF LedgerInv

(* NeverOverdrawn: no interleaving of guarded updates overdraws a member.   *)
THEOREM MembersNeverOverdrawn == Spec => []NeverOverdrawn
BY LedgerIsSafe, PTL DEF LedgerInv

(* BalancesMatchEntries: the cached balances are the sums of the entries.   *)
THEOREM BalancesAreDerived == Spec => []BalancesMatchEntries
BY LedgerIsSafe, PTL DEF LedgerInv

(* AtMostOncePerKey: however often it is retried, a key posts once.         *)
THEOREM KeysPostOnce == Spec => []AtMostOncePerKey
BY LedgerIsSafe, PTL DEF LedgerInv

(* AnswersAreTrue: every answer, first or replayed, is the committed one.   *)
THEOREM AnswersAreCommitted == Spec => []AnswersAreTrue
BY LedgerIsSafe, PTL DEF LedgerInv

(* AppendOnly: entries only accumulate and a done key is never rewritten.   *)
THEOREM LedgerAppendsOnly == Spec => AppendOnly
<1>1. LedgerInv /\ [Next]_vars => [Appends]_vars
  BY StepIsSafe
<1> QED BY <1>1, LedgerIsSafe, PTL DEF Spec, AppendOnly, Appends

-----------------------------------------------------------------------------
(* Proof that the concurrent ledger implements PointsAccount: the commit   *)
(* of a session is one abstract operation under a key that was never used, *)
(* and every other step leaves the abstract state alone.                   *)

\* The abstract state, read off the tables (the substitution of Account).
Avail == [m \in Members |-> Available(balance[m])]
Held  == [m \in Members |-> balance[m].pending_debits]
Done  == {k \in Keys : keyTable[k] # None}

\* One member's row moves by da available and dh held points; nobody else's does.
Moves(m, da, dh) ==
  /\ balance' \in [Accounts -> Balance]
  /\ \A a \in Members \ {m} : balance'[a] = balance[a]
  /\ Available(balance'[m]) = Available(balance[m]) + da
  /\ balance'[m].pending_debits = balance[m].pending_debits + dh

(* What an update of one row does to the abstract account it stands for.    *)
LEMMA ViewMoves ==
  ASSUME NEW m \in Members, NEW da \in Int, NEW dh \in Int,
         balance \in [Accounts -> Balance],
         Moves(m, da, dh)
  PROVE  /\ Avail' = [Avail EXCEPT ![m] = @ + da]
         /\ Held' = [Held EXCEPT ![m] = @ + dh]
         /\ da = 0 => Avail' = Avail
         /\ dh = 0 => Held' = Held
<1>1. /\ \A a \in Members : balance[a] \in Balance /\ balance'[a] \in Balance
      /\ \A a \in Members \ {m} : balance'[a] = balance[a]
  BY ContraApart DEF Moves
<1>2. \A a \in Members :
        Available(balance'[a]) = IF a = m THEN Available(balance[a]) + da ELSE Available(balance[a])
  BY <1>1 DEF Moves
<1>3. \A a \in Members :
        balance'[a].pending_debits = IF a = m THEN balance[a].pending_debits + dh
                                               ELSE balance[a].pending_debits
  BY <1>1 DEF Moves
<1>4. \A a \in Members : Available(balance[a]) \in Int /\ balance[a].pending_debits \in Int
  BY <1>1 DEF Balance, Available
<1>5. Avail' = [a \in Members |-> Available(balance'[a])]
  BY DEF Avail, Available
<1>6. Held' = [a \in Members |-> balance'[a].pending_debits]
  BY DEF Held
<1>7. Avail' = [a \in Members |->
                 IF a = m THEN Available(balance[a]) + da ELSE Available(balance[a])]
  BY <1>2, <1>5
<1>8. Held' = [a \in Members |->
                IF a = m THEN balance[a].pending_debits + dh ELSE balance[a].pending_debits]
  BY <1>3, <1>6
<1>9. Avail' = [Avail EXCEPT ![m] = @ + da]
  BY <1>4, <1>7 DEF Avail
<1>10. Held' = [Held EXCEPT ![m] = @ + dh]
  BY <1>4, <1>8 DEF Held
<1>11. da = 0 => Avail' = Avail
  BY <1>4, <1>7 DEF Avail
<1>12. dh = 0 => Held' = Held
  BY <1>4, <1>8 DEF Held
<1> QED BY <1>9, <1>10, <1>11, <1>12

\* The kinds of operation, by what they do to a member.
AbstractStep(m, n) ==
  \/ UNCHANGED balance
  \/ n > 0 /\ Moves(m, n, 0)
  \/ n > 0 /\ HasAvailable(balance[m], n) /\ (Moves(m, -n, 0) \/ Moves(m, -n, n))
  \/ n > 0 /\ HasPending(balance[m], n) /\ (Moves(m, 0, -n) \/ Moves(m, n, -n))

(* Each operation of operations.ts moves points as the account's operation does. *)
LEMMA ApplyMoves ==
  ASSUME NEW r \in Requests, NEW n \in Nat,
         balance \in [Accounts -> Balance], balance' \in [Accounts -> Balance],
         Apply(r, n)
  PROVE  AbstractStep(r.member, n)
<1> DEFINE m == r.member
<1>0. /\ m \in Members /\ m \in Accounts /\ Members \subseteq Accounts
      /\ "points_expense" \in Accounts \ Members /\ "points_sold" \in Accounts \ Members
      /\ "points_revenue" \in Accounts \ Members
      /\ balance[m] \in Balance
  BY RequestType, ContraApart
<1>1. ASSUME NEW x \in Accounts \ Members, n > 0, Post(x, m, n) PROVE AbstractStep(m, n)
  <2>1. /\ balance'[m] = Credit(balance[m], n)
        /\ \A a \in Members \ {m} : balance'[a] = balance[a]
    BY <1>0, <1>1 DEF Post
  <2>2. Available(balance[m]) \in Int /\ balance[m].pending_debits \in Int
    BY <1>0 DEF Balance, Available
  <2>3. Moves(m, n, 0)
    BY <1>0, <2>1, <2>2, RowViews DEF Moves
  <2> QED BY <1>1, <2>3 DEF AbstractStep
<1>2. ASSUME NEW x \in Accounts \ Members, n > 0, PostGuarded(m, x, n) PROVE AbstractStep(m, n)
  <2>1. /\ balance'[m] = Debit(balance[m], n)
        /\ \A a \in Members \ {m} : balance'[a] = balance[a]
        /\ HasAvailable(balance[m], n)
    BY <1>0, <1>2 DEF Post, PostGuarded
  <2>2. Available(balance[m]) \in Int /\ balance[m].pending_debits \in Int
    BY <1>0 DEF Balance, Available
  <2>3. Moves(m, -n, 0)
    BY <1>0, <2>1, <2>2, RowViews DEF Moves
  <2> QED BY <1>2, <2>1, <2>3 DEF AbstractStep
<1>3. ASSUME AuthorizeRedeem(m, n) PROVE AbstractStep(m, n)
  <2>1. /\ n > 0 /\ HasAvailable(balance[m], n)
        /\ balance'[m] = Hold(balance[m], n)
        /\ \A a \in Members \ {m} : balance'[a] = balance[a]
    BY <1>0, <1>3 DEF AuthorizeRedeem
  <2>2. Available(balance[m]) \in Int
    BY <1>0 DEF Balance, Available
  <2>3. Moves(m, -n, n)
    BY <1>0, <2>1, <2>2, RowViews DEF Moves
  <2> QED BY <2>1, <2>3 DEF AbstractStep
<1>4. ASSUME CaptureRedeem(m, n) PROVE AbstractStep(m, n)
  <2>1. /\ n > 0 /\ HasPending(balance[m], n)
        /\ balance'[m] = Capture(balance[m], n)
        /\ \A a \in Members \ {m} : balance'[a] = balance[a]
    BY <1>0, <1>4 DEF CaptureRedeem
  <2>2. Available(balance[m]) \in Int /\ balance[m].pending_debits \in Int
    BY <1>0 DEF Balance, Available
  <2>3. Moves(m, 0, -n)
    BY <1>0, <2>1, <2>2, CaptureView DEF Moves
  <2> QED BY <2>1, <2>3 DEF AbstractStep
<1>5. ASSUME VoidRedeem(m, n) PROVE AbstractStep(m, n)
  <2>1. /\ n > 0 /\ HasPending(balance[m], n)
        /\ balance'[m] = Release(balance[m], n)
        /\ \A a \in Members \ {m} : balance'[a] = balance[a]
    BY <1>0, <1>5 DEF VoidRedeem
  <2>2. Available(balance[m]) \in Int /\ balance[m].pending_debits \in Int
    BY <1>0 DEF Balance, Available
  <2>3. /\ Available(balance'[m]) = Available(balance[m]) + n
        /\ balance'[m].pending_debits = balance[m].pending_debits - n
    BY <1>0, <2>1, RowViews
  <2>4. balance[m].pending_debits - n = balance[m].pending_debits + (-n)
    BY <2>2
  <2>5. Moves(m, n, -n)
    BY <2>1, <2>3, <2>4 DEF Moves
  <2> QED BY <2>1, <2>5 DEF AbstractStep
<1>6. ASSUME UNCHANGED tables PROVE AbstractStep(m, n)
  BY <1>6 DEF AbstractStep, tables
<1> QED BY <1>0, <1>1, <1>2, <1>3, <1>4, <1>5, <1>6
        DEF Apply, EarnPoints, LoadPoints, SpendPoints, Grant, ClawBack

-----------------------------------------------------------------------------
\* A change of one member's row under a fresh key is an abstract operation.
LEMMA AbstractOperation ==
  ASSUME NEW k \in Keys, NEW m \in Members, NEW n \in 0..MaxPoints, MaxPoints \in Nat,
         balance \in [Accounts -> Balance],
         k \notin Done, Done' = Done \cup {k},
         AbstractStep(m, n)
  PROVE  Account!Next
<1>1. /\ Available(balance[m]) = Avail[m] /\ Held[m] = balance[m].pending_debits
      /\ Avail[m] \in Int /\ Held[m] \in Nat
  BY ContraApart DEF Avail, Held, Available, Balance
<1>2. CASE UNCHANGED balance
  <2>1. Avail' = Avail /\ Held' = Held
    BY <1>2 DEF Avail, Held
  <2>2. Account!Nothing(k)
    BY <2>1 DEF Account!Nothing, Account!Once, Avail, Held, Done
  <2> QED BY <2>2 DEF Account!Next
<1>3. CASE n > 0 /\ Moves(m, n, 0)
  <2>1. Avail' = [Avail EXCEPT ![m] = @ + n] /\ Held' = Held
    BY <1>3, ViewMoves
  <2>2. Account!Grant(k, m, n)
    BY <2>1 DEF Account!Grant, Account!Once, Avail, Held, Done
  <2> QED BY <1>3, <2>2 DEF Account!Next
<1>4. CASE n > 0 /\ HasAvailable(balance[m], n) /\ Moves(m, -n, 0)
  <2>1. Avail' = [Avail EXCEPT ![m] = @ + (-n)] /\ Held' = Held
    BY <1>4, ViewMoves
  <2>2. Avail' = [Avail EXCEPT ![m] = @ - n] /\ Avail[m] >= n
    BY <1>1, <1>4, <2>1 DEF HasAvailable
  <2>3. Account!Take(k, m, n)
    BY <2>1, <2>2 DEF Account!Take, Account!Once, Avail, Held, Done
  <2> QED BY <1>4, <2>3 DEF Account!Next
<1>5. CASE n > 0 /\ HasAvailable(balance[m], n) /\ Moves(m, -n, n)
  <2>1. Avail' = [Avail EXCEPT ![m] = @ + (-n)] /\ Held' = [Held EXCEPT ![m] = @ + n]
    BY <1>5, ViewMoves
  <2>2. Avail' = [Avail EXCEPT ![m] = @ - n] /\ Avail[m] >= n
    BY <1>1, <1>5, <2>1 DEF HasAvailable
  <2>3. Account!Reserve(k, m, n)
    BY <2>1, <2>2 DEF Account!Reserve, Account!Once, Avail, Held, Done
  <2> QED BY <1>5, <2>3 DEF Account!Next
<1>6. CASE n > 0 /\ HasPending(balance[m], n) /\ Moves(m, 0, -n)
  <2>1. Avail' = Avail /\ Held' = [Held EXCEPT ![m] = @ + (-n)]
    BY <1>6, ViewMoves
  <2>2. Held' = [Held EXCEPT ![m] = @ - n] /\ Held[m] >= n
    BY <1>1, <1>6, <2>1 DEF HasPending
  <2>3. Account!Spend(k, m, n)
    BY <2>1, <2>2 DEF Account!Spend, Account!Once, Avail, Held, Done
  <2> QED BY <1>6, <2>3 DEF Account!Next
<1>7. CASE n > 0 /\ HasPending(balance[m], n) /\ Moves(m, n, -n)
  <2>1. Avail' = [Avail EXCEPT ![m] = @ + n] /\ Held' = [Held EXCEPT ![m] = @ + (-n)]
    BY <1>7, ViewMoves
  <2>2. Held' = [Held EXCEPT ![m] = @ - n] /\ Held[m] >= n
    BY <1>1, <1>7, <2>1 DEF HasPending
  <2>3. Account!GiveBack(k, m, n)
    BY <2>1, <2>2 DEF Account!GiveBack, Account!Once, Avail, Held, Done
  <2> QED BY <1>7, <2>3 DEF Account!Next
<1> QED BY <1>2, <1>3, <1>4, <1>5, <1>6, <1>7 DEF AbstractStep

(* The commit of a request is that one operation of the abstract account.   *)
LEMMA CommitImplements ==
  ASSUME LedgerInv, LedgerInv', NEW s \in Sessions, Commit(s)
  PROVE  Account!Next
<1> DEFINE k == session[s].key
           r == session[s].request
           n == Amount(s)
           m == r.member
           row == [request |-> r, applied |-> n]
<1>1. /\ k \in Keys /\ r \in Requests /\ Knows(session[s])
      /\ keyTable \in [Keys -> KeyRow \cup {None}]
      /\ balance \in [Accounts -> Balance] /\ balance' \in [Accounts -> Balance]
      /\ debits \in [Accounts -> Nat] /\ credits \in [Accounts -> Nat]
      /\ NeverOverdrawn /\ BalancesMatchEntries
  BY DEF LedgerInv, TypeOK, SessionsKnow, Knows, Commit, Open
<1>2. n \in Int /\ n <= MaxPoints
  BY <1>1, RequestType DEF Amount, Knows
<1>3. Apply(r, n) /\ keyTable[k] = None /\ keyTable' = [keyTable EXCEPT ![k] = row]
  BY DEF Commit, KeyFree
<1>4. n \in 0..MaxPoints
  BY <1>1, <1>2, <1>3, ApplyIsSafe
<1>5. m \in Members /\ MaxPoints \in Nat
  BY <1>1, RequestType
<1>6. AbstractStep(m, n)
  BY <1>1, <1>3, <1>4, <1>5, ApplyMoves
<1> HIDE DEF n
<1>7. row # None
  BY <1>1, <1>4, NamesAssumption DEF row
<1> HIDE DEF row, k
<1>8. k \notin Done /\ Done' = Done \cup {k}
  BY <1>1, <1>3, <1>7 DEF Done
<1> HIDE DEF m
<1> QED BY <1>1, <1>4, <1>5, <1>6, <1>8, AbstractOperation

(* A step that writes no table is a stutter of the abstract account.        *)
LEMMA TablesUntouched ==
  ASSUME UNCHANGED <<tables, keyTable>> PROVE UNCHANGED Account!vars
BY DEF tables, Account!vars, Available

(* The empty ledger stands for the empty accounts.                          *)
LEMMA InitImplements == Init => Account!Init
<1> SUFFICES ASSUME Init PROVE Account!Init
  OBVIOUS
<1>1. Avail = [m \in Members |-> 0] /\ Held = [m \in Members |-> 0] /\ Done = {}
  BY ContraApart DEF Init, Avail, Held, Done, NewBalance, Available
<1> QED BY <1>1 DEF Account!Init, Avail, Held, Done

(* Every step of the ledger is an abstract operation or a stutter.          *)
LEMMA StepImplements ==
  LedgerInv /\ LedgerInv' /\ [Next]_vars => [Account!Next]_(Account!vars)
<1> SUFFICES ASSUME LedgerInv, LedgerInv', [Next]_vars PROVE Account!Next \/ UNCHANGED Account!vars
  OBVIOUS
<1>1. ASSUME NEW s \in Sessions, Commit(s) PROVE Account!Next
  BY <1>1, CommitImplements
<1>2. ASSUME NEW s \in Sessions, NEW k \in Keys, NEW r \in Requests,
             Reserve(s, k, r) \/ Replay(s, k, r) \/ Conflict(s, k, r)
      PROVE  UNCHANGED Account!vars
  BY <1>2, TablesUntouched DEF Reserve, Replay, Conflict
<1>3. ASSUME NEW s \in Sessions, ReadAvailable(s) \/ Abort(s) PROVE UNCHANGED Account!vars
  BY <1>3, TablesUntouched DEF ReadAvailable, Abort
<1>4. CASE UNCHANGED vars
  BY <1>4, TablesUntouched DEF vars, tables
<1> QED BY <1>1, <1>2, <1>3, <1>4 DEF Next

(* ImplementsAccount: every request of the concurrent ledger takes effect   *)
(* once, in one step and in full, as one operation of the abstract account. *)
THEOREM LedgerImplementsAccount == Spec => ImplementsAccount
<1>1. LedgerInv /\ LedgerInv' /\ [Next]_vars => [Account!Next]_(Account!vars)
  BY StepImplements
<1>2. Init => Account!Init
  BY InitImplements
<1> QED BY <1>1, <1>2, LedgerIsSafe, PTL DEF Spec, ImplementsAccount, Account!Spec
=============================================================================
