--------------------------- MODULE Checkout_proofs ---------------------------
(***************************************************************************)
(* Proofs about Checkout, for every number of sales, keys and kills.  The  *)
(* heart of the inductive invariant is KeysApart: a key under which an     *)
(* earn may ever be executed is no key of a hold, and no other earn of the *)
(* same sale has one, wherever the till, its files, its replays and the    *)
(* requests still on their way have put it.                                *)
(***************************************************************************)
EXTENDS Checkout, TLAPS

\* A sale that has got as far as its earn, or failed before.
Ended == {"earning", "uncaptured", "unearned", "done", "failed"}

PayingSteps == {"authorizing", "paying", "voiding", "capturing", "earning"}

\* There is one payment job, and the hold and the last key drawn are its own;
\* what cancelled jobs have yet to queue are the last keys of their sales.
OneJob ==
  /\ \A s, t \in Paying : s = t
  /\ hold # NoKey => hold \in DOMAIN drawn /\ drawn[hold] \in Paying
  /\ tries # 0 => \E s \in Sales : step[s] \in {"capturing", "earning"}
  /\ \A s \in Sales :
       /\ step[s] \in {"authorizing", "earning"} => Len(drawn) > 0 /\ drawn[Len(drawn)] = s
       /\ step[s] \in {"voiding", "capturing"} => hold # NoKey
       /\ step[s] \in {"capturing", "earning"} => s \in paid
       /\ step[s] = "capturing" => tries < 3
       /\ owed[s] # NoKey <=> step[s] \in {"uncaptured", "unearned"}
       /\ owed[s] # NoKey => owed[s] \in DOMAIN drawn /\ drawn[owed[s]] = s

\* The gateway executed a request of this kind under k, or may do so late.
Sent(op, k) == [op |-> op, key |-> k] \in late
EarnReached(k) == txn[k] = "earned" \/ Sent("earn", k)
HoldReached(k) ==
  txn[k] \in {"authorized", "captured", "voided"}
    \/ Sent("authorize", k) \/ Sent("capture", k) \/ Sent("void", k)
CaptureReached(k) == txn[k] = "captured" \/ Sent("capture", k)

\* The keys under which an earn was, is or may yet be posted.
EarnKeys ==
  {k \in Keys :
     \/ EarnReached(k)
     \/ k \in queue \cup refused
     \/ \E r \in Replayers : k \in replay[r].snapshot
     \/ \E s \in Sales : k = owed[s]
     \/ k = Len(drawn) /\ \E s \in Sales : step[s] = "earning"}

\* The keys under which points were, are or may yet be held.
HoldKeys ==
  {k \in Keys :
     \/ HoldReached(k)
     \/ k \in {hold, pref, recovery}
     \/ k = Len(drawn) /\ \E s \in Sales : step[s] = "authorizing"}

KeysApart ==
  /\ EarnKeys \cup HoldKeys \subseteq DOMAIN drawn
  /\ EarnKeys \cap HoldKeys = {}
  /\ \A j, k \in EarnKeys : drawn[j] = drawn[k] => j = k
  /\ \A k \in EarnKeys : drawn[k] \in paid /\ step[drawn[k]] \in Ended

CapturesArePaid == \A k \in DOMAIN drawn : CaptureReached(k) => drawn[k] \in paid

\* A replay has tried, is to try or has failed on every key it started with.
ReplaysAreWhole ==
  \A r \in Replayers :
    /\ replay[r].todo \cup replay[r].failed \subseteq replay[r].snapshot
    /\ \A k \in replay[r].snapshot :
         k \in replay[r].todo \cup replay[r].failed \cup refused \/ txn[k] = "earned"

CheckoutInv ==
  /\ TypeOK
  /\ OneJob
  /\ KeysApart
  /\ CapturesArePaid
  /\ ReplaysAreWhole
  /\ DoneSaleIsKept
-----------------------------------------------------------------------------
LEMMA Constants ==
  /\ MaxSales \in Nat /\ MaxKeys \in Nat /\ MaxKills \in Nat
  /\ Keys = 1..MaxKeys /\ Sales = 1..MaxSales /\ NoKey = 0
  /\ NoKey \notin Keys
BY CheckoutAssumption DEF Keys, Sales, NoKey

\* The keys drawn so far are keys, and drawn for sales.
LEMMA DrawnKeys ==
  ASSUME TypeOK
  PROVE  /\ DOMAIN drawn = 1..Len(drawn) /\ Len(drawn) \in Nat
         /\ DOMAIN drawn \subseteq Keys
         /\ \A k \in DOMAIN drawn : drawn[k] \in Sales
BY Constants DEF TypeOK

\* Any outcome of a call the till makes.
Call(op, k) == Executed(op, k) \/ Unanswered(op, k) \/ NotExecuted

\* The gateway moved at most the key k, and by an op at most.
Moved(op, k) ==
  /\ txn' \in [Keys -> GW!States] /\ late' \subseteq Request
  /\ \A j \in Keys : txn[j] = "earned" => txn'[j] = "earned"
  /\ \A j \in Keys : EarnReached(j)' => EarnReached(j) \/ (j = k /\ op = "earn")
  /\ \A j \in Keys : HoldReached(j)' => HoldReached(j) \/ (j = k /\ op # "earn")
  /\ \A j \in Keys : CaptureReached(j)' => CaptureReached(j) \/ (j = k /\ op = "capture")

LEMMA NothingMoved == ASSUME TypeOK, NotExecuted, NEW op, NEW k PROVE Moved(op, k)
BY DEF TypeOK, NotExecuted, Moved, EarnReached, HoldReached, CaptureReached, Sent

(* A call moves its own key only, and in the way of its operation.          *)
LEMMA CallMoves ==
  ASSUME TypeOK, NEW op \in {"authorize", "capture", "void", "earn"}, NEW k \in Keys, Call(op, k)
  PROVE  Moved(op, k)
<1> USE DEF Moved
<1>1. /\ txn \in [Keys -> GW!States] /\ late \subseteq Request
      /\ [op |-> op, key |-> k] \in Request
  BY DEF TypeOK, Request
<1>2. CASE Executed(op, k)
  <2>1. /\ late' = {c \in late : c.key # k} /\ Effect(op, k)
    BY <1>2 DEF Executed
  <2>2. PICK to \in GW!States :
          /\ txn' = [txn EXCEPT ![k] = to]
          /\ txn[k] # "earned"
          /\ to = "earned" <=> op = "earn"
          /\ to = "captured" <=> op = "capture"
          /\ to # "none"
    BY <2>1 DEF Effect, GW!Authorize, GW!Capture, GW!Void, GW!Earn, GW!Moves, GW!States
  <2>3. \A j \in Keys, o \in {"authorize", "capture", "void", "earn"} : Sent(o, j)' => Sent(o, j)
    BY <2>1 DEF Sent
  <2>4. \A j \in Keys : txn'[j] = IF j = k THEN to ELSE txn[j]
    BY <1>1, <2>2
  <2>5. to \in {"authorized", "captured", "voided"} <=> op # "earn"
    BY <2>2 DEF GW!States
  <2>6. txn' \in [Keys -> GW!States] /\ late' \subseteq Request
    BY <1>1, <2>1, <2>2
  <2> QED BY <2>2, <2>3, <2>4, <2>5, <2>6 DEF EarnReached, HoldReached, CaptureReached
<1>3. CASE Unanswered(op, k)
  <2>1. txn' = txn /\ late' = late \cup {[op |-> op, key |-> k]}
    BY <1>3 DEF Unanswered
  <2>2. \A j \in Keys, o \in {"authorize", "capture", "void", "earn"} :
          Sent(o, j)' => Sent(o, j) \/ (o = op /\ j = k)
    BY <2>1 DEF Sent
  <2> QED BY <1>1, <2>1, <2>2 DEF EarnReached, HoldReached, CaptureReached
<1>4. CASE NotExecuted
  BY <1>4, NothingMoved
<1> QED BY <1>2, <1>3, <1>4 DEF Call

(* What is left to show of a step that draws no key.                        *)
LEMMA SameKeys ==
  ASSUME CheckoutInv, UNCHANGED drawn,
         EarnKeys' \subseteq EarnKeys, HoldKeys' \subseteq HoldKeys,
         paid \subseteq paid',
         \A s \in Sales : step[s] \in Ended => step'[s] \in Ended
  PROVE  KeysApart'
<1>1. \A k \in EarnKeys : drawn[k] \in Sales
  BY DrawnKeys DEF CheckoutInv, KeysApart
<1> QED BY <1>1 DEF CheckoutInv, KeysApart

(* What is left to show of a step that draws a key for s: the key is new,   *)
(* and for the hold or the first earn of the sale.                          *)
LEMMA OneKeyMore ==
  ASSUME CheckoutInv, NEW s \in Sales, Draw(s),
         \/ EarnKeys' \subseteq EarnKeys /\ HoldKeys' \subseteq HoldKeys \cup {NewKey}
         \/ /\ EarnKeys' \subseteq EarnKeys \cup {NewKey} /\ HoldKeys' \subseteq HoldKeys
            /\ s \in paid' /\ step[s] \notin Ended /\ step'[s] \in Ended,
         paid \subseteq paid',
         \A t \in Sales : step[t] \in Ended => step'[t] \in Ended
  PROVE  KeysApart'
<1>1. /\ DOMAIN drawn = 1..Len(drawn) /\ Len(drawn) \in Nat /\ drawn \in Seq(Sales)
      /\ \A k \in DOMAIN drawn : drawn[k] \in Sales
  BY DrawnKeys DEF CheckoutInv, TypeOK
<1>2. /\ DOMAIN drawn' = DOMAIN drawn \cup {NewKey} /\ NewKey \notin DOMAIN drawn
      /\ drawn'[NewKey] = s /\ \A k \in DOMAIN drawn : drawn'[k] = drawn[k]
  BY <1>1 DEF Draw, NewKey
<1>3. EarnKeys \cup HoldKeys \subseteq DOMAIN drawn /\ EarnKeys \cap HoldKeys = {}
  BY DEF CheckoutInv, KeysApart
<1>4. EarnKeys' \cup HoldKeys' \subseteq DOMAIN drawn' /\ EarnKeys' \cap HoldKeys' = {}
  BY <1>2, <1>3
<1>5. \A k \in EarnKeys : drawn[k] \in paid /\ step[drawn[k]] \in Ended /\ drawn[k] \in Sales
  BY <1>1, <1>3 DEF CheckoutInv, KeysApart
<1>6. \A k \in EarnKeys' : drawn'[k] \in paid' /\ step'[drawn'[k]] \in Ended
  BY <1>2, <1>3, <1>5
<1>7. \A j, k \in EarnKeys' : drawn'[j] = drawn'[k] => j = k
  BY <1>2, <1>3, <1>5 DEF CheckoutInv, KeysApart
<1> QED BY <1>4, <1>6, <1>7 DEF KeysApart

(* A sale that was done stays kept, if nothing of its earn is dropped.      *)
LEMMA DoneStaysKept ==
  ASSUME CheckoutInv, UNCHANGED drawn \/ \E s \in Sales : Draw(s),
         \A k \in Keys : txn[k] = "earned" => txn'[k] = "earned",
         \A k \in queue \cup refused : k \in queue' \cup refused' \/ txn'[k] = "earned",
         NEW s \in Sales, step[s] = "done"
  PROVE  \E k \in KeysOf(s)' : txn'[k] = "earned" \/ k \in queue' \cup refused'
<1>1. PICK k \in KeysOf(s) : txn[k] = "earned" \/ k \in queue \cup refused
  BY DEF CheckoutInv, DoneSaleIsKept
<1>2. k \in 1..Len(drawn) /\ drawn[k] = s /\ k \in Keys
  BY <1>1, DrawnKeys DEF KeysOf, CheckoutInv
<1>3. k \in 1..Len(drawn') /\ drawn'[k] = s
  <2>1. CASE UNCHANGED drawn
    BY <1>2, <2>1
  <2>2. ASSUME NEW t \in Sales, Draw(t) PROVE k \in 1..Len(drawn') /\ drawn'[k] = s
    BY <1>2, <2>2 DEF Draw, CheckoutInv, TypeOK
  <2> QED BY <2>1, <2>2
<1> QED BY <1>1, <1>2, <1>3 DEF KeysOf

\* A step draws a key for s or none.
DrawsAtMost(s) == UNCHANGED drawn \/ Draw(s)

LEMMA DrawnGrows ==
  ASSUME TypeOK, NEW s \in Sales, DrawsAtMost(s)
  PROVE  /\ \A k \in DOMAIN drawn : k \in DOMAIN drawn' /\ drawn'[k] = drawn[k]
         /\ DOMAIN drawn' \subseteq DOMAIN drawn \cup {NewKey}
         /\ drawn' \in Seq(Sales) /\ Len(drawn') <= MaxKeys
<1>1. drawn \in Seq(Sales) /\ Len(drawn) <= MaxKeys /\ Len(drawn) \in Nat
  BY DEF TypeOK
<1>2. CASE UNCHANGED drawn
  BY <1>1, <1>2
<1>3. CASE Draw(s)
  <2>1. Len(drawn) + 1 <= MaxKeys /\ drawn' = Append(drawn, s)
    BY <1>1, <1>3, Constants DEF Draw, NewKey
  <2> QED BY <1>1, <2>1 DEF NewKey
<1> QED BY <1>2, <1>3 DEF DrawsAtMost

(* Points are taken for paid sales only, if no other capture is sent.       *)
LEMMA CapturesStayPaid ==
  ASSUME CheckoutInv, NEW s \in Sales, DrawsAtMost(s), paid \subseteq paid',
         \A j \in Keys : CaptureReached(j)' =>
           CaptureReached(j) \/ (j \in DOMAIN drawn /\ drawn[j] \in paid')
  PROVE  CapturesArePaid'
<1>1. /\ \A k \in DOMAIN drawn : drawn'[k] = drawn[k]
      /\ DOMAIN drawn \subseteq Keys /\ DOMAIN drawn' \subseteq DOMAIN drawn \cup {NewKey}
  BY DrawnGrows, DrawnKeys DEF CheckoutInv
<1>2. \A k \in Keys : CaptureReached(k) => k \in DOMAIN drawn
  BY DEF CheckoutInv, KeysApart, HoldKeys, HoldReached, CaptureReached
<1>3. DOMAIN drawn' \subseteq Keys
  BY DrawnGrows, Constants DEF CheckoutInv
<1> QED BY <1>1, <1>2, <1>3 DEF CheckoutInv, CapturesArePaid

LEMMA ReplaysStayWhole ==
  ASSUME CheckoutInv, UNCHANGED replay, refused \subseteq refused',
         \A j \in Keys : txn[j] = "earned" => txn'[j] = "earned"
  PROVE  ReplaysAreWhole'
<1>1. \A r \in Replayers : replay[r].snapshot \subseteq Keys
  BY DEF CheckoutInv, TypeOK
<1> QED BY <1>1 DEF CheckoutInv, ReplaysAreWhole
-----------------------------------------------------------------------------
BlockedSteps == {"unvoided", "uncaptured", "unearned"}

Steps == PayingSteps \cup BlockedSteps \cup {"new", "done", "failed"}

\* The key of an earn of s that was tried is left to its cancelled job.
OwesEarn(s) == \E k \in EarnKeys : drawn[k] = s /\ owed' = [owed EXCEPT ![s] = k]

(* What every step of a payment job is: the sale s goes to next, after a    *)
(* call at most, under one of its keys.                                     *)
SaleMoves(s, next, op, k) ==
  /\ Paying \subseteq {s} /\ step[s] \in PayingSteps \cup {"new"}
  /\ next \in Steps /\ step' = [step EXCEPT ![s] = next]
  /\ step[s] = "earning" => next \in {"done", "unearned"}
  /\ \/ UNCHANGED drawn /\ next \notin {"authorizing", "earning", "uncaptured"}
     \/ Draw(s) /\ next \in {"authorizing", "earning", "uncaptured"} /\ step[s] \notin Ended
  /\ \/ UNCHANGED owed /\ next \notin {"uncaptured", "unearned"}
     \/ next = "uncaptured" /\ owed' = [owed EXCEPT ![s] = NewKey]
     \/ next = "unearned" /\ OwesEarn(s)
  /\ paid \subseteq paid' /\ paid' \subseteq Sales
  /\ next \in {"capturing", "earning", "uncaptured"} => s \in paid'
  /\ hold' \in {hold, NoKey} \cup HoldKeys
  /\ hold' # NoKey => hold' \in DOMAIN drawn /\ drawn[hold'] = s /\ next \in PayingSteps
  /\ next \in {"voiding", "capturing"} => hold' # NoKey
  /\ pref' \in {pref, NoKey} \cup HoldKeys
  /\ tries' \in 0..3 /\ (tries' # 0 => next \in {"capturing", "earning"})
  /\ next = "capturing" => tries' < 3
  /\ Moved(op, k)
  /\ k \in Keys => IF op = "earn" THEN k \in EarnKeys ELSE k \in HoldKeys
  /\ op = "capture" => k \in HoldKeys /\ drawn[k] \in paid
  /\ queue \subseteq queue' /\ queue' \subseteq queue \cup EarnKeys
  /\ next = "done" => \E j \in DOMAIN drawn : drawn[j] = s /\ (txn'[j] = "earned" \/ j \in queue')
  /\ UNCHANGED <<running, recovery, replay, refused, kills>>

LEMMA SaleMovesJob ==
  ASSUME CheckoutInv, NEW s \in Sales, NEW next, NEW op, NEW k, SaleMoves(s, next, op, k)
  PROVE  /\ OneJob'
         /\ \A t \in Sales : step'[t] = (IF t = s THEN next ELSE step[t])
         /\ \A t \in Sales \ {s} : step[t] \notin PayingSteps
<1>1. step \in [Sales -> Steps]
  BY DEF CheckoutInv, TypeOK, Steps, PayingSteps, BlockedSteps
<1>2. /\ \A t \in Sales : step'[t] = (IF t = s THEN next ELSE step[t])
      /\ \A t \in Sales \ {s} : step[t] \notin PayingSteps
  BY <1>1 DEF SaleMoves, Paying, PayingSteps
<1>3. \A t \in Paying' : t = s
  BY <1>2 DEF Paying, PayingSteps
<1>4. next \in PayingSteps => s \in Paying'
  BY <1>2 DEF Paying, PayingSteps
<1>5. /\ \A j \in DOMAIN drawn : j \in DOMAIN drawn' /\ drawn'[j] = drawn[j]
  BY DrawnGrows DEF CheckoutInv, SaleMoves, DrawsAtMost
<1>6. hold' # NoKey => hold' \in DOMAIN drawn' /\ drawn'[hold'] \in Paying'
  BY <1>4, <1>5 DEF SaleMoves
<1>7. next \in {"authorizing", "earning"} => Len(drawn') > 0 /\ drawn'[Len(drawn')] = s
  <2>1. drawn \in Seq(Sales)
    BY DEF CheckoutInv, TypeOK
  <2> QED BY <2>1 DEF SaleMoves, Draw
<1>8. tries' # 0 => \E t \in Sales : step'[t] \in {"capturing", "earning"}
  BY <1>2 DEF SaleMoves
<1>9. \A t \in Sales :
         /\ step'[t] \in {"authorizing", "earning"} => Len(drawn') > 0 /\ drawn'[Len(drawn')] = t
         /\ step'[t] \in {"voiding", "capturing"} => hold' # NoKey
         /\ step'[t] \in {"capturing", "earning"} => t \in paid'
         /\ step'[t] = "capturing" => tries' < 3
  BY <1>2, <1>7 DEF SaleMoves, PayingSteps
<1>10. \A t \in Sales :
         /\ owed'[t] # NoKey <=> step'[t] \in {"uncaptured", "unearned"}
         /\ owed'[t] # NoKey => owed'[t] \in DOMAIN drawn' /\ drawn'[owed'[t]] = t
  <2> SUFFICES ASSUME NEW t \in Sales
               PROVE  /\ owed'[t] # NoKey <=> step'[t] \in {"uncaptured", "unearned"}
                      /\ owed'[t] # NoKey => owed'[t] \in DOMAIN drawn' /\ drawn'[owed'[t]] = t
    OBVIOUS
  <2>1. /\ owed[t] # NoKey <=> step[t] \in {"uncaptured", "unearned"}
        /\ owed[t] # NoKey => owed[t] \in DOMAIN drawn /\ drawn[owed[t]] = t
        /\ owed \in [Sales -> Keys \cup {NoKey}]
    BY DEF CheckoutInv, OneJob, TypeOK
  <2>2. CASE UNCHANGED owed /\ next \notin {"uncaptured", "unearned"}
    BY <1>2, <1>5, <2>1, <2>2 DEF SaleMoves, PayingSteps
  <2>3. CASE next = "uncaptured" /\ owed' = [owed EXCEPT ![s] = NewKey]
    <3>1. drawn \in Seq(Sales)
      BY DEF CheckoutInv, TypeOK
    <3>2. NewKey \in DOMAIN drawn' /\ drawn'[NewKey] = s /\ NewKey # NoKey
      BY <2>3, <3>1 DEF SaleMoves, Draw, NewKey, NoKey
    <3> QED BY <1>2, <1>5, <2>1, <2>3, <3>2
  <2>4. CASE next = "unearned" /\ OwesEarn(s)
    <3>1. \A j \in EarnKeys : j \in DOMAIN drawn /\ j # NoKey
      BY Constants DEF CheckoutInv, KeysApart, EarnKeys
    <3> QED BY <1>2, <1>5, <2>1, <2>4, <3>1 DEF OwesEarn
  <2> QED BY <2>2, <2>3, <2>4 DEF SaleMoves
<1> QED BY <1>2, <1>3, <1>6, <1>8, <1>9, <1>10 DEF OneJob

LEMMA SaleMovesKeys ==
  ASSUME CheckoutInv, NEW s \in Sales, NEW next, NEW op, NEW k, SaleMoves(s, next, op, k)
  PROVE  KeysApart'
<1>1. /\ \A t \in Sales : step'[t] = (IF t = s THEN next ELSE step[t])
      /\ \A t \in Sales \ {s} : step[t] \notin PayingSteps
  BY SaleMovesJob
<1>2. /\ (\E t \in Sales : step'[t] = "earning") <=> next = "earning"
      /\ (\E t \in Sales : step'[t] = "authorizing") <=> next = "authorizing"
  BY <1>1 DEF PayingSteps
<1>3. \A t \in Sales : step[t] \in Ended => step'[t] \in Ended
  BY <1>1 DEF SaleMoves, Ended, PayingSteps
<1>4. /\ \A j \in Keys : EarnReached(j)' => j \in EarnKeys
      /\ \A j \in Keys : HoldReached(j)' => j \in HoldKeys
  BY DEF SaleMoves, Moved, EarnKeys, HoldKeys
<1>5. queue' \cup refused' \subseteq EarnKeys
  BY DEF SaleMoves, EarnKeys, CheckoutInv, TypeOK
<1>6. \A j \in Keys : j \in {hold', pref', recovery'} => j \in HoldKeys
  BY Constants DEF SaleMoves, HoldKeys
<1>7. \A j \in EarnKeys' : j \in EarnKeys \/ (j = Len(drawn') /\ next \in {"earning", "uncaptured"})
  <2> SUFFICES ASSUME NEW j \in Keys, j \in EarnKeys', j \notin EarnKeys
               PROVE  j = Len(drawn') /\ next \in {"earning", "uncaptured"}
    BY DEF EarnKeys
  <2>1. ~ \E r \in Replayers : j \in replay'[r].snapshot
    BY DEF SaleMoves, EarnKeys
  <2>2. ASSUME NEW t \in Sales, j = owed'[t] PROVE j = Len(drawn') /\ next = "uncaptured"
    <3>1. owed \in [Sales -> Keys \cup {NoKey}] /\ drawn \in Seq(Sales) /\ j # owed[t]
      BY DEF CheckoutInv, TypeOK, EarnKeys
    <3>2. next = "uncaptured" /\ owed' = [owed EXCEPT ![s] = NewKey]
      BY <2>2, <3>1 DEF SaleMoves, OwesEarn
    <3>3. Len(drawn') = NewKey
      BY <3>1, <3>2 DEF SaleMoves, Draw, NewKey
    <3> QED BY <2>2, <3>1, <3>2, <3>3
  <2> QED BY <1>2, <1>4, <1>5, <2>1, <2>2 DEF EarnKeys
<1>8. \A j \in HoldKeys' : j \in HoldKeys \/ (j = Len(drawn') /\ next = "authorizing")
  BY <1>2, <1>4, <1>6 DEF HoldKeys
<1>9. CASE UNCHANGED drawn /\ next \notin {"authorizing", "earning", "uncaptured"}
  BY <1>3, <1>7, <1>8, <1>9, SameKeys DEF SaleMoves
<1>10. CASE Draw(s) /\ next \in {"authorizing", "earning", "uncaptured"} /\ step[s] \notin Ended
  <2>1. Len(drawn') = NewKey
    BY <1>10 DEF CheckoutInv, TypeOK, Draw, NewKey
  <2>2. CASE next = "authorizing"
    BY <1>3, <1>7, <1>8, <1>10, <2>1, <2>2, OneKeyMore DEF SaleMoves
  <2>3. CASE next \in {"earning", "uncaptured"}
    <3>1. s \in paid' /\ step'[s] \in Ended
      BY <1>1, <2>3 DEF SaleMoves, Ended
    <3> QED BY <1>3, <1>7, <1>8, <1>10, <2>1, <2>3, <3>1, OneKeyMore DEF SaleMoves
  <2> QED BY <1>10, <2>2, <2>3
<1> QED BY <1>9, <1>10 DEF SaleMoves

LEMMA SaleMovesKeepInv ==
  ASSUME CheckoutInv, NEW s \in Sales, NEW next, NEW op, NEW k, SaleMoves(s, next, op, k)
  PROVE  CheckoutInv'
<1>1. DrawsAtMost(s)
  BY DEF SaleMoves, DrawsAtMost
<1>2. \A t \in Sales : step'[t] = (IF t = s THEN next ELSE step[t])
  BY SaleMovesJob
<1>3. TypeOK'
  <2>1. drawn' \in Seq(Sales) /\ Len(drawn') <= MaxKeys
    BY <1>1, DrawnGrows DEF CheckoutInv
  <2>2. step' \in [Sales -> Steps]
    BY DEF CheckoutInv, TypeOK, SaleMoves, Steps, PayingSteps, BlockedSteps
  <2>3. /\ hold' \in Keys \cup {NoKey} /\ pref' \in Keys \cup {NoKey}
        /\ queue' \subseteq Keys
    BY DEF CheckoutInv, TypeOK, SaleMoves, HoldKeys, EarnKeys
  <2>4. owed' \in [Sales -> Keys \cup {NoKey}]
    BY DEF CheckoutInv, TypeOK, SaleMoves, OwesEarn, Draw, EarnKeys
  <2> QED BY <2>1, <2>2, <2>3, <2>4
     DEF CheckoutInv, TypeOK, SaleMoves, Moved, Steps, PayingSteps, BlockedSteps
<1>4. CapturesArePaid'
  <2>1. k \in HoldKeys => k \in DOMAIN drawn
    BY DEF CheckoutInv, KeysApart
  <2>2. \A j \in Keys : CaptureReached(j)' =>
          CaptureReached(j) \/ (j \in DOMAIN drawn /\ drawn[j] \in paid')
    BY <2>1 DEF SaleMoves, Moved
  <2> QED BY <1>1, <2>2, CapturesStayPaid DEF SaleMoves
<1>5. ReplaysAreWhole'
  BY ReplaysStayWhole DEF SaleMoves, Moved
<1>6. DoneSaleIsKept'
  <2> SUFFICES ASSUME NEW t \in Sales, step'[t] = "done"
               PROVE  \E j \in KeysOf(t)' : txn'[j] = "earned" \/ j \in queue' \cup refused'
    BY DEF DoneSaleIsKept
  <2>1. CASE t # s
    BY <1>1, <1>2, <2>1, DoneStaysKept DEF SaleMoves, Moved, DrawsAtMost
  <2>2. CASE t = s
    <3>1. PICK j \in DOMAIN drawn : drawn[j] = s /\ (txn'[j] = "earned" \/ j \in queue')
      BY <1>2, <2>2 DEF SaleMoves
    <3>2. j \in DOMAIN drawn' /\ drawn'[j] = s /\ DOMAIN drawn' = 1..Len(drawn')
      BY <1>1, <3>1, DrawnGrows DEF CheckoutInv
    <3> QED BY <2>2, <3>1, <3>2 DEF KeysOf
  <2> QED BY <2>1, <2>2
<1> QED BY <1>3, <1>4, <1>5, <1>6, SaleMovesJob, SaleMovesKeys DEF CheckoutInv

(* What is known of the sale that is being paid.                            *)
LEMMA PayingSale ==
  ASSUME CheckoutInv, NEW s \in Sales, step[s] \in PayingSteps
  PROVE  /\ Paying = {s} /\ Paying \subseteq {s} /\ owed[s] = NoKey
         /\ hold # NoKey => hold \in DOMAIN drawn /\ drawn[hold] = s /\ hold \in HoldKeys
         /\ step[s] \in {"authorizing", "earning"} =>
              /\ Len(drawn) \in DOMAIN drawn /\ drawn[Len(drawn)] = s
              /\ Len(drawn) \in IF step[s] = "earning" THEN EarnKeys ELSE HoldKeys
         /\ step[s] \in {"voiding", "capturing"} => hold # NoKey
         /\ step[s] \in {"capturing", "earning"} => s \in paid
         /\ step[s] = "capturing" => tries \in 0..2
         /\ step[s] \notin {"capturing", "earning"} => tries = 0
<1>1. s \in Paying
  BY DEF Paying, PayingSteps
<1>2. Paying = {s}
  BY <1>1 DEF CheckoutInv, OneJob
<1>3. /\ DOMAIN drawn = 1..Len(drawn) /\ Len(drawn) \in Nat /\ DOMAIN drawn \subseteq Keys
  BY DrawnKeys DEF CheckoutInv
<1>4. hold # NoKey => hold \in DOMAIN drawn /\ drawn[hold] = s /\ hold \in HoldKeys
  BY <1>2, <1>3 DEF CheckoutInv, OneJob, HoldKeys
<1>5. step[s] \in {"authorizing", "earning"} => Len(drawn) \in DOMAIN drawn /\ drawn[Len(drawn)] = s
  BY <1>3 DEF CheckoutInv, OneJob
<1>6. step[s] \in {"authorizing", "earning"} =>
        Len(drawn) \in IF step[s] = "earning" THEN EarnKeys ELSE HoldKeys
  BY <1>3, <1>5 DEF EarnKeys, HoldKeys
<1>7. step[s] = "capturing" => tries \in 0..2
  BY DEF CheckoutInv, OneJob, TypeOK
<1>8. step[s] \notin {"capturing", "earning"} => tries = 0
  BY <1>2 DEF CheckoutInv, OneJob, Paying
<1>9. owed[s] = NoKey
  BY DEF CheckoutInv, OneJob, PayingSteps
<1> QED BY <1>1, <1>2, <1>4, <1>5, <1>6, <1>7, <1>8, <1>9 DEF CheckoutInv, OneJob, PayingSteps

LEMMA ServedEarn ==
  ASSUME TypeOK, NEW k \in Keys, EarnAnswered(k)
  PROVE  Call("earn", k) /\ txn'[k] = "earned"
BY DEF TypeOK, EarnAnswered, Call, Executed, NotExecuted, Effect, GW!Earn, GW!Moves

LEMMA StartKeepsInv ==
  ASSUME CheckoutInv, NEW s \in Sales, NEW redeem \in BOOLEAN, TakePayment(s, redeem)
  PROVE  CheckoutInv'
<1>1. PICK next \in {"authorizing", "paying"} :
        /\ step' = [step EXCEPT ![s] = next]
        /\ \/ UNCHANGED drawn /\ next = "paying"
           \/ Draw(s) /\ next = "authorizing"
  BY DEF TakePayment, GoesTo
<1>2. hold = NoKey /\ tries = 0
  BY DEF TakePayment, CheckoutInv, OneJob, Paying
<1>3. Moved("earn", NoKey) /\ paid \subseteq Sales
  BY NothingMoved DEF TakePayment, NotExecuted, CheckoutInv, TypeOK
<1>4. SaleMoves(s, next, "earn", NoKey)
  BY <1>1, <1>2, <1>3, Constants
     DEF SaleMoves, TakePayment, GoesTo, outbox, Steps, Ended, PayingSteps, BlockedSteps
<1> QED BY <1>4, SaleMovesKeepInv

LEMMA AuthorizingKeepsInv ==
  ASSUME CheckoutInv, NEW s \in Sales, Authorized(s) \/ NotAuthorized(s)
  PROVE  CheckoutInv'
<1> DEFINE k == Len(drawn)
<1>1. /\ Paying \subseteq {s} /\ k \in DOMAIN drawn /\ drawn[k] = s /\ k \in HoldKeys
      /\ tries = 0 /\ step[s] = "authorizing"
  BY PayingSale DEF Authorized, NotAuthorized, PayingSteps
<1>2. k \in Keys /\ paid \subseteq Sales /\ TypeOK
  BY <1>1 DEF HoldKeys, CheckoutInv, TypeOK
<1>3. Moved("authorize", k)
  BY <1>2, CallMoves DEF Call, Authorized, NotAuthorized
<1> HIDE DEF k
<1>4. CASE Authorized(s)
  <2>1. SaleMoves(s, "paying", "authorize", k)
    BY <1>1, <1>2, <1>3, <1>4 DEF SaleMoves, Authorized, outbox, Steps, PayingSteps, k, BlockedSteps
  <2> QED BY <2>1, SaleMovesKeepInv
<1>5. CASE NotAuthorized(s)
  <2>1. SaleMoves(s, "failed", "authorize", k)
    BY <1>1, <1>2, <1>3, <1>5
       DEF SaleMoves, NotAuthorized, Ends, outbox, Steps, PayingSteps, BlockedSteps
  <2> QED BY <2>1, SaleMovesKeepInv
<1> QED BY <1>4, <1>5

LEMMA PaidKeepsInv ==
  ASSUME CheckoutInv, NEW s \in Sales, Approved(s) \/ NotApproved(s)
  PROVE  CheckoutInv'
<1>1. /\ Paying \subseteq {s} /\ step[s] = "paying" /\ tries = 0
      /\ hold # NoKey => hold \in DOMAIN drawn /\ drawn[hold] = s
  BY PayingSale DEF Approved, NotApproved, PayingSteps
<1>2. Moved("earn", NoKey) /\ paid \subseteq Sales
  BY NothingMoved DEF Approved, NotApproved, NotExecuted, CheckoutInv, TypeOK
<1>3. CASE Approved(s)
  <2>1. PICK next \in {"capturing", "earning"} :
          /\ step' = [step EXCEPT ![s] = next]
          /\ \/ UNCHANGED drawn /\ next = "capturing" /\ hold # NoKey
             \/ Draw(s) /\ next = "earning"
    BY <1>3 DEF Approved, Settles, GoesTo
  <2>2. UNCHANGED <<hold, tries>>
    BY <1>3 DEF Approved, Settles, GoesTo
  <2>3. SaleMoves(s, next, "earn", NoKey)
    BY <1>1, <1>2, <1>3, <2>1, <2>2, Constants
       DEF SaleMoves, Approved, outbox, Steps, PayingSteps, Ended, BlockedSteps
  <2> QED BY <2>3, SaleMovesKeepInv
<1>4. CASE NotApproved(s)
  <2>1. PICK next \in {"voiding", "failed"} :
          /\ step' = [step EXCEPT ![s] = next] /\ tries' = 0
          /\ \/ next = "voiding" /\ hold # NoKey /\ hold' = hold
             \/ next = "failed" /\ hold' = NoKey
    BY <1>1, <1>4 DEF NotApproved, GoesTo, Ends
  <2>2. SaleMoves(s, next, "earn", NoKey)
    BY <1>1, <1>2, <1>4, <2>1, Constants
       DEF SaleMoves, NotApproved, outbox, Steps, PayingSteps, BlockedSteps
  <2> QED BY <2>2, SaleMovesKeepInv
<1> QED BY <1>3, <1>4

LEMMA HoldEndsKeepInv ==
  ASSUME CheckoutInv, NEW s \in Sales, Voided(s) \/ Captured(s) \/ NotCaptured(s)
  PROVE  CheckoutInv'
<1>1. /\ Paying \subseteq {s} /\ hold \in DOMAIN drawn /\ drawn[hold] = s /\ hold \in HoldKeys
      /\ hold # NoKey /\ step[s] \in {"voiding", "capturing"}
      /\ step[s] = "capturing" => s \in paid /\ tries \in 0..2
  BY PayingSale DEF Voided, Captured, NotCaptured, PayingSteps
<1>2. hold \in Keys /\ paid \subseteq Sales /\ TypeOK
  BY <1>1 DEF HoldKeys, CheckoutInv, TypeOK
<1>3. CASE Voided(s)
  <2>1. Moved("void", hold)
    BY <1>2, <1>3, CallMoves DEF Call, Voided
  <2>2. SaleMoves(s, "failed", "void", hold)
    BY <1>1, <1>2, <1>3, <2>1 DEF SaleMoves, Voided, Ends, outbox, Steps, PayingSteps, BlockedSteps
  <2> QED BY <2>2, SaleMovesKeepInv
<1>4. CASE Captured(s)
  <2>1. Moved("capture", hold) /\ step[s] = "capturing"
    BY <1>2, <1>4, CallMoves DEF Call, Captured
  <2>2. SaleMoves(s, "earning", "capture", hold)
    BY <1>1, <1>2, <1>4, <2>1
       DEF SaleMoves, Captured, GoesTo, outbox, Steps, PayingSteps, Ended, BlockedSteps
  <2> QED BY <2>2, SaleMovesKeepInv
<1>5. CASE NotCaptured(s)
  <2>1. Moved("capture", hold) /\ step[s] = "capturing"
    BY <1>2, <1>5, CallMoves DEF Call, NotCaptured
  <2>2. PICK next \in {"capturing", "earning"} :
          /\ step' = [step EXCEPT ![s] = next]
          /\ \/ UNCHANGED <<drawn, pref>> /\ next = "capturing" /\ tries' < 3
             \/ Draw(s) /\ next = "earning" /\ pref' = NoKey
    <3>1. CASE tries' < 3
      BY <1>2, <1>5, <2>1, <3>1 DEF NotCaptured, TypeOK
    <3>2. CASE ~ (tries' < 3)
      BY <1>5, <3>2 DEF NotCaptured
    <3> QED BY <3>1, <3>2
  <2>3. tries' \in 0..3 /\ hold' = hold
    BY <1>1, <1>5, <2>1 DEF NotCaptured
  <2>4. SaleMoves(s, next, "capture", hold)
    BY <1>1, <1>2, <1>5, <2>1, <2>2, <2>3
       DEF SaleMoves, NotCaptured, outbox, Steps, PayingSteps, Ended, BlockedSteps
  <2> QED BY <2>4, SaleMovesKeepInv
<1> QED BY <1>3, <1>4, <1>5

LEMMA EarningKeepsInv ==
  ASSUME CheckoutInv, NEW s \in Sales, Earned(s) \/ NotEarned(s)
  PROVE  CheckoutInv'
<1> DEFINE k == Len(drawn)
<1>1. /\ Paying \subseteq {s} /\ k \in DOMAIN drawn /\ drawn[k] = s /\ k \in EarnKeys
      /\ step[s] = "earning"
  BY PayingSale DEF Earned, NotEarned, PayingSteps
<1>2. k \in Keys /\ paid \subseteq Sales /\ TypeOK
  BY <1>1 DEF EarnKeys, CheckoutInv, TypeOK
<1>3. CASE Earned(s)
  <2>1. Moved("earn", k) /\ txn'[k] = "earned"
    BY <1>2, <1>3, ServedEarn, CallMoves DEF Earned
  <2> HIDE DEF k
  <2>2. SaleMoves(s, "done", "earn", k)
    BY <1>1, <1>2, <1>3, <2>1 DEF SaleMoves, Earned, Ends, outbox, Steps, PayingSteps, BlockedSteps
  <2> QED BY <2>2, SaleMovesKeepInv
<1>4. CASE NotEarned(s)
  <2>1. Moved("earn", k) /\ queue' = queue \cup {k} /\ drawn' = drawn
    BY <1>2, <1>4, CallMoves DEF NotEarned, Queued, Call
  <2> HIDE DEF k
  <2>2. SaleMoves(s, "done", "earn", k)
    BY <1>1, <1>2, <1>4, <2>1 DEF SaleMoves, NotEarned, Ends, Steps, PayingSteps, BlockedSteps
  <2> QED BY <2>2, SaleMovesKeepInv
<1> QED BY <1>3, <1>4

LEMMA ResetKeepsInv ==
  ASSUME CheckoutInv, NEW s \in Sales, ResetSale(s)
  PROVE  CheckoutInv'
<1>1. /\ Paying \subseteq {s} /\ step[s] \in {"paying", "capturing"}
      /\ step[s] = "capturing" => /\ hold \in DOMAIN drawn /\ drawn[hold] = s /\ hold \in HoldKeys
                                 /\ s \in paid
  BY PayingSale DEF ResetSale, PayingSteps
<1>2. paid \subseteq Sales /\ TypeOK
  BY DEF CheckoutInv, TypeOK
<1>3. CASE NotExecuted
  <2>1. Moved("earn", NoKey)
    BY <1>2, <1>3, NothingMoved
  <2>2. SaleMoves(s, "failed", "earn", NoKey)
    BY <1>1, <1>2, <2>1, Constants
       DEF SaleMoves, ResetSale, Ends, outbox, Steps, PayingSteps, BlockedSteps
  <2> QED BY <2>2, SaleMovesKeepInv
<1>4. CASE step[s] = "capturing" /\ Unanswered("capture", hold)
  <2>1. hold \in Keys
    BY <1>1, <1>4 DEF HoldKeys
  <2>2. Moved("capture", hold)
    BY <1>2, <1>4, <2>1, CallMoves DEF Call
  <2>3. SaleMoves(s, "failed", "capture", hold)
    BY <1>1, <1>2, <1>4, <2>2
       DEF SaleMoves, ResetSale, Ends, outbox, Steps, PayingSteps, BlockedSteps
  <2> QED BY <2>3, SaleMovesKeepInv
<1> QED BY <1>3, <1>4 DEF ResetSale

LEMMA LeaveKeepsInv ==
  ASSUME CheckoutInv, NEW s \in Sales, LeaveBlocked(s)
  PROVE  CheckoutInv'
<1>1. /\ Paying \subseteq {s} /\ owed[s] = NoKey
      /\ step[s] \in {"voiding", "capturing"} =>
           hold \in DOMAIN drawn /\ drawn[hold] = s /\ hold \in HoldKeys
      /\ step[s] \in {"capturing", "earning"} => s \in paid
      /\ step[s] = "earning" => Len(drawn) \in EarnKeys /\ drawn[Len(drawn)] = s
  BY PayingSale DEF LeaveBlocked, PayingSteps
<1>2. paid \subseteq Sales /\ TypeOK /\ HoldKeys \cup EarnKeys \subseteq Keys
  BY DEF CheckoutInv, TypeOK, HoldKeys, EarnKeys
<1>3. /\ hold' = NoKey /\ tries' = 0
      /\ UNCHANGED <<running, paid, pref, recovery, queue, replay, refused, kills>>
  BY DEF LeaveBlocked, Leaves, Ends, outbox
<1>4. CASE step[s] = "voiding"
  <2>1. Moved("void", hold)
    BY <1>1, <1>2, <1>4, CallMoves DEF LeaveBlocked, Call
  <2>2. /\ step' = [step EXCEPT ![s] = "unvoided"] /\ UNCHANGED drawn
        /\ owed' = [owed EXCEPT ![s] = NoKey]
    BY <1>4 DEF LeaveBlocked, Leaves, Ends
  <2>3. UNCHANGED owed
    BY <1>1, <1>2, <2>2 DEF TypeOK
  <2>4. SaleMoves(s, "unvoided", "void", hold)
    BY <1>1, <1>2, <1>3, <1>4, <2>1, <2>2, <2>3 DEF SaleMoves, Steps, PayingSteps, BlockedSteps
  <2> QED BY <2>4, SaleMovesKeepInv
<1>5. CASE step[s] = "capturing"
  <2>1. Moved("capture", hold)
    BY <1>1, <1>2, <1>5, CallMoves DEF LeaveBlocked, Call
  <2>2. /\ step' = [step EXCEPT ![s] = "uncaptured"] /\ Draw(s)
        /\ owed' = [owed EXCEPT ![s] = NewKey]
    BY <1>5 DEF LeaveBlocked, Leaves, Ends
  <2>3. SaleMoves(s, "uncaptured", "capture", hold)
    BY <1>1, <1>2, <1>3, <1>5, <2>1, <2>2 DEF SaleMoves, Steps, PayingSteps, BlockedSteps, Ended
  <2> QED BY <2>3, SaleMovesKeepInv
<1>6. CASE step[s] = "earning"
  <2> DEFINE k == Len(drawn)
  <2>1. Moved("earn", k)
    BY <1>1, <1>2, <1>6, CallMoves DEF LeaveBlocked, Call
  <2>2. /\ step' = [step EXCEPT ![s] = "unearned"] /\ UNCHANGED drawn
        /\ owed' = [owed EXCEPT ![s] = k] /\ k \in EarnKeys /\ drawn[k] = s
    BY <1>1, <1>6 DEF LeaveBlocked, Leaves, Ends
  <2> HIDE DEF k
  <2>3. OwesEarn(s)
    BY <2>2 DEF OwesEarn
  <2>4. /\ "unearned" \in Steps /\ step[s] \in PayingSteps
        /\ Moved("earn", k) /\ k \in EarnKeys /\ drawn' = drawn
        /\ step' = [step EXCEPT ![s] = "unearned"]
    BY <1>6, <2>1, <2>2 DEF Steps, PayingSteps, BlockedSteps
  <2>5. SaleMoves(s, "unearned", "earn", k)
    BY <1>1, <1>2, <1>3, <1>6, <2>3, <2>4 DEF SaleMoves
  <2> QED BY <2>5, SaleMovesKeepInv
<1> QED BY <1>4, <1>5, <1>6 DEF LeaveBlocked
-----------------------------------------------------------------------------
(* What every other step is: no sale is paid and no key is drawn; the jobs  *)
(* rest, have died with the process, or a cancelled one has queued its earn.*)
JobsDie ==
  /\ step' = [s \in Sales |-> IF s \in Paying \cup Blocked THEN "failed" ELSE step[s]]
  /\ hold' = NoKey
  /\ tries' = 0
  /\ owed' = [s \in Sales |-> NoKey]

JobReturns(s) ==
  /\ s \in Blocked
  /\ step' = [step EXCEPT ![s] = IF @ = "unvoided" THEN "failed" ELSE "done"]
  /\ owed' = [owed EXCEPT ![s] = NoKey]
  /\ owed[s] # NoKey => owed[s] \in queue'
  /\ UNCHANGED <<hold, tries>>

Background ==
  /\ UNCHANGED <<drawn, paid>>
  /\ UNCHANGED <<step, hold, tries, owed>> \/ JobsDie \/ \E s \in Sales : JobReturns(s)
  /\ txn' \in [Keys -> GW!States] /\ late' \subseteq Request
  /\ \A j \in Keys : txn[j] = "earned" => txn'[j] = "earned"
  /\ \A j \in Keys : EarnReached(j)' => j \in EarnKeys
  /\ \A j \in Keys : HoldReached(j)' => j \in HoldKeys
  /\ \A j \in Keys : CaptureReached(j)' =>
       CaptureReached(j) \/ (j \in DOMAIN drawn /\ drawn[j] \in paid)
  /\ pref' \in {NoKey} \cup HoldKeys /\ recovery' \in {NoKey} \cup HoldKeys
  /\ queue' \cup refused' \subseteq EarnKeys
  /\ \A r \in Replayers : replay'[r].snapshot \subseteq EarnKeys
  /\ \A j \in queue \cup refused : j \in queue' \cup refused' \/ txn'[j] = "earned"
  /\ replay' \in [Replayers -> [snapshot : SUBSET Keys, todo : SUBSET Keys, failed : SUBSET Keys]]
  /\ running' \in BOOLEAN /\ kills' \in 0..MaxKills

LEMMA BackgroundJob ==
  ASSUME CheckoutInv, Background
  PROVE  /\ OneJob'
         /\ step' \in [Sales -> Steps] /\ owed' \in [Sales -> Keys \cup {NoKey}]
         /\ \A s \in Sales : owed'[s] \in {owed[s], NoKey}
         /\ \A s \in Sales : step[s] \in Ended => step'[s] \in Ended
         /\ \A s \in Sales : step'[s] \in PayingSteps => step'[s] = step[s]
         /\ \A s \in Sales : step'[s] = "done" => step[s] = "done" \/ owed[s] \in queue' \cap KeysOf(s)
         /\ hold' \in {hold, NoKey} /\ tries' \in {tries, 0}
<1>1. step \in [Sales -> Steps] /\ owed \in [Sales -> Keys \cup {NoKey}] /\ UNCHANGED <<drawn, paid>>
  BY DEF CheckoutInv, TypeOK, Steps, PayingSteps, BlockedSteps, Background
<1>2. CASE UNCHANGED <<step, hold, tries, owed>>
  <2>1. Paying' = Paying
    BY <1>2 DEF Paying
  <2> QED BY <1>1, <1>2, <2>1 DEF CheckoutInv, OneJob
<1>3. CASE JobsDie
  <2>1. \A s \in Sales : step'[s] = (IF s \in Paying \cup Blocked THEN "failed" ELSE step[s])
    BY <1>3 DEF JobsDie
  <2>2. \A s \in Sales : step'[s] \notin PayingSteps \cup BlockedSteps
    BY <2>1 DEF Paying, PayingSteps, Blocked, BlockedSteps
  <2>3. Paying' = {}
    BY <2>2 DEF Paying, PayingSteps
  <2>4. OneJob'
    BY <1>3, <2>2, <2>3 DEF OneJob, JobsDie, PayingSteps, BlockedSteps
  <2>5. step' \in [Sales -> Steps]
    BY <1>1, <1>3 DEF JobsDie, Steps
  <2> QED BY <1>3, <2>1, <2>2, <2>4, <2>5 DEF JobsDie, Ended
<1>4. ASSUME NEW s \in Sales, JobReturns(s)
      PROVE  /\ OneJob'
             /\ step' \in [Sales -> Steps] /\ owed' \in [Sales -> Keys \cup {NoKey}]
             /\ \A t \in Sales : owed'[t] \in {owed[t], NoKey}
             /\ \A t \in Sales : step[t] \in Ended => step'[t] \in Ended
             /\ \A t \in Sales : step'[t] \in PayingSteps => step'[t] = step[t]
             /\ \A t \in Sales : step'[t] = "done" => step[t] = "done" \/ owed[t] \in queue' \cap KeysOf(t)
             /\ hold' \in {hold, NoKey} /\ tries' \in {tries, 0}
  <2>1. PICK next \in {"failed", "done"} :
          /\ step' = [step EXCEPT ![s] = next]
          /\ step[s] = "unvoided" <=> next = "failed"
    BY <1>1, <1>4 DEF JobReturns
  <2>2. /\ \A t \in Sales : step'[t] = (IF t = s THEN next ELSE step[t])
        /\ \A t \in Sales : owed'[t] = (IF t = s THEN NoKey ELSE owed[t])
        /\ step[s] \in BlockedSteps
    BY <1>1, <1>4, <2>1 DEF JobReturns, Blocked, BlockedSteps
  <2>3. Paying' = Paying
    BY <2>1, <2>2 DEF Paying, BlockedSteps
  <2>4. OneJob'
    BY <1>1, <1>4, <2>1, <2>2, <2>3 DEF CheckoutInv, OneJob, JobReturns, BlockedSteps
  <2>5. next = "done" => owed[s] \in queue' \cap KeysOf(s)
    <3>1. next = "done" => owed[s] # NoKey
      BY <2>1, <2>2 DEF CheckoutInv, OneJob, BlockedSteps
    <3> QED BY <1>4, <3>1, DrawnKeys DEF CheckoutInv, OneJob, JobReturns, KeysOf
  <2>6. step' \in [Sales -> Steps] /\ owed' \in [Sales -> Keys \cup {NoKey}]
    BY <1>1, <1>4, <2>1 DEF JobReturns, Steps
  <2> QED BY <1>4, <2>1, <2>2, <2>4, <2>5, <2>6 DEF JobReturns, Ended, PayingSteps, BlockedSteps
<1> QED BY <1>2, <1>3, <1>4 DEF Background, JobsDie

LEMMA BackgroundKeepsInv ==
  ASSUME CheckoutInv, Background, ReplaysAreWhole'
  PROVE  CheckoutInv'
<1>1. TypeOK'
  <2>1. HoldKeys \subseteq Keys /\ EarnKeys \subseteq Keys
    BY DEF HoldKeys, EarnKeys
  <2>2. hold' \in Keys \cup {NoKey} /\ tries' \in 0..3 /\ step' \in [Sales -> Steps]
        /\ owed' \in [Sales -> Keys \cup {NoKey}]
    BY BackgroundJob DEF CheckoutInv, TypeOK
  <2> QED BY <2>1, <2>2 DEF CheckoutInv, TypeOK, Background, Steps, PayingSteps, BlockedSteps
<1>2. EarnKeys' \subseteq EarnKeys
  <2> SUFFICES ASSUME NEW j \in Keys, j \in EarnKeys' PROVE j \in EarnKeys
    BY DEF EarnKeys
  <2>1. CASE j = Len(drawn') /\ \E s \in Sales : step'[s] = "earning"
    BY <2>1, BackgroundJob DEF Background, EarnKeys, PayingSteps
  <2>2. CASE EarnReached(j)' \/ j \in queue' \cup refused' \/ \E r \in Replayers : j \in replay'[r].snapshot
    BY <2>2 DEF Background
  <2>3. ASSUME NEW s \in Sales, j = owed'[s] PROVE j \in EarnKeys
    BY <2>3, BackgroundJob, Constants DEF EarnKeys
  <2> QED BY <2>1, <2>2, <2>3 DEF EarnKeys
<1>3. HoldKeys' \subseteq HoldKeys
  <2> SUFFICES ASSUME NEW j \in Keys, j \in HoldKeys' PROVE j \in HoldKeys
    BY DEF HoldKeys
  <2>1. CASE j = Len(drawn') /\ \E s \in Sales : step'[s] = "authorizing"
    BY <2>1, BackgroundJob DEF Background, HoldKeys, PayingSteps
  <2>2. CASE j = hold'
    BY <2>2, BackgroundJob, Constants DEF HoldKeys
  <2>3. CASE HoldReached(j)' \/ j \in {pref', recovery'}
    BY <2>3, Constants DEF Background
  <2> QED BY <2>1, <2>2, <2>3 DEF HoldKeys
<1>4. KeysApart'
  BY <1>2, <1>3, BackgroundJob, SameKeys DEF Background
<1>5. CapturesArePaid'
  <2>1. CASE Sales = {}
    BY <2>1, DrawnKeys DEF CheckoutInv, CapturesArePaid, Background
  <2>2. ASSUME NEW s \in Sales PROVE CapturesArePaid'
    BY CapturesStayPaid DEF Background, DrawsAtMost
  <2> QED BY <2>1, <2>2
<1>6. DoneSaleIsKept'
  <2> SUFFICES ASSUME NEW s \in Sales, step'[s] = "done"
               PROVE  \E j \in KeysOf(s)' : txn'[j] = "earned" \/ j \in queue' \cup refused'
    BY DEF DoneSaleIsKept
  <2>1. CASE step[s] = "done"
    BY <2>1, DoneStaysKept DEF Background
  <2>2. CASE owed[s] \in queue' \cap KeysOf(s)
    BY <2>2 DEF Background, KeysOf
  <2> QED BY <2>1, <2>2, BackgroundJob
<1> QED BY <1>1, <1>4, <1>5, <1>6, BackgroundJob DEF CheckoutInv

\* What the invariant says of the keys the till, its files and its replays know.
LEMMA KnownKeys ==
  ASSUME CheckoutInv
  PROVE  /\ EarnKeys \subseteq Keys /\ HoldKeys \subseteq Keys
         /\ queue \cup refused \subseteq EarnKeys
         /\ \A r \in Replayers : replay[r].snapshot \subseteq EarnKeys
         /\ {hold, pref, recovery} \subseteq {NoKey} \cup HoldKeys
         /\ \A j \in Keys : EarnReached(j) => j \in EarnKeys
         /\ \A j \in Keys : HoldReached(j) => j \in HoldKeys
BY DEF CheckoutInv, TypeOK, EarnKeys, HoldKeys

(* A call under a key the till knows leads nowhere new.                     *)
LEMMA CallReaches ==
  ASSUME CheckoutInv, NEW op, NEW k, Moved(op, k),
         k \in Keys => IF op = "earn" THEN k \in EarnKeys ELSE k \in HoldKeys,
         op = "capture" => CaptureReached(k)
  PROVE  /\ txn' \in [Keys -> GW!States] /\ late' \subseteq Request
         /\ \A j \in Keys : txn[j] = "earned" => txn'[j] = "earned"
         /\ \A j \in Keys : EarnReached(j)' => j \in EarnKeys
         /\ \A j \in Keys : HoldReached(j)' => j \in HoldKeys
         /\ \A j \in Keys : CaptureReached(j)' => CaptureReached(j)
BY KnownKeys DEF Moved

LEMMA LateKeepsInv ==
  ASSUME CheckoutInv, NEW c \in late, ServeLate(c)
  PROVE  CheckoutInv'
<1>1. /\ c \in Request /\ c = [op |-> c.op, key |-> c.key]
      /\ c.key \in Keys /\ c.op \in {"authorize", "capture", "void", "earn"}
  BY DEF CheckoutInv, TypeOK, Request
<1>2. Sent(c.op, c.key)
  BY <1>1 DEF Sent
<1>3. /\ IF c.op = "earn" THEN c.key \in EarnKeys ELSE c.key \in HoldKeys
      /\ c.op = "capture" => CaptureReached(c.key)
  BY <1>1, <1>2 DEF EarnKeys, HoldKeys, EarnReached, HoldReached, CaptureReached
<1>4. Moved(c.op, c.key)
  BY <1>1, CallMoves DEF ServeLate, Call, CheckoutInv
<1>5. Background
  BY <1>3, <1>4, CallReaches, KnownKeys DEF ServeLate, Background, till, outbox, CheckoutInv, TypeOK
<1>6. ReplaysAreWhole'
  BY <1>4, ReplaysStayWhole DEF ServeLate, outbox, Moved
<1> QED BY <1>5, <1>6, BackgroundKeepsInv

LEMMA ReplayTypes ==
  ASSUME CheckoutInv
  PROVE  /\ replay \in [Replayers -> [snapshot : SUBSET Keys, todo : SUBSET Keys, failed : SUBSET Keys]]
         /\ ReplayOfQueue \in [snapshot : SUBSET Keys, todo : SUBSET Keys, failed : SUBSET Keys]
         /\ NoReplay \in [snapshot : SUBSET Keys, todo : SUBSET Keys, failed : SUBSET Keys]
BY DEF CheckoutInv, TypeOK, ReplayOfQueue, NoReplay

LEMMA ReturnKeepsInv ==
  ASSUME CheckoutInv, NEW s \in Sales, BlockedReturns(s)
  PROVE  CheckoutInv'
<1>1. Moved("earn", NoKey)
  BY NothingMoved DEF BlockedReturns, NotExecuted, CheckoutInv
<1>2. owed[s] \in {NoKey} \cup EarnKeys
  BY DEF EarnKeys, CheckoutInv, TypeOK
<1>3. JobReturns(s)
  BY DEF BlockedReturns, JobReturns
<1>4. /\ UNCHANGED <<txn, drawn, late, running, paid, recovery, replay, refused, kills>>
      /\ queue' = queue \cup ({owed[s]} \ {NoKey}) /\ pref' \in {pref, NoKey}
  BY DEF BlockedReturns
<1>5. Background
  <2>1. queue' \cup refused' \subseteq EarnKeys
    BY <1>2, <1>4, KnownKeys
  <2>2. pref' \in {NoKey} \cup HoldKeys /\ recovery' \in {NoKey} \cup HoldKeys
    BY <1>4, KnownKeys
  <2>3. kills \in 0..MaxKills /\ running \in BOOLEAN
    BY DEF CheckoutInv, TypeOK
  <2> QED BY <1>1, <1>3, <1>4, <2>1, <2>2, <2>3, Constants, CallReaches, KnownKeys, ReplayTypes
        DEF Background
<1>6. ReplaysAreWhole'
  BY <1>1, <1>4, ReplaysStayWhole DEF Moved
<1> QED BY <1>5, <1>6, BackgroundKeepsInv

LEMMA RecoveredKeepsInv ==
  ASSUME CheckoutInv, Recovered
  PROVE  CheckoutInv'
<1>1. recovery \in HoldKeys /\ recovery \in Keys
  BY KnownKeys DEF Recovered
<1>2. Moved("void", recovery)
  BY <1>1, CallMoves DEF Recovered, Call, CheckoutInv
<1>3. Background
  BY <1>1, <1>2, CallReaches, KnownKeys DEF Recovered, Background, till, outbox, CheckoutInv, TypeOK
<1>4. ReplaysAreWhole'
  BY <1>2, ReplaysStayWhole DEF Recovered, outbox, Moved
<1> QED BY <1>3, <1>4, BackgroundKeepsInv

(* A replay starts: at launch, or with the home screen.                     *)
LEMMA ReplayStarts ==
  ASSUME CheckoutInv, HomeReplay \/ Launch
  PROVE  CheckoutInv'
<1>1. PICK r \in Replayers : replay' = [replay EXCEPT ![r] = ReplayOfQueue]
  BY DEF HomeReplay, Launch, Replayers
<1>2. \A q \in Replayers : replay'[q] = IF q = r THEN ReplayOfQueue ELSE replay[q]
  BY <1>1, ReplayTypes
<1>3. /\ UNCHANGED <<txn, drawn, late, till, pref, queue, refused, kills>>
      /\ running' \in BOOLEAN /\ recovery' \in {recovery, pref}
  BY DEF HomeReplay, Launch, CheckoutInv, TypeOK
<1>4. Moved("earn", NoKey)
  BY <1>3, NothingMoved DEF NotExecuted, CheckoutInv
<1>5. replay' \in [Replayers -> [snapshot : SUBSET Keys, todo : SUBSET Keys, failed : SUBSET Keys]]
  BY <1>1, ReplayTypes
<1>6. \A q \in Replayers : replay'[q].snapshot \subseteq EarnKeys
  BY <1>2, KnownKeys DEF ReplayOfQueue
<1>7. Background
  <2>1. pref' \in {NoKey} \cup HoldKeys /\ recovery' \in {NoKey} \cup HoldKeys
    BY <1>3, KnownKeys
  <2>2. kills \in 0..MaxKills
    BY DEF CheckoutInv, TypeOK
  <2> QED BY <1>3, <1>4, <1>5, <1>6, <2>1, <2>2, Constants, CallReaches, KnownKeys DEF Background, till
<1>8. ReplaysAreWhole'
  BY <1>2, <1>3 DEF CheckoutInv, ReplaysAreWhole, ReplayOfQueue
<1> QED BY <1>7, <1>8, BackgroundKeepsInv

(* A replay gets on: the gateway has taken or refused the earn under k, or  *)
(* k is kept for the next replay.                                           *)
LEMMA ReplayedKeepsInv ==
  ASSUME CheckoutInv, NEW r \in Replayers, NEW k \in Keys, Replayed(r, k) \/ NotReplayed(r, k)
  PROVE  CheckoutInv'
<1>1. k \in replay[r].todo /\ k \in replay[r].snapshot /\ k \in EarnKeys
  BY KnownKeys DEF Replayed, NotReplayed, CheckoutInv, ReplaysAreWhole
<1>2. Moved("earn", k)
  BY ServedEarn, CallMoves DEF Replayed, NotReplayed, Call, CheckoutInv
<1>3. /\ UNCHANGED <<drawn, running, till, pref, recovery, queue, kills>>
      /\ refused \subseteq refused' /\ refused' \subseteq refused \cup {k}
  BY DEF Replayed, NotReplayed
<1>4. k \in refused' \/ txn'[k] = "earned" \/ k \in replay'[r].failed
  <2>1. CASE Replayed(r, k)
    BY <2>1, ServedEarn DEF Replayed, CheckoutInv, NotExecuted
  <2>2. CASE NotReplayed(r, k)
    BY <2>2, ReplayTypes DEF NotReplayed
  <2> QED BY <2>1, <2>2
<1>5. /\ replay' \in [Replayers -> [snapshot : SUBSET Keys, todo : SUBSET Keys, failed : SUBSET Keys]]
      /\ \A q \in Replayers : replay'[q].snapshot = replay[q].snapshot
      /\ \A q \in Replayers \ {r} : replay'[q] = replay[q]
      /\ replay'[r].todo = replay[r].todo \ {k}
      /\ replay[r].failed \subseteq replay'[r].failed
      /\ replay'[r].failed \subseteq replay[r].failed \cup {k}
  BY ReplayTypes DEF Replayed, NotReplayed
<1>6. Background
  <2>1. pref' \in {NoKey} \cup HoldKeys /\ recovery' \in {NoKey} \cup HoldKeys
    BY <1>3, KnownKeys
  <2>2. kills \in 0..MaxKills /\ running \in BOOLEAN
    BY DEF CheckoutInv, TypeOK
  <2> QED BY <1>1, <1>2, <1>3, <1>5, <2>1, <2>2, CallReaches, KnownKeys DEF Background, till
<1>7. ReplaysAreWhole'
  <2> SUFFICES ASSUME NEW q \in Replayers
               PROVE  /\ replay'[q].todo \cup replay'[q].failed \subseteq replay'[q].snapshot
                      /\ \A j \in replay'[q].snapshot :
                           j \in replay'[q].todo \cup replay'[q].failed \cup refused' \/ txn'[j] = "earned"
    BY DEF ReplaysAreWhole
  <2>1. replay'[q].todo \cup replay'[q].failed \subseteq replay'[q].snapshot
    BY <1>1, <1>5 DEF CheckoutInv, ReplaysAreWhole
  <2>2. ASSUME NEW j \in replay'[q].snapshot
        PROVE  j \in replay'[q].todo \cup replay'[q].failed \cup refused' \/ txn'[j] = "earned"
    <3>1. /\ j \in Keys
          /\ j \in replay[q].todo \cup replay[q].failed \cup refused \/ txn[j] = "earned"
      BY <1>5, <2>2, KnownKeys DEF CheckoutInv, ReplaysAreWhole
    <3> QED BY <1>2, <1>3, <1>4, <1>5, <3>1 DEF Moved
  <2> QED BY <2>1, <2>2
<1> QED BY <1>6, <1>7, BackgroundKeepsInv

(* A replay ends: what it leaves out of the queue is settled.               *)
LEMMA EndReplayKeepsInv ==
  ASSUME CheckoutInv, NEW r \in Replayers, EndReplay(r)
  PROVE  CheckoutInv'
<1>1. /\ UNCHANGED <<txn, drawn, late, running, till, pref, recovery, refused, kills>>
      /\ queue' = replay[r].failed \cup (queue \ replay[r].snapshot)
      /\ replay[r].todo = {}
      /\ replay' = [replay EXCEPT ![r] = NoReplay]
  BY DEF EndReplay, Merged
<1>2. \A q \in Replayers : replay'[q] = IF q = r THEN NoReplay ELSE replay[q]
  BY <1>1, ReplayTypes
<1>3. Moved("earn", NoKey)
  BY <1>1, NothingMoved DEF NotExecuted, CheckoutInv
<1>4. queue' \cup refused' \subseteq EarnKeys
  BY <1>1, KnownKeys DEF CheckoutInv, ReplaysAreWhole
<1>5. \A j \in queue \cup refused : j \in queue' \cup refused' \/ txn'[j] = "earned"
  BY <1>1 DEF CheckoutInv, ReplaysAreWhole
<1>6. /\ replay' \in [Replayers -> [snapshot : SUBSET Keys, todo : SUBSET Keys, failed : SUBSET Keys]]
      /\ \A q \in Replayers : replay'[q].snapshot \subseteq EarnKeys
  BY <1>1, <1>2, ReplayTypes, KnownKeys DEF NoReplay
<1>7. Background
  <2>1. pref' \in {NoKey} \cup HoldKeys /\ recovery' \in {NoKey} \cup HoldKeys
    BY <1>1, KnownKeys
  <2>2. kills \in 0..MaxKills /\ running \in BOOLEAN
    BY DEF CheckoutInv, TypeOK
  <2> QED BY <1>1, <1>3, <1>4, <1>5, <1>6, <2>1, <2>2, Constants, CallReaches DEF Background, till
<1>8. ReplaysAreWhole'
  BY <1>1, <1>2 DEF CheckoutInv, ReplaysAreWhole, NoReplay
<1> QED BY <1>7, <1>8, BackgroundKeepsInv

(* What the process was waiting for when it died is under keys it knows.    *)
LEMMA OutstandingKeys ==
  ASSUME CheckoutInv, NEW c \in Outstanding
  PROVE  /\ c \in Request
         /\ IF c.op = "earn" THEN c.key \in EarnKeys ELSE c.key \in HoldKeys
         /\ c.op = "capture" => c.key \in DOMAIN drawn /\ drawn[c.key] \in paid
<1>1. CASE \E s \in Sales : step[s] = "authorizing" /\ c = [op |-> "authorize", key |-> Len(drawn)]
  BY <1>1, PayingSale, KnownKeys DEF Request, PayingSteps
<1>2. CASE \E s \in Sales : step[s] = "voiding" /\ c = [op |-> "void", key |-> hold]
  BY <1>2, PayingSale, KnownKeys DEF Request, PayingSteps
<1>3. CASE \E s \in Sales : step[s] = "capturing" /\ c = [op |-> "capture", key |-> hold]
  BY <1>3, PayingSale, KnownKeys DEF Request, PayingSteps
<1>4. CASE \E s \in Sales : step[s] = "earning" /\ c = [op |-> "earn", key |-> Len(drawn)]
  BY <1>4, PayingSale, KnownKeys DEF Request, PayingSteps
<1>5. CASE recovery # NoKey /\ c = [op |-> "void", key |-> recovery]
  BY <1>5, KnownKeys DEF Request
<1> QED BY <1>1, <1>2, <1>3, <1>4, <1>5 DEF Outstanding

LEMMA KillKeepsInv ==
  ASSUME CheckoutInv, Kill
  PROVE  CheckoutInv'
<1>1. /\ UNCHANGED <<txn, drawn, paid, pref, queue, refused>>
      /\ JobsDie /\ recovery' = NoKey /\ running' = FALSE
      /\ late \subseteq late' /\ late' \subseteq late \cup Outstanding
      /\ replay' = [r \in Replayers |-> NoReplay]
  BY DEF Kill, JobsDie
<1>2. late' \subseteq Request /\ txn' \in [Keys -> GW!States]
  BY <1>1, OutstandingKeys DEF CheckoutInv, TypeOK
<1>3. \A o \in {"authorize", "capture", "void", "earn"}, j \in Keys :
        Sent(o, j)' => \/ Sent(o, j)
                       \/ /\ IF o = "earn" THEN j \in EarnKeys ELSE j \in HoldKeys
                          /\ o = "capture" => j \in DOMAIN drawn /\ drawn[j] \in paid
  <2> SUFFICES ASSUME NEW o \in {"authorize", "capture", "void", "earn"}, NEW j \in Keys,
                      [op |-> o, key |-> j] \in Outstanding
               PROVE  /\ IF o = "earn" THEN j \in EarnKeys ELSE j \in HoldKeys
                      /\ o = "capture" => j \in DOMAIN drawn /\ drawn[j] \in paid
    BY <1>1 DEF Sent
  <2> DEFINE c == [op |-> o, key |-> j]
  <2>1. c.op = o /\ c.key = j
    OBVIOUS
  <2>2. c \in Outstanding
    OBVIOUS
  <2> HIDE DEF c
  <2> QED BY <2>1, <2>2, OutstandingKeys
<1>4. /\ \A j \in Keys : EarnReached(j)' => j \in EarnKeys
      /\ \A j \in Keys : HoldReached(j)' => j \in HoldKeys
      /\ \A j \in Keys : CaptureReached(j)' =>
           CaptureReached(j) \/ (j \in DOMAIN drawn /\ drawn[j] \in paid)
  BY <1>1, <1>3, KnownKeys DEF EarnReached, HoldReached, CaptureReached
<1>5. kills' \in 0..MaxKills
  BY Constants DEF Kill, CheckoutInv, TypeOK
<1>6. /\ replay' \in [Replayers -> [snapshot : SUBSET Keys, todo : SUBSET Keys, failed : SUBSET Keys]]
      /\ \A r \in Replayers : replay'[r] = NoReplay
  BY <1>1, ReplayTypes
<1>7. Background
  <2>1. \A r \in Replayers : replay'[r].snapshot \subseteq EarnKeys
    BY <1>6 DEF NoReplay
  <2> QED BY <1>1, <1>2, <1>4, <1>5, <1>6, <2>1, KnownKeys DEF Background
<1>8. ReplaysAreWhole'
  BY <1>6 DEF ReplaysAreWhole, NoReplay
<1> QED BY <1>7, <1>8, BackgroundKeepsInv
-----------------------------------------------------------------------------
LEMMA InitHolds == ASSUME Init PROVE CheckoutInv
<1> USE Constants DEF Init
<1>1. \A k \in Keys : txn[k] = "none"
  BY DEF GW!Init
<1>2. TypeOK
  <2>1. txn \in [Keys -> GW!States]
    BY DEF GW!Init, GW!States
  <2>2. drawn \in Seq(Sales) /\ Len(drawn) = 0
    OBVIOUS
  <2>3. replay \in [Replayers -> [snapshot : SUBSET Keys, todo : SUBSET Keys, failed : SUBSET Keys]]
    BY DEF NoReplay
  <2> QED BY <2>1, <2>2, <2>3 DEF TypeOK
<1>3. OneJob
  BY DEF OneJob, Paying
<1>4. EarnKeys = {} /\ HoldKeys = {}
  <2>1. \A r \in Replayers : replay[r].snapshot = {}
    BY DEF NoReplay
  <2> QED BY <1>1, <2>1 DEF EarnKeys, HoldKeys, EarnReached, HoldReached, Sent
<1>5. KeysApart
  BY <1>4 DEF KeysApart
<1>6. CapturesArePaid
  BY DEF CapturesArePaid
<1>7. ReplaysAreWhole
  BY DEF ReplaysAreWhole, NoReplay
<1>8. DoneSaleIsKept
  BY DEF DoneSaleIsKept
<1> QED BY <1>2, <1>3, <1>5, <1>6, <1>7, <1>8 DEF CheckoutInv

LEMMA StutterKeepsInv == ASSUME CheckoutInv, UNCHANGED vars PROVE CheckoutInv'
<1>1. Paying' = Paying
  BY DEF vars, till, Paying
<1>2. EarnKeys' = EarnKeys /\ HoldKeys' = HoldKeys
  BY DEF vars, till, outbox, EarnKeys, HoldKeys, EarnReached, HoldReached, Sent
<1>3. TypeOK' /\ ReplaysAreWhole' /\ DoneSaleIsKept'
  BY DEF vars, till, outbox, CheckoutInv, TypeOK, ReplaysAreWhole, DoneSaleIsKept, KeysOf
<1>4. OneJob'
  BY <1>1 DEF vars, till, CheckoutInv, OneJob
<1>5. KeysApart' /\ CapturesArePaid'
  BY <1>2 DEF vars, till, CheckoutInv, KeysApart, CapturesArePaid, CaptureReached, Sent
<1> QED BY <1>3, <1>4, <1>5 DEF CheckoutInv

LEMMA StepKeepsInv == ASSUME CheckoutInv, [Next]_vars PROVE CheckoutInv'
<1>1. ASSUME NEW s \in Sales, SaleStep(s) PROVE CheckoutInv'
  BY <1>1, StartKeepsInv, AuthorizingKeepsInv, PaidKeepsInv, HoldEndsKeepInv, EarningKeepsInv,
     ResetKeepsInv, LeaveKeepsInv, ReturnKeepsInv DEF SaleStep
<1>2. ASSUME NEW r \in Replayers, ReplayStep(r) PROVE CheckoutInv'
  BY <1>2, ReplayedKeepsInv, EndReplayKeepsInv DEF ReplayStep
<1>3. CASE \E c \in late : ServeLate(c)
  BY <1>3, LateKeepsInv
<1>4. CASE HomeReplay \/ Launch
  BY <1>4, ReplayStarts
<1>5. CASE Kill
  BY <1>5, KillKeepsInv
<1>6. CASE Recovered
  BY <1>6, RecoveredKeepsInv
<1>7. CASE UNCHANGED vars
  BY <1>7, StutterKeepsInv
<1> QED BY <1>1, <1>2, <1>3, <1>4, <1>5, <1>6, <1>7 DEF Next

(* The till's invariant: keys that may be earned under are apart from those *)
(* of holds, one to a sale, and only for sales that were paid, wherever the *)
(* till, outbox.json, the replays and the late requests have put them.      *)
THEOREM CheckoutIsSafe == Spec => []CheckoutInv
<1>1. Init => CheckoutInv
  BY InitHolds
<1>2. CheckoutInv /\ [Next]_vars => CheckoutInv'
  BY StepKeepsInv
<1> QED BY <1>1, <1>2, PTL DEF Spec

(* Every variable of the till and of its files keeps its type.              *)
THEOREM CheckoutTypes == Spec => []TypeOK
<1>1. CheckoutInv => TypeOK
  BY DEF CheckoutInv
<1> QED BY <1>1, CheckoutIsSafe, PTL

(* However the answers are lost, late requests served and the queue         *)
(* replayed, a sale is awarded under one key, and so once.                  *)
THEOREM SalesAreAwardedOnce == Spec => []AwardedOnce
<1>1. CheckoutInv => AwardedOnce
  <2> SUFFICES ASSUME CheckoutInv, NEW s \in Sales, NEW j \in KeysOf(s), NEW k \in KeysOf(s),
                      txn[j] = "earned", txn[k] = "earned"
               PROVE  j = k
    BY DEF AwardedOnce
  <2>1. j \in Keys /\ k \in Keys /\ drawn[j] = s /\ drawn[k] = s
    BY DrawnKeys DEF KeysOf, CheckoutInv
  <2>2. j \in EarnKeys /\ k \in EarnKeys
    BY <2>1 DEF EarnKeys, EarnReached
  <2> QED BY <2>1, <2>2 DEF CheckoutInv, KeysApart
<1> QED BY <1>1, CheckoutIsSafe, PTL

(* The earn of a sale reported as successful was taken or refused by the    *)
(* gateway, or is queued: no crash, replay or merge of the queue drops it.  *)
THEOREM DoneSalesAreAlwaysKept == Spec => []DoneSaleIsKept
<1>1. CheckoutInv => DoneSaleIsKept
  BY DEF CheckoutInv
<1> QED BY <1>1, CheckoutIsSafe, PTL

(* No sale is awarded points, and none takes the customer's, unless it was  *)
(* paid.                                                                    *)
THEOREM OnlyPaidSalesAlwaysSettle == Spec => []OnlyPaidSalesSettle
<1>1. CheckoutInv => OnlyPaidSalesSettle
  <2> SUFFICES ASSUME CheckoutInv, NEW k \in DOMAIN drawn, txn[k] \in {"earned", "captured"}
               PROVE  drawn[k] \in paid
    BY DEF OnlyPaidSalesSettle
  <2>1. k \in Keys
    BY DrawnKeys DEF CheckoutInv
  <2>2. CASE txn[k] = "earned"
    BY <2>1, <2>2 DEF EarnKeys, EarnReached, CheckoutInv, KeysApart
  <2>3. CASE txn[k] = "captured"
    BY <2>3 DEF CheckoutInv, CapturesArePaid, CaptureReached
  <2> QED BY <2>2, <2>3
<1> QED BY <1>1, CheckoutIsSafe, PTL
=============================================================================
