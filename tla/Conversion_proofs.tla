-------------------------- MODULE Conversion_proofs --------------------------
(***************************************************************************)
(* Proofs about Conversion, for every number of members, keys, sessions    *)
(* and top-ups, and every ratio, price and limit.  ConversionInv is the    *)
(* inductive invariant: what a session past its hold has locked stays as   *)
(* it found it, and what a session checked stays true while it is alone.   *)
(***************************************************************************)
EXTENDS Conversion, Accounting_proofs

Active == {s \in Sessions : session[s].pc # "idle"}

SessionsKnow ==
  \A s \in Active : session[s].key \in Keys /\ session[s].member \in Members

\* Every session past its hold has the allowance row, so there is one of them.
OneLocks == \A s, o \in Locking : s = o

\* What Reserve found is still so, and an answer means the partner credited.
LocksHold ==
  \A s \in Locking :
    /\ row[session[s].key].status = "none"
    /\ HasAvailable(balance[session[s].member], session[s].points)
    /\ session[s].pc = "credited" => session[s].key \in credited

OverlapsAreNoted ==
  \A s, o \in Active : s # o => <<session[s].member, session[o].member>> \in overlapped

\* What a session that nobody overlapped has checked is still so.
ChecksHold ==
  /\ \A m \in Members, s \in Active :
       DailyLimit > 0 /\ <<m, m>> \notin overlapped /\ session[s].member = m =>
         Converted(m) + session[s].points <= DailyLimit
  /\ overlapped = {} => \A s \in Active : allowance >= Cost(session[s].points)

\* A console call in progress has read a request.
ReviewsKnow == \A c \in Reviews : review[c].pc # "idle" => review[c].topup \in Topups

ConversionInv ==
  /\ TypeOK
  /\ SessionsKnow /\ OneLocks /\ LocksHold
  /\ OverlapsAreNoted /\ ChecksHold
  /\ BurnedPointsAreCredited
  /\ AllowanceIsExplained
  /\ LimitsHoldOneAtATime
-----------------------------------------------------------------------------
LEMMA Constants ==
  /\ MaxPoints \in Nat /\ RatioBps \in Nat /\ UnitCost \in Nat /\ TopupAmount \in Nat
  /\ DailyLimit \in Nat /\ MaxFunds \in Nat /\ MaxCredits \in Nat
  /\ IsFiniteSet(Keys) /\ IsFiniteSet(Topups)
  /\ None \notin Members /\ None \notin Keys /\ None \notin Topups
BY ConversionAssumption

LEMMA Products ==
  ASSUME NEW a \in Nat, NEW b \in Nat
  PROVE  a * b \in Nat /\ a * (b + 1) = a * b + a
OBVIOUS

(* A conversion costs the allowance a natural number of minor units.        *)
LEMMA CostType == ASSUME NEW n \in Nat PROVE Cost(n) \in Nat
<1>1. ASSUME NEW p \in Nat PROVE p \div 10000 \in Nat
  OBVIOUS
<1>2. n * RatioBps \in Nat
  BY Constants, Products
<1>3. PartnerPoints(n) \in Nat
  BY <1>1, <1>2 DEF PartnerPoints
<1>4. UnitCost \in Nat
  BY Constants
<1> QED BY <1>3, <1>4, Products DEF Cost

LEMMA SumsAreNatural ==
  ASSUME TypeOK
  PROVE  /\ \A m \in Members : ConvertedUnder(m) \in [Keys -> Nat] /\ Converted(m) \in Nat
         /\ Costs \in [Keys -> Nat] /\ SumOf(Costs) \in Nat
         /\ SumOf(paidIn) \in Nat
<1>1. \A k \in Keys : row[k].points \in Nat /\ Cost(row[k].points) \in Nat
  BY Constants, CostType DEF TypeOK
<1>2. Costs \in [Keys -> Nat]
  BY <1>1 DEF Costs
<1>3. ASSUME NEW m \in Members PROVE ConvertedUnder(m) \in [Keys -> Nat] /\ Converted(m) \in Nat
  <2>1. ConvertedUnder(m) \in [Keys -> Nat]
    BY <1>1 DEF ConvertedUnder
  <2> QED BY <2>1, SumType, Constants DEF Converted
<1>4. paidIn \in [Topups -> Nat]
  BY DEF TypeOK
<1> QED BY <1>2, <1>3, <1>4, SumType, Constants

LEMMA RowsUntouched ==
  ASSUME UNCHANGED row
  PROVE  /\ \A m : Completed(m)' = Completed(m) /\ Converted(m)' = Converted(m)
         /\ SumOf(Costs)' = SumOf(Costs)
<1>1. \A m : Completed(m)' = Completed(m) /\ ConvertedUnder(m)' = ConvertedUnder(m)
  BY DEF Completed, ConvertedUnder
<1>2. Costs' = Costs
  BY DEF Costs
<1> QED BY <1>1, <1>2 DEF Converted

(* A row that ends as completed adds its points and its cost; one that      *)
(* failed adds nothing.                                                     *)
LEMMA RowEnds ==
  ASSUME TypeOK, NEW s \in Sessions, NEW status \in {"completed", "failed"},
         session[s].key \in Keys, session[s].member \in Members,
         row[session[s].key].status = "none", EndAs(s, status)
  PROVE  /\ \A m \in Members :
              /\ Completed(m)' = Completed(m) \cup
                   (IF status = "completed" /\ m = session[s].member THEN {session[s].key} ELSE {})
              /\ Converted(m)' = Converted(m) +
                   (IF status = "completed" /\ m = session[s].member THEN session[s].points ELSE 0)
         /\ SumOf(Costs)' = SumOf(Costs) +
              (IF status = "completed" THEN Cost(session[s].points) ELSE 0)
<1> DEFINE k == session[s].key
           me == session[s].member
           n == session[s].points
           new == [status |-> status, member |-> me, points |-> n]
<1>1. /\ k \in Keys /\ me \in Members /\ n \in Nat /\ row[k].status = "none"
      /\ row' = [row EXCEPT ![k] = new]
      /\ Cost(n) \in Nat
  BY Constants, CostType DEF TypeOK, EndAs
<1>2. /\ \A j \in Keys : row[j].points \in Nat /\ Cost(row[j].points) \in Nat
      /\ row \in [Keys -> [status : {"none", "completed", "failed"},
                           member : Members \cup {None}, points : 0..MaxPoints]]
  BY Constants, CostType DEF TypeOK
<1>3. /\ new.status = status /\ new.member = me /\ new.points = n
      /\ row'[k] = new /\ \A j \in Keys \ {k} : row'[j] = row[j]
  BY <1>1, <1>2
<1> HIDE DEF k, me, n, new
<1>4. ASSUME NEW m \in Members
      PROVE  /\ Completed(m)' = Completed(m) \cup
                  (IF status = "completed" /\ m = me THEN {k} ELSE {})
             /\ Converted(m)' = Converted(m) + (IF status = "completed" /\ m = me THEN n ELSE 0)
  <2> DEFINE f == ConvertedUnder(m)
             add == IF status = "completed" /\ m = me THEN n ELSE 0
  <2>1. k \notin Completed(m)
    BY <1>1 DEF Completed
  <2>2. Completed(m)' = Completed(m) \cup (IF status = "completed" /\ m = me THEN {k} ELSE {})
    BY <1>1, <1>3 DEF Completed
  <2>3. f \in [Keys -> Nat] /\ f[k] = 0
    BY <1>1, <1>2, <2>1 DEF ConvertedUnder
  <2>4. f' = [j \in Keys |-> IF j \in Completed(m)' THEN row'[j].points ELSE 0]
    BY DEF ConvertedUnder
  <2>5. f'[k] = add
    BY <1>1, <1>3, <2>1, <2>2, <2>4
  <2>6. \A j \in Keys \ {k} : f'[j] = f[j]
    BY <1>3, <2>2, <2>4 DEF ConvertedUnder
  <2>7. f' \in [Keys -> Nat]
    BY <1>1, <2>3, <2>4, <2>5, <2>6
  <2>8. SumOf(f') = SumOf(f) - f[k] + f'[k] /\ SumOf(f) \in Nat
    <3> HIDE DEF f
    <3> QED BY <1>1, <2>3, <2>6, <2>7, SumChanges, Constants
  <2>9. add \in Nat
    BY <1>1
  <2>10. SumOf(f') = SumOf(f) + add
    <3> HIDE DEF f, add
    <3> QED BY <2>3, <2>5, <2>8, <2>9
  <2> QED BY <2>2, <2>10 DEF Converted
<1>5. SumOf(Costs)' = SumOf(Costs) + (IF status = "completed" THEN Cost(n) ELSE 0)
  <2> DEFINE add == IF status = "completed" THEN Cost(n) ELSE 0
  <2>1. Costs \in [Keys -> Nat] /\ Costs[k] = 0
    BY <1>1, <1>2 DEF Costs
  <2>2. Costs' = [j \in Keys |-> IF row'[j].status = "completed" THEN Cost(row'[j].points) ELSE 0]
    BY DEF Costs, Cost, PartnerPoints
  <2>3. Costs'[k] = add
    BY <1>1, <1>3, <2>2
  <2>4. \A j \in Keys \ {k} : Costs'[j] = Costs[j]
    BY <1>3, <2>2 DEF Costs
  <2>5. add \in Nat
    BY <1>1
  <2>6. Costs' \in [Keys -> Nat]
    BY <2>1, <2>2, <2>3, <2>4, <2>5
  <2>7. SumOf(Costs') = SumOf(Costs) - Costs[k] + Costs'[k] /\ SumOf(Costs) \in Nat
    BY <1>1, <2>1, <2>4, <2>6, SumChanges, Constants
  <2> QED BY <2>1, <2>3, <2>5, <2>7
<1> QED BY <1>4, <1>5 DEF k, me, n
-----------------------------------------------------------------------------
LEMMA InitConverts == Init => ConversionInv
<1> SUFFICES ASSUME Init PROVE ConversionInv
  OBVIOUS
<1>1. TypeOK
  BY Constants, FreshRow DEF Init, TypeOK, NoRow, Idle, NoReview
<1>2. Active = {} /\ Locking = {}
  BY DEF Init, Active, Locking, Idle
<1>3. SessionsKnow /\ OneLocks /\ LocksHold /\ OverlapsAreNoted /\ ChecksHold
  BY <1>2 DEF SessionsKnow, OneLocks, LocksHold, OverlapsAreNoted, ChecksHold
<1>4. ASSUME NEW m \in Members PROVE Completed(m) = {} /\ Converted(m) = 0
  <2>1. Completed(m) = {}
    BY DEF Init, Completed, NoRow
  <2>2. ConvertedUnder(m) \in [Keys -> {0}]
    BY <2>1 DEF ConvertedUnder
  <2> QED BY <2>1, <2>2, SumOfZeros DEF Converted
<1>5. BurnedPointsAreCredited
  BY <1>4, FreshRow DEF Init, BurnedPointsAreCredited, NewBalance
<1>6. AllowanceIsExplained
  <2>1. Costs \in [Keys -> {0}]
    BY DEF Init, Costs, NoRow
  <2>2. paidIn \in [Topups -> {0}]
    BY DEF Init
  <2>3. SumOf(Costs) = 0 /\ SumOf(paidIn) = 0
    BY <2>1, <2>2, SumOfZeros
  <2> QED BY <2>3, Constants DEF Init, AllowanceIsExplained
<1>7. LimitsHoldOneAtATime
  BY <1>4, Constants DEF Init, LimitsHoldOneAtATime
<1> QED BY <1>1, <1>3, <1>5, <1>6, <1>7 DEF ConversionInv

(* A step that leaves the sessions and the rows alone, and only adds to     *)
(* unlocked balances and to the unlocked allowance, keeps what they know.   *)
LEMMA MoneyInKeepsChecks ==
  ASSUME ConversionInv, UNCHANGED conversions,
         allowance' \in Int, allowance' >= allowance,
         \A s \in Locking : balance'[session[s].member] = balance[session[s].member]
  PROVE  /\ SessionsKnow' /\ OneLocks' /\ LocksHold' /\ OverlapsAreNoted'
         /\ ChecksHold' /\ LimitsHoldOneAtATime'
<1>1. UNCHANGED <<row, credited, session, overlapped>>
  BY DEF conversions
<1>2. Active' = Active /\ Locking' = Locking
  BY <1>1 DEF Active, Locking
<1>3. SessionsKnow' /\ OneLocks' /\ LocksHold' /\ OverlapsAreNoted'
  BY <1>1, <1>2 DEF ConversionInv, SessionsKnow, OneLocks, LocksHold, OverlapsAreNoted
<1>4. \A m : Converted(m)' = Converted(m)
  BY <1>1, RowsUntouched
<1>5. \A s \in Active : Cost(session[s].points) \in Int
  BY Constants, CostType DEF ConversionInv, TypeOK, Active
<1>6. allowance \in Int
  BY DEF ConversionInv, TypeOK
<1>7. ChecksHold'
  <2>1. ASSUME NEW m \in Members, NEW s \in Active, DailyLimit > 0,
               <<m, m>> \notin overlapped, session[s].member = m
        PROVE  Converted(m)' + session[s].points <= DailyLimit
    BY <1>4, <2>1 DEF ConversionInv, ChecksHold
  <2>2. ASSUME overlapped = {}, NEW s \in Active PROVE allowance' >= Cost(session[s].points)
    BY <1>5, <1>6, <2>2 DEF ConversionInv, ChecksHold
  <2> QED BY <1>1, <1>2, <1>4, <2>1, <2>2 DEF ChecksHold, Cost, PartnerPoints
<1>8. LimitsHoldOneAtATime'
  BY <1>1, <1>4, <1>6 DEF ConversionInv, LimitsHoldOneAtATime
<1> QED BY <1>3, <1>7, <1>8

LEMMA EarnKeepsInv ==
  ASSUME ConversionInv, NEW m \in Members, NEW n \in 1..MaxFunds, Earn(m, n)
  PROVE  ConversionInv'
<1>1. /\ n \in Nat /\ balance \in [Members -> Balance] /\ balance[m] \in Balance
      /\ balance' = [balance EXCEPT ![m] = Credit(balance[m], n)]
      /\ RowChecks(balance[m]) /\ allowance \in Int
      /\ UNCHANGED <<allowance, funded, conversions, topups>>
  BY Constants DEF ConversionInv, TypeOK, Earn, BurnedPointsAreCredited
<1>2. /\ Credit(balance[m], n) \in Balance
      /\ Credit(balance[m], n).posted_debits = balance[m].posted_debits
      /\ Credit(balance[m], n).pending_debits = balance[m].pending_debits
      /\ RowChecks(Credit(balance[m], n))
  BY <1>1, RowCredit, RowViews
<1>3. \A s \in Locking : balance'[session[s].member] = balance[session[s].member]
  BY <1>1 DEF Earn, MemberUnlocked
<1>4. /\ SessionsKnow' /\ OneLocks' /\ LocksHold' /\ OverlapsAreNoted'
      /\ ChecksHold' /\ LimitsHoldOneAtATime'
  BY <1>1, <1>3, MoneyInKeepsChecks
<1>5. TypeOK'
  BY <1>1, <1>2 DEF ConversionInv, TypeOK, conversions, topups
<1>6. /\ \A q : Completed(q)' = Completed(q) /\ Converted(q)' = Converted(q)
      /\ SumOf(Costs)' = SumOf(Costs)
  BY <1>1, RowsUntouched DEF conversions
<1>7. BurnedPointsAreCredited'
  BY <1>1, <1>2, <1>6 DEF ConversionInv, BurnedPointsAreCredited, conversions
<1>8. AllowanceIsExplained'
  BY <1>1, <1>6 DEF ConversionInv, AllowanceIsExplained, topups
<1> QED BY <1>4, <1>5, <1>7, <1>8 DEF ConversionInv

LEMMA FundKeepsInv ==
  ASSUME ConversionInv, NEW n \in 1..MaxFunds, FundAllowance(n)
  PROVE  ConversionInv'
<1>1. /\ n \in Nat /\ funded \in Nat /\ allowance \in Int
      /\ funded' = funded + n /\ allowance' = allowance + n
      /\ UNCHANGED <<balance, conversions, topups>>
  BY Constants DEF ConversionInv, TypeOK, FundAllowance
<1>2. /\ SessionsKnow' /\ OneLocks' /\ LocksHold' /\ OverlapsAreNoted'
      /\ ChecksHold' /\ LimitsHoldOneAtATime'
  BY <1>1, MoneyInKeepsChecks
<1>3. TypeOK'
  BY <1>1 DEF ConversionInv, TypeOK, conversions, topups
<1>4. /\ \A q : Completed(q)' = Completed(q) /\ Converted(q)' = Converted(q)
      /\ SumOf(Costs)' = SumOf(Costs)
  BY <1>1, RowsUntouched DEF conversions
<1>5. BurnedPointsAreCredited'
  BY <1>1, <1>4 DEF ConversionInv, BurnedPointsAreCredited, conversions
<1>6. AllowanceIsExplained'
  <2> DEFINE credits == TopupAmount * SumOf(paidIn)
  <2>1. SumOf(paidIn) \in Nat /\ SumOf(Costs) \in Nat
    BY SumsAreNatural DEF ConversionInv
  <2>2. credits \in Nat
    BY <2>1, Constants
  <2>3. allowance = (funded + credits) - SumOf(Costs) /\ credits' = credits
    BY <1>1 DEF ConversionInv, AllowanceIsExplained, topups
  <2>4. allowance' = (funded' + credits') - SumOf(Costs)
    <3> HIDE DEF credits
    <3> QED BY <1>1, <2>1, <2>2, <2>3
  <2> QED BY <1>4, <2>4 DEF AllowanceIsExplained
<1> QED BY <1>2, <1>3, <1>5, <1>6 DEF ConversionInv
-----------------------------------------------------------------------------
SessionRow ==
  [pc : {"idle", "checked", "held", "credited", "refused"}, key : Keys \cup {None},
   member : Members \cup {None}, points : 0..MaxPoints]

\* A session moves to e, and no money moves.
SessionGoesTo(s, e) ==
  /\ session' = [session EXCEPT ![s] = e]
  /\ e \in SessionRow
  /\ UNCHANGED <<balance, allowance, funded, row, topups>>
  /\ credited \subseteq credited' /\ credited' \subseteq Keys
  /\ overlapped \subseteq overlapped' /\ overlapped' \subseteq Members \X Members

LEMMA SessionMoveKeepsBooks ==
  ASSUME ConversionInv, NEW s \in Sessions, NEW e, SessionGoesTo(s, e)
  PROVE  /\ TypeOK' /\ BurnedPointsAreCredited'
         /\ AllowanceIsExplained' /\ LimitsHoldOneAtATime'
<1>1. session \in [Sessions -> SessionRow] /\ session' \in [Sessions -> SessionRow]
  BY DEF ConversionInv, TypeOK, SessionRow, SessionGoesTo
<1>2. TypeOK'
  BY <1>1 DEF ConversionInv, TypeOK, SessionRow, SessionGoesTo, topups
<1>3. /\ \A m : Completed(m)' = Completed(m) /\ Converted(m)' = Converted(m)
      /\ SumOf(Costs)' = SumOf(Costs)
  BY RowsUntouched DEF SessionGoesTo
<1>4. BurnedPointsAreCredited'
  BY <1>3 DEF ConversionInv, BurnedPointsAreCredited, SessionGoesTo
<1>5. AllowanceIsExplained'
  BY <1>3 DEF ConversionInv, AllowanceIsExplained, SessionGoesTo, topups
<1>6. LimitsHoldOneAtATime'
  BY <1>3 DEF ConversionInv, LimitsHoldOneAtATime, SessionGoesTo
<1> QED BY <1>2, <1>4, <1>5, <1>6

\* What the sessions are after one of them moved to e.
LEMMA SessionsAfter ==
  ASSUME TypeOK, NEW s \in Sessions, NEW e, session' = [session EXCEPT ![s] = e]
  PROVE  /\ session'[s] = e /\ \A o \in Sessions \ {s} : session'[o] = session[o]
         /\ Active' = {o \in Sessions : IF o = s THEN e.pc # "idle" ELSE o \in Active}
         /\ Locking' = {o \in Sessions : IF o = s THEN e.pc \in {"held", "credited", "refused"}
                                                   ELSE o \in Locking}
         /\ Locking \subseteq Active
<1>1. session'[s] = e /\ \A o \in Sessions \ {s} : session'[o] = session[o]
  BY DEF TypeOK
<1> QED BY <1>1 DEF Active, Locking

(* A session that is over has nothing to keep.                              *)
LEMMA IdlingKeepsInv ==
  ASSUME ConversionInv, NEW s \in Sessions, SessionGoesTo(s, Idle), credited' = credited
  PROVE  ConversionInv'
<1>0. /\ \A o \in Sessions \ {s} : session'[o] = session[o]
      /\ Active' = {o \in Sessions : IF o = s THEN Idle.pc # "idle" ELSE o \in Active}
      /\ Locking' = {o \in Sessions : IF o = s THEN Idle.pc \in {"held", "credited", "refused"}
                                                ELSE o \in Locking}
  BY SessionsAfter DEF SessionGoesTo, ConversionInv
<1>1. /\ \A o \in Sessions \ {s} : session'[o] = session[o]
      /\ Active' = Active \ {s} /\ Locking' = Locking \ {s}
  BY <1>0 DEF Idle, Active, Locking
<1>2. /\ UNCHANGED <<balance, allowance, row, credited>> /\ overlapped \subseteq overlapped'
  BY DEF SessionGoesTo
<1>3. SessionsKnow' /\ OneLocks' /\ LocksHold' /\ OverlapsAreNoted'
  BY <1>1, <1>2 DEF ConversionInv, SessionsKnow, OneLocks, LocksHold, OverlapsAreNoted, Active,
                    Locking
<1>4. \A m : Converted(m)' = Converted(m)
  BY <1>2, RowsUntouched
<1>5. ChecksHold'
  BY <1>1, <1>2, <1>4 DEF ConversionInv, ChecksHold, Active, Cost, PartnerPoints
<1> QED BY <1>3, <1>5, SessionMoveKeepsBooks DEF ConversionInv

(* The checks of a conversion, which note whose conversions it overlaps.    *)
LEMMA CheckKeepsInv ==
  ASSUME ConversionInv, NEW s \in Sessions, NEW k \in Keys, NEW m \in Members,
         NEW n \in 1..MaxPoints, Check(s, k, m, n)
  PROVE  ConversionInv'
<1> DEFINE e == [pc |-> "checked", key |-> k, member |-> m, points |-> n]
<1>1. /\ session[s].pc = "idle"
      /\ UNCHANGED <<balance, allowance, funded, row, credited, topups>>
      /\ session' = [session EXCEPT ![s] = IF MayConvert(k, m, n) THEN e ELSE Idle]
  BY DEF Check
<1>2. /\ \A o \in Active : session[o].member \in Members
      /\ overlapped \subseteq Members \X Members /\ credited \subseteq Keys
  BY DEF ConversionInv, TypeOK, SessionsKnow
<1>3. overlapped' = overlapped \cup
        UNION {{<<m, session[o].member>>, <<session[o].member, m>>} : o \in Active}
  BY DEF Check, Active
<1>4. /\ overlapped \subseteq overlapped' /\ overlapped' \subseteq Members \X Members
      /\ \A o \in Active : <<m, session[o].member>> \in overlapped'
                         /\ <<session[o].member, m>> \in overlapped'
  BY <1>2, <1>3
<1>5. e \in SessionRow /\ Idle \in SessionRow
  BY Constants DEF SessionRow, Idle
<1>6. CASE ~ MayConvert(k, m, n)
  <2>1. SessionGoesTo(s, Idle)
    BY <1>1, <1>2, <1>4, <1>5, <1>6 DEF SessionGoesTo
  <2> QED BY <1>1, <2>1, IdlingKeepsInv
<1>7. CASE MayConvert(k, m, n)
  <2>1. SessionGoesTo(s, e) /\ session' = [session EXCEPT ![s] = e]
    BY <1>1, <1>2, <1>4, <1>5, <1>7 DEF SessionGoesTo
  <2>2. /\ e.pc = "checked" /\ e.key = k /\ e.member = m /\ e.points = n
    OBVIOUS
  <2> HIDE DEF e
  <2>0. /\ session'[s] = e /\ \A o \in Sessions \ {s} : session'[o] = session[o]
        /\ Active' = {o \in Sessions : IF o = s THEN e.pc # "idle" ELSE o \in Active}
        /\ Locking' = {o \in Sessions : IF o = s THEN e.pc \in {"held", "credited", "refused"}
                                                  ELSE o \in Locking}
    BY <2>1, SessionsAfter DEF ConversionInv
  <2>3. /\ session'[s] = e /\ \A o \in Sessions \ {s} : session'[o] = session[o]
        /\ Active' = Active \cup {s} /\ Locking' = Locking /\ s \notin Active
        /\ s \notin Locking
    BY <1>1, <2>0, <2>2 DEF Active, Locking
  <2>4. SessionsKnow'
    BY <2>2, <2>3 DEF ConversionInv, SessionsKnow, Active
  <2>5. OneLocks' /\ LocksHold'
    BY <1>1, <2>3 DEF ConversionInv, OneLocks, LocksHold, Locking
  <2>6. OverlapsAreNoted'
    BY <1>4, <2>2, <2>3 DEF ConversionInv, OverlapsAreNoted, Active
  <2>7. \A q : Converted(q)' = Converted(q)
    BY <1>1, RowsUntouched
  <2>8. /\ DailyLimit > 0 => Converted(m) + n <= DailyLimit
        /\ allowance >= Cost(n)
    BY <1>7 DEF MayConvert
  <2>9. ASSUME NEW q \in Members, NEW o \in Active', DailyLimit > 0, <<q, q>> \notin overlapped',
               session'[o].member = q
        PROVE  Converted(q) + session'[o].points <= DailyLimit
    <3>1. CASE o = s
      BY <2>2, <2>3, <2>8, <2>9, <3>1
    <3>2. CASE o # s
      BY <1>4, <2>3, <2>9, <3>2 DEF ConversionInv, ChecksHold, Active
    <3> QED BY <3>1, <3>2
  <2>10. ASSUME overlapped' = {}, NEW o \in Active'
         PROVE  allowance >= Cost(session'[o].points)
    <3>1. CASE o = s
      BY <2>2, <2>3, <2>8, <3>1
    <3>2. CASE o # s
      BY <1>4, <2>3, <2>10, <3>2 DEF ConversionInv, ChecksHold, Active
    <3> QED BY <3>1, <3>2
  <2>11. ChecksHold'
    BY <1>1, <2>7, <2>9, <2>10 DEF ChecksHold, Cost, PartnerPoints
  <2> QED BY <2>1, <2>4, <2>5, <2>6, <2>11, SessionMoveKeepsBooks DEF ConversionInv
<1> QED BY <1>6, <1>7

(* A session that goes on, alone past its hold, keeps what it checked.      *)
LEMMA GoingOnKeepsInv ==
  ASSUME ConversionInv, NEW s \in Active, NEW pc \in {"held", "credited", "refused"},
         session' = [session EXCEPT ![s].pc = pc],
         UNCHANGED <<balance, allowance, funded, row, overlapped, topups>>,
         credited \subseteq credited', credited' \subseteq Keys,
         Locking \subseteq {s},
         row[session[s].key].status = "none",
         HasAvailable(balance[session[s].member], session[s].points),
         pc = "credited" => session[s].key \in credited'
  PROVE  ConversionInv'
<1> DEFINE e == [session[s] EXCEPT !.pc = pc]
<1>1. /\ s \in Sessions /\ session \in [Sessions -> SessionRow]
      /\ overlapped \subseteq Members \X Members
  BY DEF Active, ConversionInv, TypeOK, SessionRow
<1>2. session' = [session EXCEPT ![s] = e]
  BY <1>1
<1>3. /\ e.pc = pc /\ e.key = session[s].key /\ e.member = session[s].member
      /\ e.points = session[s].points /\ e \in SessionRow
  BY <1>1 DEF SessionRow
<1> HIDE DEF e
<1>4. SessionGoesTo(s, e)
  BY <1>1, <1>2, <1>3 DEF SessionGoesTo
<1>5. /\ session'[s] = e /\ \A o \in Sessions \ {s} : session'[o] = session[o]
      /\ Active' = {o \in Sessions : IF o = s THEN e.pc # "idle" ELSE o \in Active}
      /\ Locking' = {o \in Sessions : IF o = s THEN e.pc \in {"held", "credited", "refused"}
                                                ELSE o \in Locking}
  BY <1>1, <1>2, SessionsAfter DEF ConversionInv
<1>6. /\ Active' = Active /\ Locking' = {s}
      /\ \A o \in Active : /\ session'[o].key = session[o].key
                           /\ session'[o].member = session[o].member
                           /\ session'[o].points = session[o].points
  BY <1>1, <1>3, <1>5 DEF Active
<1>7. SessionsKnow' /\ OneLocks' /\ OverlapsAreNoted'
  BY <1>6 DEF ConversionInv, SessionsKnow, OneLocks, OverlapsAreNoted
<1>8. LocksHold'
  BY <1>3, <1>5, <1>6 DEF LocksHold
<1>9. \A m : Converted(m)' = Converted(m)
  BY RowsUntouched
<1>10. ChecksHold'
  BY <1>6, <1>9 DEF ConversionInv, ChecksHold, Cost, PartnerPoints
<1> QED BY <1>1, <1>4, <1>7, <1>8, <1>10, SessionMoveKeepsBooks DEF ConversionInv

LEMMA SessionStepKeepsInv ==
  ASSUME ConversionInv, NEW s \in Sessions,
         \/ Reserve(s) \/ Abort(s)
         \/ \E credits, answers \in BOOLEAN : CallPartner(s, credits, answers)
  PROVE  ConversionInv'
<1>1. credited \subseteq Keys /\ overlapped \subseteq Members \X Members
  BY DEF ConversionInv, TypeOK
<1>2. CASE Reserve(s)
  <2>1. /\ s \in Active /\ Locking = {}
        /\ row[session[s].key].status = "none"
        /\ HasAvailable(balance[session[s].member], session[s].points)
        /\ session' = [session EXCEPT ![s].pc = "held"]
        /\ UNCHANGED <<balance, allowance, funded, row, credited, overlapped, topups>>
    BY <1>2 DEF Reserve, AllowanceUnlocked, Active
  <2> QED BY <1>1, <2>1, GoingOnKeepsInv
<1>3. ASSUME NEW credits \in BOOLEAN, NEW answers \in BOOLEAN, CallPartner(s, credits, answers)
      PROVE  ConversionInv'
  <2>1. /\ s \in Active /\ s \in Locking /\ session[s].key \in Keys
    BY <1>3 DEF CallPartner, ConversionInv, SessionsKnow, Active, Locking
  <2>2. /\ Locking \subseteq {s} /\ row[session[s].key].status = "none"
        /\ HasAvailable(balance[session[s].member], session[s].points)
    BY <2>1 DEF ConversionInv, OneLocks, LocksHold
  <2>3. PICK pc \in {"credited", "refused"} :
          /\ session' = [session EXCEPT ![s].pc = pc]
          /\ pc = "credited" => session[s].key \in credited'
    BY <1>3 DEF CallPartner
  <2>4. /\ UNCHANGED <<balance, allowance, funded, row, overlapped, topups>>
        /\ credited \subseteq credited' /\ credited' \subseteq Keys
    BY <1>1, <1>3, <2>1 DEF CallPartner
  <2> QED BY <2>1, <2>2, <2>3, <2>4, GoingOnKeepsInv
<1>4. CASE Abort(s)
  <2>1. Idle \in SessionRow
    BY Constants DEF Idle, SessionRow
  <2>2. SessionGoesTo(s, Idle) /\ credited' = credited
    BY <1>1, <1>4, <2>1 DEF Abort, SessionGoesTo
  <2> QED BY <2>2, IdlingKeepsInv
<1> QED BY <1>2, <1>3, <1>4

(* The row is written and the session is over: what is left of the others.  *)
LEMMA EndKeepsSessions ==
  ASSUME ConversionInv, NEW s \in Locking, NEW status \in {"completed", "failed"},
         EndAs(s, status)
  PROVE  /\ SessionsKnow' /\ OneLocks' /\ LocksHold' /\ OverlapsAreNoted'
         /\ Locking' = {} /\ Active' = Active \ {s}
         /\ \A o \in Active \ {s} : session'[o] = session[o]
         /\ session' \in [Sessions -> SessionRow]
         /\ row' \in [Keys -> [status : {"none", "completed", "failed"},
                              member : Members \cup {None}, points : 0..MaxPoints]]
<1>1. /\ s \in Sessions /\ session \in [Sessions -> SessionRow]
      /\ session' = [session EXCEPT ![s] = Idle] /\ Idle \in SessionRow
      /\ row' = [row EXCEPT ![session[s].key] =
           [status |-> status, member |-> session[s].member, points |-> session[s].points]]
      /\ overlapped' = overlapped
  BY Constants DEF Locking, ConversionInv, TypeOK, SessionRow, Idle, EndAs
<1>2. /\ \A o \in Sessions \ {s} : session'[o] = session[o]
      /\ Active' = {o \in Sessions : IF o = s THEN Idle.pc # "idle" ELSE o \in Active}
      /\ Locking' = {o \in Sessions : IF o = s THEN Idle.pc \in {"held", "credited", "refused"}
                                                ELSE o \in Locking}
  BY <1>1, SessionsAfter DEF ConversionInv
<1>3. Locking' = {} /\ Active' = Active \ {s}
  BY <1>1, <1>2 DEF Idle, Active, ConversionInv, OneLocks
<1>4. SessionsKnow' /\ OneLocks' /\ LocksHold' /\ OverlapsAreNoted'
  BY <1>1, <1>2, <1>3 DEF ConversionInv, SessionsKnow, OneLocks, LocksHold, OverlapsAreNoted, Active
<1>5. session' \in [Sessions -> SessionRow]
  BY <1>1
<1>6. row' \in [Keys -> [status : {"none", "completed", "failed"},
                        member : Members \cup {None}, points : 0..MaxPoints]]
  <2>1. session[s].member \in Members \cup {None} /\ session[s].points \in 0..MaxPoints
    BY <1>1 DEF SessionRow
  <2> QED BY <1>1, <2>1 DEF ConversionInv, TypeOK
<1> QED BY <1>2, <1>3, <1>4, <1>5, <1>6 DEF Active

\* The books and the checks after the conversion of s ended.
LEMMA CompleteKeepsInv ==
  ASSUME ConversionInv, NEW s \in Sessions, Complete(s)
  PROVE  ConversionInv'
<1> DEFINE m == session[s].member
           n == session[s].points
           k == session[s].key
           b == Capture(Hold(balance[m], n), n)
<1>1. /\ session[s].pc = "credited" /\ EndAs(s, "completed")
      /\ balance' = [balance EXCEPT ![m] = b]
      /\ allowance' = allowance - Cost(n)
      /\ UNCHANGED <<funded, credited, overlapped, topups>>
  BY DEF Complete, EndAs
<1>2. s \in Locking /\ s \in Active
  BY <1>1 DEF Locking, Active
<1>3. /\ k \in Keys /\ m \in Members /\ n \in Nat /\ k \in credited
      /\ row[k].status = "none" /\ HasAvailable(balance[m], n)
      /\ balance \in [Members -> Balance] /\ balance[m] \in Balance
      /\ allowance \in Int /\ Cost(n) \in Nat
  BY <1>1, <1>2, CostType, Constants DEF ConversionInv, TypeOK, SessionsKnow, LocksHold
<1>4. /\ b \in Balance /\ b.posted_debits = balance[m].posted_debits + n
      /\ b.pending_debits = balance[m].pending_debits /\ RowChecks(b)
  BY <1>3, HoldAndEnd
<1>5. /\ \A q \in Members :
           /\ Completed(q)' = Completed(q) \cup (IF q = m THEN {k} ELSE {})
           /\ Converted(q)' = Converted(q) + (IF q = m THEN n ELSE 0)
      /\ SumOf(Costs)' = SumOf(Costs) + Cost(n)
  BY <1>1, <1>3, RowEnds DEF ConversionInv
<1>6. /\ SessionsKnow' /\ OneLocks' /\ LocksHold' /\ OverlapsAreNoted'
      /\ Active' = Active \ {s}
      /\ \A o \in Active \ {s} : session'[o] = session[o]
      /\ session' \in [Sessions -> SessionRow]
      /\ row' \in [Keys -> [status : {"none", "completed", "failed"},
                           member : Members \cup {None}, points : 0..MaxPoints]]
  BY <1>1, <1>2, EndKeepsSessions
<1>7. \A q \in Members : Converted(q) \in Nat
  BY SumsAreNatural DEF ConversionInv
<1>8. \A o \in Active \ {s} : session[o].member = m => <<m, m>> \in overlapped
  BY <1>2 DEF ConversionInv, OverlapsAreNoted
<1>9. overlapped = {} => Active = {s}
  BY <1>2 DEF ConversionInv, OverlapsAreNoted
<1>10. /\ DailyLimit > 0 /\ <<m, m>> \notin overlapped => Converted(m) + n <= DailyLimit
       /\ overlapped = {} => allowance >= Cost(n)
  BY <1>2, <1>3 DEF ConversionInv, ChecksHold
<1> HIDE DEF b, m, n, k
<1>11. TypeOK'
  BY <1>1, <1>3, <1>4, <1>6 DEF ConversionInv, TypeOK, SessionRow, topups
<1>12. BurnedPointsAreCredited'
  <2> SUFFICES ASSUME NEW q \in Members
               PROVE  /\ balance'[q].posted_debits = Converted(q)'
                      /\ Completed(q)' \subseteq credited'
                      /\ balance'[q].pending_debits = 0
                      /\ RowChecks(balance'[q])
    BY DEF BurnedPointsAreCredited, RowChecks, Available
  <2>1. /\ balance[q].posted_debits = Converted(q) /\ Completed(q) \subseteq credited
        /\ balance[q].pending_debits = 0 /\ RowChecks(balance[q])
    BY DEF ConversionInv, BurnedPointsAreCredited
  <2> QED BY <1>1, <1>3, <1>4, <1>5, <1>7, <2>1
<1>13. AllowanceIsExplained'
  <2> DEFINE credits == TopupAmount * SumOf(paidIn)
  <2>1. SumOf(paidIn) \in Nat /\ SumOf(Costs) \in Nat /\ funded \in Nat
    BY SumsAreNatural DEF ConversionInv, TypeOK
  <2>2. credits \in Nat
    BY <2>1, Constants, Products
  <2>3. allowance = (funded + credits) - SumOf(Costs) /\ credits' = credits
    BY <1>1 DEF ConversionInv, AllowanceIsExplained, topups
  <2>4. allowance' = (funded' + credits') - SumOf(Costs)'
    <3> HIDE DEF credits
    <3> QED BY <1>1, <1>3, <1>5, <2>1, <2>2, <2>3
  <2> QED BY <2>4 DEF AllowanceIsExplained
<1>14. LimitsHoldOneAtATime'
  <2>1. ASSUME NEW q \in Members, DailyLimit > 0, <<q, q>> \notin overlapped
        PROVE  Converted(q)' <= DailyLimit
    BY <1>3, <1>5, <1>7, <1>10, <2>1 DEF ConversionInv, LimitsHoldOneAtATime
  <2>2. overlapped = {} => allowance' >= 0
    BY <1>1, <1>3, <1>10
  <2> QED BY <1>1, <2>1, <2>2 DEF LimitsHoldOneAtATime
<1>15. ChecksHold'
  <2>1. ASSUME NEW q \in Members, NEW o \in Active \ {s}, DailyLimit > 0,
               <<q, q>> \notin overlapped, session[o].member = q
        PROVE  Converted(q)' + session[o].points <= DailyLimit
    <3>1. q # m
      BY <1>8, <2>1
    <3>2. Converted(q)' = Converted(q)
      BY <1>5, <1>7, <3>1
    <3> QED BY <2>1, <3>2 DEF ConversionInv, ChecksHold
  <2> QED BY <1>1, <1>6, <1>9, <2>1 DEF ChecksHold
<1> QED BY <1>6, <1>11, <1>12, <1>13, <1>14, <1>15 DEF ConversionInv

(* A refused conversion gives back the hold and the allowance it took.      *)
LEMMA ReverseKeepsInv ==
  ASSUME ConversionInv, NEW s \in Sessions, Reverse(s)
  PROVE  ConversionInv'
<1>1. s \in Locking /\ s \in Active
  BY DEF Reverse, Locking, Active
<1>2. /\ session[s].key \in Keys /\ session[s].member \in Members
      /\ session[s].points \in Nat /\ row[session[s].key].status = "none"
      /\ balance \in [Members -> Balance] /\ balance[session[s].member] \in Balance
      /\ allowance \in Int /\ Cost(session[s].points) \in Nat
  BY <1>1, CostType, Constants DEF ConversionInv, TypeOK, SessionsKnow, LocksHold, Active
<1>3. /\ EndAs(s, "failed") /\ UNCHANGED <<balance, allowance, funded, credited, overlapped, topups>>
  <2>1. allowance' = allowance
    BY <1>2 DEF Reverse
  <2>2. balance' = balance
    BY <1>2, HoldAndEnd DEF Reverse
  <2> QED BY <2>1, <2>2 DEF Reverse, EndAs
<1>4. /\ \A q \in Members : Completed(q)' = Completed(q) /\ Converted(q)' = Converted(q)
      /\ SumOf(Costs)' = SumOf(Costs)
  <2>1. /\ \A q \in Members : Completed(q)' = Completed(q) \cup {} /\ Converted(q)' = Converted(q) + 0
        /\ SumOf(Costs)' = SumOf(Costs) + 0
    BY <1>2, <1>3, RowEnds DEF ConversionInv
  <2> QED BY <2>1, SumsAreNatural DEF ConversionInv
<1>5. /\ SessionsKnow' /\ OneLocks' /\ LocksHold' /\ OverlapsAreNoted'
      /\ Active' = Active \ {s}
      /\ \A o \in Active \ {s} : session'[o] = session[o]
      /\ session' \in [Sessions -> SessionRow]
      /\ row' \in [Keys -> [status : {"none", "completed", "failed"},
                           member : Members \cup {None}, points : 0..MaxPoints]]
  BY <1>1, <1>3, EndKeepsSessions
<1>6. TypeOK'
  BY <1>3, <1>5 DEF ConversionInv, TypeOK, SessionRow, topups
<1>7. BurnedPointsAreCredited' /\ LimitsHoldOneAtATime'
  BY <1>3, <1>4 DEF ConversionInv, BurnedPointsAreCredited, LimitsHoldOneAtATime
<1>8. AllowanceIsExplained'
  BY <1>3, <1>4 DEF ConversionInv, AllowanceIsExplained, topups
<1>9. ChecksHold'
  BY <1>3, <1>4, <1>5 DEF ConversionInv, ChecksHold, Cost, PartnerPoints
<1> QED BY <1>5, <1>6, <1>7, <1>8, <1>9 DEF ConversionInv

\* The rows of the top-ups and the console calls on them.
TopupsOK ==
  /\ topup \in [Topups -> {"absent", "pending", "invoiced", "confirmed", "rejected"}]
  /\ paidIn \in [Topups -> Nat]
  /\ review \in [Reviews -> [pc : {"idle", "invoice", "confirm", "reject"},
                             topup : Topups \cup {None}]]
  /\ contested \subseteq Topups

LEMMA ReviewStepKeepsInv ==
  ASSUME ConversionInv, ReviewStep,
         ReviewsKnow
  PROVE  ConversionInv'
<1>1. UNCHANGED <<balance, funded, conversions>>
  BY DEF ReviewStep, RequestTopup, ReadTopup, MarkTopupInvoiced, RejectTopup, ConfirmTopup,
         WriteTopup, AbandonReview
<1>2. allowance \in Int /\ funded \in Nat /\ TopupsOK
  BY DEF ConversionInv, TypeOK, TopupsOK
<1>3. \/ allowance' = allowance /\ paidIn' = paidIn
      \/ \E q \in Topups : allowance' = allowance + TopupAmount /\ paidIn' = [paidIn EXCEPT ![q] = @ + 1]
  <2>1. ASSUME NEW c \in Reviews, ConfirmTopup(c)
        PROVE  \E q \in Topups : /\ allowance' = allowance + TopupAmount
                                /\ paidIn' = [paidIn EXCEPT ![q] = @ + 1]
    <3>1. review[c].topup \in Topups
      BY <2>1 DEF ConfirmTopup, WriteTopup, ReviewsKnow
    <3> QED BY <2>1, <3>1 DEF ConfirmTopup
  <2> QED BY <2>1 DEF ReviewStep, RequestTopup, ReadTopup, MarkTopupInvoiced, RejectTopup,
                      AbandonReview
<1>4. TopupsOK'
  <2>1. paidIn' \in [Topups -> Nat]
    BY <1>2, <1>3 DEF TopupsOK
  <2>2. topup' \in [Topups -> {"absent", "pending", "invoiced", "confirmed", "rejected"}]
    BY <1>2 DEF TopupsOK, ReviewStep, RequestTopup, ReadTopup, MarkTopupInvoiced, RejectTopup,
                ConfirmTopup, WriteTopup, AbandonReview
  <2>3. review' \in [Reviews -> [pc : {"idle", "invoice", "confirm", "reject"},
                                topup : Topups \cup {None}]]
    BY <1>2 DEF TopupsOK, ReviewStep, RequestTopup, ReadTopup, MarkTopupInvoiced, RejectTopup,
                ConfirmTopup, WriteTopup, AbandonReview, NoReview
  <2>4. contested' \subseteq Topups
    BY <1>2 DEF TopupsOK, ReviewStep, RequestTopup, ReadTopup, MarkTopupInvoiced, RejectTopup,
                ConfirmTopup, WriteTopup, AbandonReview
  <2> QED BY <2>1, <2>2, <2>3, <2>4 DEF TopupsOK
<1>5. allowance' \in Int /\ allowance' >= allowance
  BY <1>2, <1>3, Constants
<1>6. TypeOK'
  BY <1>1, <1>4, <1>5 DEF ConversionInv, TypeOK, TopupsOK, conversions
<1>7. /\ SessionsKnow' /\ OneLocks' /\ LocksHold' /\ OverlapsAreNoted'
      /\ ChecksHold' /\ LimitsHoldOneAtATime'
  BY <1>1, <1>5, MoneyInKeepsChecks
<1>8. /\ \A q : Completed(q)' = Completed(q) /\ Converted(q)' = Converted(q)
      /\ SumOf(Costs)' = SumOf(Costs)
  BY <1>1, RowsUntouched DEF conversions
<1>9. BurnedPointsAreCredited'
  BY <1>1, <1>8 DEF ConversionInv, BurnedPointsAreCredited, conversions
<1>10. AllowanceIsExplained'
  <2>1. SumOf(paidIn) \in Nat /\ SumOf(Costs) \in Nat
    BY SumsAreNatural DEF ConversionInv
  <2>2. ASSUME NEW q \in Topups, allowance' = allowance + TopupAmount,
               paidIn' = [paidIn EXCEPT ![q] = @ + 1]
        PROVE  allowance' = (funded' + TopupAmount * SumOf(paidIn')) - SumOf(Costs)'
    <3>1. /\ paidIn \in [Topups -> Nat] /\ paidIn' \in [Topups -> Nat]
          /\ paidIn'[q] = paidIn[q] + 1 /\ \A u \in Topups \ {q} : paidIn'[u] = paidIn[u]
      BY <1>2, <2>2 DEF TopupsOK
    <3>2. SumOf(paidIn') = SumOf(paidIn) - paidIn[q] + paidIn'[q]
      BY <3>1, SumChanges, Constants
    <3>3. SumOf(paidIn') = SumOf(paidIn) + 1
      BY <2>1, <3>1, <3>2
    <3> DEFINE credits == TopupAmount * SumOf(paidIn)
    <3>4. TopupAmount * SumOf(paidIn') = credits + TopupAmount /\ credits \in Nat
      BY <2>1, <3>3, Products, Constants
    <3>5. allowance = (funded + credits) - SumOf(Costs)
      BY DEF ConversionInv, AllowanceIsExplained
    <3> HIDE DEF credits
    <3> QED BY <1>1, <1>2, <1>8, <2>1, <2>2, <3>4, <3>5, Constants
  <2>3. ASSUME allowance' = allowance, paidIn' = paidIn
        PROVE  allowance' = (funded' + TopupAmount * SumOf(paidIn')) - SumOf(Costs)'
    BY <1>1, <1>8, <2>3 DEF ConversionInv, AllowanceIsExplained
  <2>4. allowance' = (funded' + TopupAmount * SumOf(paidIn')) - SumOf(Costs)'
    BY <1>3, <2>2, <2>3
  <2> QED BY <2>4 DEF AllowanceIsExplained
<1> QED BY <1>6, <1>7, <1>9, <1>10 DEF ConversionInv

LEMMA NextKeepsReviews == TypeOK /\ ReviewsKnow /\ [Next]_vars => ReviewsKnow'
<1> SUFFICES ASSUME TypeOK, ReviewsKnow, [Next]_vars PROVE ReviewsKnow'
  OBVIOUS
<1> USE DEF TypeOK, ReviewsKnow
<1>1. CASE ReviewStep
  <2>1. ASSUME NEW c \in Reviews, review' = [review EXCEPT ![c] = NoReview] PROVE ReviewsKnow'
    BY <2>1 DEF NoReview
  <2>2. ASSUME NEW c \in Reviews, NEW act, NEW q \in Topups, ReadTopup(c, act, q) PROVE ReviewsKnow'
    BY <2>2 DEF ReadTopup
  <2> QED BY <1>1, <2>1, <2>2 DEF ReviewStep, RequestTopup, MarkTopupInvoiced, RejectTopup,
                                  ConfirmTopup, WriteTopup, AbandonReview
<1>2. CASE ~ ReviewStep
  <2>1. review' = review
    BY <1>2 DEF Next, vars, topups, Earn, FundAllowance, ConversionStep, Check, Reserve, CallPartner,
                Complete, Reverse, EndAs, Abort
  <2> QED BY <2>1
<1> QED BY <1>1, <1>2

LEMMA NextConverts ==
  ConversionInv /\ ReviewsKnow /\ [Next]_vars => ConversionInv' /\ ReviewsKnow'
<1> SUFFICES ASSUME ConversionInv, ReviewsKnow, [Next]_vars PROVE ConversionInv'
  BY NextKeepsReviews DEF ConversionInv
<1>1. CASE UNCHANGED vars
  <2>1. UNCHANGED conversions /\ UNCHANGED <<balance, allowance, funded, topups>>
    BY <1>1 DEF vars
  <2>2. allowance \in Int
    BY DEF ConversionInv, TypeOK
  <2>3. /\ SessionsKnow' /\ OneLocks' /\ LocksHold' /\ OverlapsAreNoted'
        /\ ChecksHold' /\ LimitsHoldOneAtATime'
    BY <2>1, <2>2, MoneyInKeepsChecks
  <2>4. TypeOK'
    BY <2>1 DEF ConversionInv, TypeOK, conversions, topups
  <2>5. /\ \A q : Completed(q)' = Completed(q) /\ Converted(q)' = Converted(q)
        /\ SumOf(Costs)' = SumOf(Costs)
    BY <2>1, RowsUntouched DEF conversions
  <2>6. BurnedPointsAreCredited' /\ AllowanceIsExplained'
    BY <2>1, <2>5 DEF ConversionInv, BurnedPointsAreCredited, AllowanceIsExplained, conversions, topups
  <2> QED BY <2>3, <2>4, <2>6 DEF ConversionInv
<1>2. CASE ConversionStep
  BY <1>2, CheckKeepsInv, SessionStepKeepsInv, CompleteKeepsInv, ReverseKeepsInv DEF ConversionStep
<1> QED BY <1>1, <1>2, EarnKeepsInv, FundKeepsInv, ReviewStepKeepsInv DEF Next

(* The inductive invariant of conversions and the allowance, whatever the   *)
(* partner answers and whatever overlaps.                                   *)
THEOREM ConversionIsSafe == Spec => []ConversionInv
<1>1. Init => ReviewsKnow
  BY DEF Init, ReviewsKnow, NoReview
<1> QED BY <1>1, InitConverts, NextConverts, PTL DEF Spec

(* No point is burned that the partner did not credit, and no member is     *)
(* overdrawn or left with a hold.                                           *)
THEOREM BurnedPointsAreAlwaysCredited == Spec => []BurnedPointsAreCredited
BY ConversionIsSafe, PTL DEF ConversionInv

(* The allowance is what came in less what the completed conversions cost.  *)
THEOREM AllowanceIsAlwaysExplained == Spec => []AllowanceIsExplained
BY ConversionIsSafe, PTL DEF ConversionInv

(* The daily limit holds for a member whose conversions never overlapped,   *)
(* and the allowance stays paid for while no two conversions overlap.       *)
THEOREM LimitsAlwaysHoldOneAtATime == Spec => []LimitsHoldOneAtATime
BY ConversionIsSafe, PTL DEF ConversionInv
-----------------------------------------------------------------------------
\* Two console calls in progress have read the same request.
SameRequest(c, d) == review[d].pc # "idle" /\ review[d].topup = review[c].topup

(* A console call on an uncontested request cannot be late: the request it  *)
(* read has not been confirmed since, and a confirmation is the only call   *)
(* on it.                                                                   *)
CallsAreTimely ==
  \A c \in Reviews :
    review[c].pc # "idle" /\ review[c].topup \notin contested =>
      /\ topup[review[c].topup] \notin {"absent", "confirmed"}
      /\ review[c].pc = "confirm" => \A d \in Reviews \ {c} : ~ SameRequest(c, d)

TopupsInv == ReviewsKnow /\ CallsAreTimely /\ UncontestedTopupCreditedOnce

LEMMA NextCredits == TopupsInv /\ TypeOK /\ TypeOK' /\ [Next]_vars => TopupsInv'
<1> SUFFICES ASSUME TopupsInv, TypeOK, TypeOK', [Next]_vars PROVE TopupsInv'
  OBVIOUS
<1> SUFFICES CallsAreTimely' /\ UncontestedTopupCreditedOnce'
  BY NextKeepsReviews DEF TopupsInv
<1> USE DEF TopupsInv
<1>1. CASE UNCHANGED topups
  BY <1>1 DEF topups, CallsAreTimely, UncontestedTopupCreditedOnce, SameRequest
<1>2. ASSUME NEW q \in Topups, RequestTopup(q)
      PROVE  CallsAreTimely' /\ UncontestedTopupCreditedOnce'
  <2>1. /\ topup \in [Topups -> {"absent", "pending", "invoiced", "confirmed", "rejected"}]
        /\ topup' = [topup EXCEPT ![q] = "pending"] /\ topup[q] = "absent"
        /\ UNCHANGED <<paidIn, review, contested>>
    BY <1>2 DEF RequestTopup, TypeOK
  <2>2. CallsAreTimely'
    BY <2>1 DEF CallsAreTimely, ReviewsKnow, SameRequest
  <2> QED BY <2>1, <2>2 DEF UncontestedTopupCreditedOnce
<1>3. ASSUME NEW c \in Reviews, NEW act \in {"invoice", "confirm", "reject"}, NEW q \in Topups,
             ReadTopup(c, act, q)
      PROVE  CallsAreTimely' /\ UncontestedTopupCreditedOnce'
  <2>1. /\ review'[c] = [pc |-> act, topup |-> q] /\ review[c].pc = "idle"
        /\ \A d \in Reviews \ {c} : review'[d] = review[d]
        /\ topup[q] \notin {"absent", "confirmed"}
        /\ contested \subseteq contested' /\ UNCHANGED <<topup, paidIn>>
    BY <1>3 DEF ReadTopup, TypeOK, Reviewable
  <2>2. UncontestedTopupCreditedOnce'
    BY <2>1 DEF UncontestedTopupCreditedOnce
  <2>3. ASSUME NEW d \in Reviews, review'[d].pc # "idle", review'[d].topup \notin contested'
        PROVE  /\ topup'[review'[d].topup] \notin {"absent", "confirmed"}
               /\ review'[d].pc = "confirm" => \A o \in Reviews \ {d} : ~ SameRequest(d, o)'
    <3>1. CASE d = c
      <4>1. ASSUME NEW o \in Reviews \ {c}, act = "confirm", SameRequest(c, o)' PROVE FALSE
        <5>1. o \in Reading(c, q)
          BY <2>1, <4>1 DEF Reading, SameRequest
        <5> QED BY <1>3, <2>1, <2>3, <3>1, <4>1, <5>1 DEF ReadTopup
      <4> QED BY <2>1, <3>1, <4>1
    <3>2. CASE d # c
      <4>1. ASSUME review[d].topup = q, review[d].pc = "confirm" PROVE FALSE
        <5>1. d \in Reading(c, q)
          BY <3>2, <4>1 DEF Reading
        <5> QED BY <1>3, <2>1, <2>3, <3>2, <4>1, <5>1 DEF ReadTopup
      <4>2. /\ topup[review[d].topup] \notin {"absent", "confirmed"}
            /\ review[d].pc = "confirm" => \A o \in Reviews \ {d} : ~ SameRequest(d, o)
        BY <2>1, <2>3, <3>2 DEF CallsAreTimely
      <4>3. ASSUME review[d].pc = "confirm", NEW o \in Reviews \ {d}, SameRequest(d, o)' PROVE FALSE
        <5>1. o # c
          BY <2>1, <3>2, <4>1, <4>3 DEF SameRequest
        <5> QED BY <2>1, <3>2, <4>2, <4>3, <5>1 DEF SameRequest
      <4> QED BY <2>1, <3>2, <4>2, <4>3
    <3> QED BY <3>1, <3>2
  <2> QED BY <2>2, <2>3 DEF CallsAreTimely
<1>4. ASSUME NEW c \in Reviews, MarkTopupInvoiced(c) \/ RejectTopup(c) \/ ConfirmTopup(c)
      PROVE  CallsAreTimely' /\ UncontestedTopupCreditedOnce'
  <2> DEFINE q == review[c].topup
  <2>1. /\ q \in Topups /\ review[c].pc # "idle" /\ review'[c].pc = "idle"
        /\ \A d \in Reviews \ {c} : review'[d] = review[d]
        /\ contested' = contested
    BY <1>4 DEF MarkTopupInvoiced, RejectTopup, ConfirmTopup, WriteTopup, NoReview, ReviewsKnow,
                TypeOK
  <2>2. PICK status \in {"invoiced", "rejected", "confirmed"} :
          /\ topup' = [topup EXCEPT ![q] = status]
          /\ status = "confirmed" => /\ review[c].pc = "confirm"
                                     /\ paidIn' = [paidIn EXCEPT ![q] = @ + 1]
          /\ status # "confirmed" => paidIn' = paidIn
    BY <1>4 DEF MarkTopupInvoiced, RejectTopup, ConfirmTopup, WriteTopup
  <2>3. /\ topup'[q] = status /\ \A u \in Topups \ {q} : topup'[u] = topup[u]
        /\ \A u \in Topups \ {q} : paidIn'[u] = paidIn[u]
        /\ paidIn'[q] = (IF status = "confirmed" THEN paidIn[q] + 1 ELSE paidIn[q])
        /\ paidIn[q] \in Nat
    BY <2>1, <2>2 DEF TypeOK
  <2>4. q \notin contested => paidIn[q] = 0
    <3>1. q \notin contested => topup[q] # "confirmed"
      BY <2>1 DEF CallsAreTimely
    <3>2. \A n \in Nat : n <= 1 /\ n # 1 => n = 0
      OBVIOUS
    <3> QED BY <2>1, <2>3, <3>1, <3>2 DEF UncontestedTopupCreditedOnce
  <2>5. UncontestedTopupCreditedOnce'
    <3> HIDE DEF q
    <3> SUFFICES ASSUME NEW u \in Topups, u \notin contested
                 PROVE  paidIn'[u] <= 1 /\ (paidIn'[u] = 1 <=> topup'[u] = "confirmed")
      BY <2>1 DEF UncontestedTopupCreditedOnce
    <3>1. CASE u = q
      BY <2>3, <2>4, <3>1
    <3>2. CASE u # q
      BY <2>3, <3>2 DEF UncontestedTopupCreditedOnce
    <3> QED BY <3>1, <3>2
  <2>6. ASSUME NEW d \in Reviews, review'[d].pc # "idle", review'[d].topup \notin contested'
        PROVE  /\ topup'[review'[d].topup] \notin {"absent", "confirmed"}
               /\ review'[d].pc = "confirm" => \A o \in Reviews \ {d} : ~ SameRequest(d, o)'
    <3>1. d # c /\ review'[d] = review[d] /\ review[d].topup \in Topups
      BY <2>1, <2>6 DEF ReviewsKnow
    <3>2. /\ topup[review[d].topup] \notin {"absent", "confirmed"}
          /\ review[d].pc = "confirm" => \A o \in Reviews \ {d} : ~ SameRequest(d, o)
      BY <2>1, <2>6, <3>1 DEF CallsAreTimely
    <3>3. review[d].topup = q => review[c].pc # "confirm"
      BY <2>1, <2>6, <3>1 DEF CallsAreTimely, SameRequest
    <3>4. topup'[review[d].topup] \notin {"absent", "confirmed"}
      BY <2>2, <2>3, <3>1, <3>2, <3>3
    <3>5. ASSUME NEW o \in Reviews \ {d}, SameRequest(d, o)' PROVE SameRequest(d, o)
      BY <2>1, <3>1, <3>5 DEF SameRequest
    <3> QED BY <3>1, <3>2, <3>4, <3>5
  <2> QED BY <2>5, <2>6 DEF CallsAreTimely
<1>5. ASSUME NEW c \in Reviews, AbandonReview(c)
      PROVE  CallsAreTimely' /\ UncontestedTopupCreditedOnce'
  <2>1. /\ review'[c].pc = "idle" /\ \A d \in Reviews \ {c} : review'[d] = review[d]
        /\ UNCHANGED <<topup, paidIn, contested>>
    BY <1>5 DEF AbandonReview, NoReview, TypeOK
  <2>2. CallsAreTimely'
    BY <2>1 DEF CallsAreTimely, SameRequest
  <2> QED BY <2>1, <2>2 DEF UncontestedTopupCreditedOnce
<1>6. CASE ~ ReviewStep
  <2>1. UNCHANGED topups
    BY <1>6 DEF Next, vars, Earn, FundAllowance, ConversionStep, Check, Reserve, CallPartner,
                Complete, Reverse, EndAs, Abort
  <2> QED BY <1>1, <2>1
<1> QED BY <1>2, <1>3, <1>4, <1>5, <1>6 DEF ReviewStep

(* Whatever the number of console calls and however they interleave, a      *)
(* top-up whose confirmation overlapped no other call on it is credited to  *)
(* the allowance when it is confirmed, and once.                            *)
THEOREM TopupsAreCreditedOnce == Spec => []UncontestedTopupCreditedOnce
<1>1. Init => TopupsInv
  BY DEF Init, TopupsInv, ReviewsKnow, CallsAreTimely, UncontestedTopupCreditedOnce, NoReview
<1>2. TopupsInv /\ TypeOK /\ TypeOK' /\ [Next]_vars => TopupsInv'
  BY NextCredits
<1>3. ConversionInv => TypeOK
  BY DEF ConversionInv
<1>4. TopupsInv => UncontestedTopupCreditedOnce
  BY DEF TopupsInv
<1> QED BY <1>1, <1>2, <1>3, <1>4, ConversionIsSafe, PTL DEF Spec
=============================================================================
