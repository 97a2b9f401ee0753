------------------------- MODULE StampCards_proofs -------------------------
(***************************************************************************)
(* No stamp is lost, no card pays twice and the bonuses add up, for every  *)
(* number of challenges, sales, points and open transactions, on the cards *)
(* that no sale of no points raced for.  StampInv says that on those cards *)
(* open sales keep out of each other's way and the rows are exact; PaidInv, *)
(* on top of it, which bonus keys are spent.                               *)
(***************************************************************************)
EXTENDS StampCards, Accounting_proofs

LEMMA Division ==
  ASSUME NEW n \in Nat, NEW d \in Nat \ {0}
  PROVE  n \div d \in Nat /\ (n \div d) * d <= n /\ n < (n \div d) * d + d
OBVIOUS

(* Filling cards moves stamps into completions and loses none.              *)
LEMMA FillArithmetic ==
  ASSUME NEW p \in Nat, NEW i \in Nat, NEW k \in Nat, NEW d \in Nat \ {0}, NEW f \in Nat,
         f * d <= p + i, p + i < f * d + d
  PROVE  /\ p + i - f * d \in Nat /\ p + i - f * d < d
         /\ (p + i - f * d) + (k + f) * d = (p + k * d) + i
<1>1. f * d \in Nat /\ k * d \in Nat
  OBVIOUS
<1>2. (k + f) * d = k * d + f * d
  OBVIOUS
<1> QED BY <1>1, <1>2

(* What the stamps of a challenge have come to: on a repeatable one, less   *)
(* than a card besides the completed ones; a one-off one is completed, once *)
(* and for all, when they reach the target.                                 *)
Exact(c, row, stamps) ==
  /\ row \in Row
  /\ IF Repeatable[c]
     THEN row.progress < Target[c] /\ row.progress + row.completions * Target[c] = stamps
     ELSE /\ row.progress = stamps
          /\ row.completed <=> stamps >= Target[c]
          /\ row.completions = IF row.completed THEN 1 ELSE 0

Shape ==
  /\ DOMAIN call = Calls /\ DOMAIN seen = Calls
  /\ \A t \in Calls : DOMAIN seen[t] = Challenges
  /\ txn \in [Visits -> Nat \cup {NotYet}]

\* An open sale that earns points holds the balance row.
OpenSales ==
  \A t \in Calls :
    /\ Open(t) => /\ call[t].visit \in Visits /\ call[t].points \in Nat
                  /\ call[t].points > 0 => lock = t
    /\ \A c \in Challenges : seen[t][c] # Unread => Open(t)

(* Two sales open at once do not both move an uncontested card.             *)
SalesApart ==
  \A c \in Challenges \ contested, t, u \in Calls :
    t # u /\ Open(t) /\ Open(u) =>
      /\ card[c].exists /\ Kind[c] # "lifetime_points"
      /\ Increment(c, call[t].visit) = 0 \/ Increment(c, call[u].visit) = 0

\* Whatever the sale has read of the card, it will neither write nor fill it.
Harmless(t, c) == ~ Writes(t, c) /\ Fills(t, c) = 0

(* What an open sale has read of an uncontested card is what it will        *)
(* overwrite, or it will not touch the card.                                *)
ReadsAreFresh ==
  \A c \in Challenges \ contested, t \in Calls :
    seen[t][c] # Unread => seen[t][c] = card[c] \/ Harmless(t, c)

CardsAreExact == \A c \in Counted \ contested : Exact(c, card[c], Stamps(c))

VouchersAreCompletions == \A c \in Challenges \ contested : vouchers[c] = card[c].completions

StampInv ==
  /\ Shape /\ OpenSales
  /\ SalesApart /\ ReadsAreFresh
  /\ CardsAreExact /\ VouchersAreCompletions

LEMMA WorthType ==
  ASSUME Shape, NEW c
  PROVE  /\ Worth(c) \in [Visits -> 0..MaxAmount]
         /\ Stamps(c) \in Nat
<1>1. \A v \in Visits : Increment(c, v) \in 0..MaxAmount
  BY StampCardsAssumption DEF Increment
<1>2. Worth(c) \in [Visits -> 0..MaxAmount]
  BY <1>1, StampCardsAssumption DEF Worth
<1> QED BY <1>2, SumType, StampCardsAssumption DEF Stamps

(* A finished sale adds what it is worth to every challenge.                *)
LEMMA SaleAddsItsWorth ==
  ASSUME Shape, NEW v \in Visits, NEW n \in Nat, txn[v] = NotYet,
         txn' = [txn EXCEPT ![v] = n], NEW c
  PROVE  Stamps(c)' = Stamps(c) + Increment(c, v)
<1> DEFINE f == Worth(c)
           g == Worth(c)'
<1>1. Increment(c, v) \in 0..MaxAmount /\ \A u \in Visits : Increment(c, u) \in 0..MaxAmount
  BY StampCardsAssumption DEF Increment
<1>2. f \in [Visits -> 0..MaxAmount] /\ f[v] = 0
  BY <1>1, StampCardsAssumption DEF Worth
<1>3. g \in [Visits -> 0..MaxAmount] /\ g[v] = Increment(c, v)
  BY <1>1, StampCardsAssumption DEF Worth, Shape, NotYet
<1>4. \A u \in Visits \ {v} : g[u] = f[u]
  BY DEF Worth, Shape
<1>5. IsFiniteSet(Visits) /\ MaxAmount \in Nat
  BY StampCardsAssumption
<1>6. Stamps(c) = SumOf(f) /\ Stamps(c)' = SumOf(g)
  BY DEF Stamps
<1>7. SumOf(f) \in Nat
  BY <1>2, <1>5, SumType
<1> HIDE DEF f, g
<1>8. SumOf(g) = SumOf(f) - f[v] + g[v]
  BY <1>2, <1>3, <1>4, <1>5, SumChanges
<1> QED BY <1>1, <1>2, <1>3, <1>6, <1>7, <1>8

LEMMA IncrementType == ASSUME NEW c, NEW v \in Visits PROVE Increment(c, v) \in Nat
BY StampCardsAssumption DEF Increment

LEMMA InitStamps == Init => StampInv
<1> SUFFICES ASSUME Init PROVE StampInv
  OBVIOUS
<1>1. Shape
  BY DEF Init, Shape, NothingRead, NotYet
<1>2. OpenSales /\ SalesApart /\ ReadsAreFresh
  BY DEF Init, OpenSales, SalesApart, ReadsAreFresh, Open, Closed, NothingRead
<1>3. ASSUME NEW c \in Counted PROVE Exact(c, card[c], Stamps(c))
  <2>1. Worth(c) \in [Visits -> {0}]
    BY DEF Init, Worth
  <2>2. Stamps(c) = 0
    BY <2>1, SumOfZeros, StampCardsAssumption DEF Stamps
  <2>3. c \in Challenges /\ Target[c] \in Nat \ {0} /\ card[c] = NoRow
    BY StampCardsAssumption DEF Counted, Init
  <2> QED BY <2>2, <2>3 DEF Exact, NoRow, Row
<1>4. VouchersAreCompletions
  BY DEF Init, VouchersAreCompletions, NoRow
<1> QED BY <1>1, <1>2, <1>3, <1>4 DEF StampInv, CardsAreExact

\* A sale that rests with what it has read stays as harmless as it was.
LEMMA RestingSale ==
  ASSUME NEW t \in Calls, NEW c \in Challenges,
         call'[t] = call[t], seen'[t][c] = seen[t][c]
  PROVE  Harmless(t, c)' <=> Harmless(t, c)
BY DEF Harmless, Writes, Fills, Reached, Increment

(* A sale that begins beside others contests the cards that it and one of   *)
(* them both move: one of the two has no balance row, or it would wait.     *)
LEMMA BeginKeepsStamps ==
  ASSUME StampInv, NEW t \in Calls, NEW v \in Visits, NEW n \in MinPoints..MaxPoints, Begin(t, v, n)
  PROVE  StampInv'
<1>1. /\ n \in Nat /\ ~ Open(t) /\ UNCHANGED <<tables, seen>>
      /\ n > 0 => lock = Nobody /\ lock' = t
      /\ n = 0 => lock' = lock
      /\ contested' = contested \cup Races(t, v, n)
  BY StampCardsAssumption DEF Begin, TakesBalance
<1>2. /\ call'[t].visit = v /\ call'[t].points = n
      /\ \A u \in Calls \ {t} : call'[u] = call[u] /\ (Open(u)' <=> Open(u))
  BY DEF Begin, StampInv, Shape, Open
<1>3. \A c \in Challenges : seen[t][c] = Unread
  BY <1>1 DEF StampInv, OpenSales
<1>4. Shape'
  BY <1>1 DEF Begin, tables, StampInv, Shape
<1>5. OpenSales'
  <2>1. ASSUME NEW u \in Calls, Open(u)'
        PROVE  /\ call'[u].visit \in Visits /\ call'[u].points \in Nat
               /\ call'[u].points > 0 => lock' = u
    <3>1. CASE u = t
      BY <1>1, <1>2, <3>1
    <3>2. CASE u # t
      <4>1. /\ call[u].visit \in Visits /\ call[u].points \in Nat
            /\ call[u].points > 0 => lock = u
        BY <1>2, <2>1, <3>2 DEF StampInv, OpenSales
      <4>2. call[u].points > 0 => n = 0
        BY <1>1, <4>1, StampCardsAssumption
      <4> QED BY <1>1, <1>2, <3>2, <4>1, <4>2
    <3> QED BY <3>1, <3>2
  <2>2. ASSUME NEW u \in Calls, NEW c \in Challenges, seen'[u][c] # Unread PROVE Open(u)'
    BY <1>1, <1>2, <1>3, <2>2 DEF StampInv, OpenSales
  <2> QED BY <2>1, <2>2 DEF OpenSales
<1>6. SalesApart'
  <2>1. ASSUME NEW c \in Challenges \ contested', NEW u \in Calls \ {t}, Open(u)
        PROVE  /\ card[c].exists /\ Kind[c] # "lifetime_points"
               /\ Increment(c, v) = 0 \/ Increment(c, call[u].visit) = 0
    <3>1. /\ call[u].visit \in Visits /\ call[u].points \in Nat
          /\ call[u].points > 0 => lock = u
      BY <2>1 DEF StampInv, OpenSales
    <3>2. 0 \in {n, call[u].points}
      BY <1>1, <3>1, StampCardsAssumption
    <3>3. ~ (Moves(c, v) /\ Moves(c, call[u].visit))
      BY <1>1, <2>1, <3>2 DEF Races
    <3>4. Increment(c, v) \in Nat /\ Increment(c, call[u].visit) \in Nat
      BY <3>1, IncrementType
    <3> QED BY <3>3, <3>4 DEF Moves
  <2>2. ASSUME NEW c \in Challenges \ contested', NEW u \in Calls, NEW w \in Calls,
               u # w, Open(u)', Open(w)'
        PROVE  /\ card[c].exists /\ Kind[c] # "lifetime_points"
               /\ Increment(c, call'[u].visit) = 0 \/ Increment(c, call'[w].visit) = 0
    <3>1. CASE u = t
      BY <1>2, <2>1, <2>2, <3>1
    <3>2. CASE w = t
      BY <1>2, <2>1, <2>2, <3>2
    <3>3. CASE u # t /\ w # t
      BY <1>1, <1>2, <2>2, <3>3 DEF StampInv, SalesApart
    <3> QED BY <3>1, <3>2, <3>3
  <2> QED BY <1>1, <2>2 DEF SalesApart, tables, Increment
<1>7. ReadsAreFresh'
  <2> SUFFICES ASSUME NEW c \in Challenges \ contested', NEW u \in Calls, seen'[u][c] # Unread
               PROVE  seen'[u][c] = card'[c] \/ Harmless(u, c)'
    BY DEF ReadsAreFresh
  <2>1. u # t /\ seen' = seen /\ card' = card /\ c \notin contested
    BY <1>1, <1>3 DEF tables
  <2>2. seen[u][c] = card[c] \/ Harmless(u, c)
    BY <2>1 DEF StampInv, ReadsAreFresh
  <2> QED BY <1>2, <2>1, <2>2, RestingSale
<1>8. CardsAreExact' /\ VouchersAreCompletions'
  BY <1>1 DEF tables, StampInv, CardsAreExact, VouchersAreCompletions, Counted, Stamps, Worth
<1> QED BY <1>4, <1>5, <1>6, <1>7, <1>8 DEF StampInv

LEMMA ReadKeepsStamps ==
  ASSUME StampInv, NEW t \in Calls, NEW c \in Challenges, ReadCard(t, c)
  PROVE  StampInv'
<1>1. /\ seen'[t][c] = card[c] /\ Open(t)
      /\ \A d \in Challenges \ {c} : seen'[t][d] = seen[t][d]
      /\ \A u \in Calls \ {t} : seen'[u] = seen[u]
      /\ UNCHANGED <<tables, lock, call, contested>>
  BY DEF ReadCard, StampInv, Shape
<1>2. Shape'
  BY DEF ReadCard, tables, StampInv, Shape
<1>3. OpenSales' /\ SalesApart'
  BY <1>1 DEF tables, StampInv, OpenSales, SalesApart, Open, Increment
<1>4. ReadsAreFresh'
  <2> SUFFICES ASSUME NEW d \in Challenges \ contested, NEW u \in Calls, seen'[u][d] # Unread,
                      seen'[u][d] = seen[u][d]
               PROVE  seen'[u][d] = card[d] \/ Harmless(u, d)'
    BY <1>1 DEF ReadsAreFresh, tables
  <2> QED BY <1>1, RestingSale DEF StampInv, ReadsAreFresh
<1>5. CardsAreExact' /\ VouchersAreCompletions'
  BY <1>1 DEF tables, StampInv, CardsAreExact, VouchersAreCompletions, Counted, Stamps, Worth
<1> QED BY <1>2, <1>3, <1>4, <1>5 DEF StampInv

(* The end of a transaction frees the balance row if it was its own.        *)
LEMMA EndOfSale ==
  ASSUME Shape, OpenSales, NEW t \in Calls, Ends(t)
  PROVE  /\ OpenSales'
         /\ DOMAIN call' = Calls /\ DOMAIN seen' = Calls
         /\ \A u \in Calls : DOMAIN seen'[u] = Challenges
         /\ ~ Open(t)' /\ \A c \in Challenges : seen'[t][c] = Unread
         /\ \A u \in Calls \ {t} :
              call'[u] = call[u] /\ seen'[u] = seen[u] /\ (Open(u)' <=> Open(u))
<1>1. call'[t] = Closed /\ \A u \in Calls \ {t} : call'[u] = call[u]
  BY DEF Ends, Shape
<1>2. seen'[t] = NothingRead /\ \A u \in Calls \ {t} : seen'[u] = seen[u]
  BY DEF Ends, Shape
<1>3. ~ Open(t)' /\ \A u \in Calls \ {t} : Open(u)' <=> Open(u)
  BY <1>1 DEF Open, Closed
<1>4. \A u \in Calls \ {t} : lock = u => lock' = u
  BY DEF Ends
<1>5. \A c \in Challenges : seen'[t][c] = Unread
  BY <1>2 DEF NothingRead
<1>6. OpenSales'
  BY <1>1, <1>2, <1>3, <1>4, <1>5 DEF OpenSales
<1>7. DOMAIN call' = Calls /\ DOMAIN seen' = Calls
  BY DEF Ends, Shape
<1>8. \A u \in Calls : DOMAIN seen'[u] = Challenges
  BY <1>2 DEF NothingRead, Shape
<1> QED BY <1>1, <1>2, <1>3, <1>5, <1>6, <1>7, <1>8

(* What a sale writes on a card is exact again.                             *)
LEMMA AdvancedIsExact ==
  ASSUME NEW t \in Calls, NEW c \in Counted, NEW v \in Visits, call[t].visit = v,
         NEW s \in Nat, Exact(c, seen[t][c], s)
  PROVE  /\ Fills(t, c) \in Nat
         /\ Writes(t, c) => Exact(c, Advanced(t, c), s + Increment(c, v))
         /\ ~ Writes(t, c) => Increment(c, v) = 0 /\ Fills(t, c) = 0
<1> DEFINE row == seen[t][c]
           i == Increment(c, v)
           d == Target[c]
           f == Fills(t, c)
<1>1. c \in Challenges /\ Kind[c] # "lifetime_points" /\ d \in Nat \ {0} /\ Repeatable[c] \in BOOLEAN
  BY StampCardsAssumption DEF Counted
<1>2. i \in Nat
  BY StampCardsAssumption DEF Increment
<1>3. row \in Row /\ row.progress \in Nat /\ row.completions \in Nat /\ row.completed \in BOOLEAN
  BY DEF Exact, Row
<1>4. Reached(t, c) = row.progress + i /\ Reached(t, c) \in Nat
  BY <1>1, <1>2, <1>3 DEF Reached
<1>5. CASE Repeatable[c]
  <2>1. row.progress < d /\ row.progress + row.completions * d = s
    BY <1>5 DEF Exact
  <2>2. f \in Nat /\ f * d <= row.progress + i /\ row.progress + i < f * d + d
    <3>1. CASE Reached(t, c) < d
      <4>1. f = 0
        BY <1>5, <3>1 DEF Fills
      <4> QED BY <4>1, <3>1, <1>1, <1>2, <1>3, <1>4
    <3>2. CASE ~ (Reached(t, c) < d)
      <4>1. f = Reached(t, c) \div d
        BY <1>5, <3>2 DEF Fills
      <4> QED BY <4>1, <1>1, <1>4, Division
    <3> QED BY <3>1, <3>2
  <2>3. /\ row.progress + i - f * d \in Nat /\ row.progress + i - f * d < d
        /\ (row.progress + i - f * d) + (row.completions + f) * d
             = (row.progress + row.completions * d) + i
    BY <2>2, <1>1, <1>2, <1>3, FillArithmetic
  <2>4. Advanced(t, c) = [exists |-> TRUE, progress |-> row.progress + i - f * d,
                          completions |-> row.completions + f, completed |-> FALSE]
    <3>1. (~ Repeatable[c] /\ (seen[t][c].completed \/ Fills(t, c) > 0)) = FALSE
      BY <1>5
    <3>2. (IF Repeatable[c] THEN Reached(t, c) - Fills(t, c) * Target[c] ELSE Reached(t, c))
            = row.progress + i - f * d
      BY <1>1, <1>2, <1>3, <1>4, <1>5, <2>2
    <3> QED BY <3>1, <3>2, Zenon DEF Advanced
  <2>5. Exact(c, Advanced(t, c), s + i)
    <3>1. row.completions + f \in Nat
      BY <2>2, <1>3
    <3> HIDE DEF f
    <3> QED BY <2>1, <2>3, <2>4, <3>1, <1>5 DEF Exact, Row
  <2>6. ~ Writes(t, c) => i = 0 /\ f = 0
    <3> SUFFICES ASSUME ~ Writes(t, c) PROVE i = 0 /\ f = 0
      OBVIOUS
    <3>1. i = 0
      BY <1>2 DEF Writes
    <3>2. Reached(t, c) < d
      BY <3>1, <2>1, <1>3, <1>4
    <3> QED BY <3>1, <3>2 DEF Fills
  <2> QED BY <2>2, <2>5, <2>6
<1>6. CASE ~ Repeatable[c]
  <2>1. /\ row.progress = s /\ (row.completed <=> s >= d)
        /\ row.completions = IF row.completed THEN 1 ELSE 0
    BY <1>6 DEF Exact
  <2>2. f = IF row.completed \/ s + i < d THEN 0 ELSE 1
    BY <1>4, <1>6, <2>1 DEF Fills
  <2>3. Advanced(t, c) = [exists |-> TRUE, progress |-> s + i,
                          completions |-> row.completions + f,
                          completed |-> row.completed \/ f > 0]
    BY <1>4, <1>6, <2>1 DEF Advanced
  <2>4. (row.completed \/ f > 0) <=> s + i >= d
    BY <1>1, <1>2, <2>1, <2>2
  <2>5. row.completions + f = IF row.completed \/ f > 0 THEN 1 ELSE 0
    BY <2>1, <2>2
  <2>6. Exact(c, Advanced(t, c), s + i)
    <3> DEFINE done == row.completed \/ f > 0
    <3>1. s + i \in Nat /\ row.completions + f \in Nat /\ done \in BOOLEAN
      BY <1>2, <2>5
    <3>2. Advanced(t, c) = [exists |-> TRUE, progress |-> s + i,
                            completions |-> row.completions + f, completed |-> done]
      BY <2>3
    <3>3. (done <=> s + i >= d) /\ row.completions + f = IF done THEN 1 ELSE 0
      BY <2>4, <2>5
    <3> HIDE DEF f, done, row, i
    <3> QED BY <1>6, <3>1, <3>2, <3>3 DEF Exact, Row
  <2>7. ~ Writes(t, c) => i = 0 /\ f = 0
    <3> SUFFICES ASSUME ~ Writes(t, c) PROVE i = 0 /\ f = 0
      OBVIOUS
    <3>1. i = 0
      BY <1>2 DEF Writes
    <3> QED BY <3>1, <1>1, <2>1, <2>2
  <2> QED BY <2>2, <2>6, <2>7
<1> QED BY <1>5, <1>6, <1>1

LEMMA CommitKeepsStamps ==
  ASSUME StampInv, NEW t \in Calls, Commit(t)
  PROVE  StampInv'
<1> DEFINE v == call[t].visit
<1>1. /\ Open(t) /\ v \in Visits /\ call[t].points \in Nat
      /\ txn[v] = NotYet /\ txn' = [txn EXCEPT ![v] = call[t].points]
      /\ Ends(t) /\ contested' = contested
  BY DEF Commit, Ends, StampInv, OpenSales
<1>2. \A c \in Challenges \ contested : seen[t][c] = card[c] \/ Harmless(t, c)
  BY DEF Commit, StampInv, ReadsAreFresh
<1>3. Shape' /\ OpenSales'
  <2>1. txn' \in [Visits -> Nat \cup {NotYet}]
    BY <1>1 DEF StampInv, Shape
  <2> QED BY <1>1, <2>1, EndOfSale DEF StampInv, Shape
<1>4. ASSUME NEW c \in Challenges
      PROVE  /\ card'[c] = IF Writes(t, c) THEN Advanced(t, c) ELSE card[c]
             /\ vouchers'[c] = vouchers[c] + Fills(t, c)
  BY DEF Commit
<1>5. ASSUME NEW c \in Counted \ contested
      PROVE  /\ Stamps(c) \in Nat /\ Exact(c, card[c], Stamps(c))
             /\ Stamps(c)' = Stamps(c) + Increment(c, v)
             /\ Writes(t, c) => Exact(c, Advanced(t, c), Stamps(c) + Increment(c, v))
             /\ ~ Writes(t, c) => Increment(c, v) = 0 /\ Fills(t, c) = 0
  <2>1. Stamps(c) \in Nat /\ Stamps(c)' = Stamps(c) + Increment(c, v)
    BY <1>1, WorthType, SaleAddsItsWorth DEF StampInv
  <2>2. Exact(c, card[c], Stamps(c)) /\ c \in Challenges
    BY DEF StampInv, CardsAreExact, Counted
  <2>3. CASE seen[t][c] = card[c]
    BY <1>1, <2>1, <2>2, <2>3, AdvancedIsExact
  <2>4. CASE Harmless(t, c)
    <3>1. Increment(c, v) = 0
      BY <1>1, <2>4, IncrementType DEF Harmless, Writes
    <3> QED BY <2>1, <2>2, <2>4, <3>1 DEF Harmless
  <2> QED BY <1>2, <2>2, <2>3, <2>4
<1>6. CardsAreExact'
  <2> SUFFICES ASSUME NEW c \in Counted \ contested PROVE Exact(c, card[c], Stamps(c))'
    BY <1>1 DEF CardsAreExact, Counted
  <2>1. Exact(c, card'[c], Stamps(c)')
    <3>1. CASE Writes(t, c)
      BY <1>4, <1>5, <3>1 DEF Counted
    <3>2. CASE ~ Writes(t, c)
      BY <1>4, <1>5, <3>2 DEF Counted
    <3> QED BY <3>1, <3>2
  <2> QED BY <2>1 DEF Exact
<1>7. VouchersAreCompletions'
  <2> SUFFICES ASSUME NEW c \in Challenges \ contested PROVE vouchers'[c] = card'[c].completions
    BY <1>1 DEF VouchersAreCompletions
  <2>1. vouchers[c] = card[c].completions
    BY DEF StampInv, VouchersAreCompletions
  <2>2. CASE Writes(t, c)
    <3>1. seen[t][c] = card[c]
      BY <1>2, <2>2 DEF Harmless
    <3>2. Advanced(t, c).completions = seen[t][c].completions + Fills(t, c)
      BY DEF Advanced
    <3> QED BY <1>4, <2>1, <2>2, <3>1, <3>2
  <2>3. CASE ~ Writes(t, c)
    <3>1. c \in Counted
      BY <2>3 DEF Writes, Counted
    <3>2. vouchers[c] \in Nat /\ Fills(t, c) = 0
      BY <1>5, <2>1, <2>3, <3>1 DEF Exact, Row
    <3> QED BY <1>4, <2>1, <2>3, <3>2
  <2> QED BY <2>2, <2>3
<1>8. SalesApart'
  <2> SUFFICES ASSUME NEW c \in Challenges \ contested, NEW u \in Calls, NEW w \in Calls,
                      u # w, Open(u)', Open(w)'
               PROVE  /\ card'[c].exists /\ Kind[c] # "lifetime_points"
                      /\ Increment(c, call'[u].visit) = 0 \/ Increment(c, call'[w].visit) = 0
    BY <1>1 DEF SalesApart, Increment
  <2>1. u # t /\ w # t /\ Open(u) /\ Open(w) /\ call'[u] = call[u] /\ call'[w] = call[w]
    BY <1>1, EndOfSale DEF StampInv
  <2>2. /\ card[c].exists /\ Kind[c] # "lifetime_points"
        /\ Increment(c, call[u].visit) = 0 \/ Increment(c, call[w].visit) = 0
    BY <2>1 DEF StampInv, SalesApart
  <2>3. Advanced(t, c).exists
    BY DEF Advanced
  <2> QED BY <1>4, <2>1, <2>2, <2>3
<1>9. ReadsAreFresh'
  <2> SUFFICES ASSUME NEW c \in Challenges \ contested, NEW u \in Calls, seen'[u][c] # Unread
               PROVE  seen'[u][c] = card'[c] \/ Harmless(u, c)'
    BY <1>1 DEF ReadsAreFresh
  <2>1. u # t /\ call'[u] = call[u] /\ seen'[u] = seen[u]
    BY <1>1, EndOfSale DEF StampInv
  <2>2. Open(u) /\ call[u].visit \in Visits /\ (seen[u][c] = card[c] \/ Harmless(u, c))
    BY <2>1 DEF StampInv, OpenSales, ReadsAreFresh
  <2>3. /\ card[c].exists /\ Kind[c] # "lifetime_points" /\ c \in Counted \ contested
        /\ Increment(c, v) = 0 \/ Increment(c, call[u].visit) = 0
    BY <1>1, <2>1, <2>2 DEF StampInv, SalesApart, Counted
  <2>4. CASE ~ Writes(t, c)
    BY <1>4, <2>1, <2>2, <2>4, RestingSale
  <2>5. CASE Writes(t, c) /\ seen[u][c] = card[c]
    <3>1. seen[t][c] = card[c]
      BY <1>2, <2>5 DEF Harmless
    <3>2. Increment(c, call[u].visit) = 0
      BY <2>3, <2>5, <3>1 DEF Writes
    <3>3. ~ Writes(u, c)
      BY <2>3, <2>5, <3>2 DEF Writes
    <3>4. Fills(u, c) = 0
      <4>1. Exact(c, seen[u][c], Stamps(c)) /\ Stamps(c) \in Nat
        BY <1>5, <2>3, <2>5
      <4> QED BY <2>2, <2>3, <3>3, <4>1, AdvancedIsExact
    <3> QED BY <2>1, <3>3, <3>4, RestingSale DEF Harmless
  <2>6. CASE Harmless(u, c)
    BY <2>1, <2>6, RestingSale
  <2> QED BY <2>2, <2>4, <2>5, <2>6
<1> QED BY <1>3, <1>6, <1>7, <1>8, <1>9 DEF StampInv

LEMMA GiveUpKeepsStamps ==
  ASSUME StampInv, NEW t \in Calls, GiveUp(t)
  PROVE  StampInv'
<1>1. /\ Ends(t) /\ UNCHANGED tables /\ contested' = contested
      /\ txn' = txn /\ card' = card /\ vouchers' = vouchers
  BY DEF GiveUp, Ends, tables
<1>2. Shape' /\ OpenSales'
  BY <1>1, EndOfSale DEF StampInv, Shape
<1>3. SalesApart'
  <2>1. \A u \in Calls : Open(u)' => Open(u) /\ call'[u] = call[u]
    BY <1>1, EndOfSale DEF StampInv
  <2> QED BY <1>1, <2>1 DEF StampInv, SalesApart, Increment
<1>4. ReadsAreFresh'
  <2> SUFFICES ASSUME NEW c \in Challenges \ contested, NEW u \in Calls, seen'[u][c] # Unread
               PROVE  seen'[u][c] = card[c] \/ Harmless(u, c)'
    BY <1>1 DEF ReadsAreFresh
  <2>1. call'[u] = call[u] /\ seen'[u] = seen[u]
    BY <1>1, EndOfSale DEF StampInv
  <2> QED BY <2>1, RestingSale DEF StampInv, ReadsAreFresh
<1>5. CardsAreExact' /\ VouchersAreCompletions'
  BY <1>1 DEF StampInv, CardsAreExact, VouchersAreCompletions, Counted, Stamps, Worth
<1> QED BY <1>2, <1>3, <1>4, <1>5 DEF StampInv

LEMMA NextKeepsStamps == StampInv /\ [Next]_vars => StampInv'
<1> SUFFICES ASSUME StampInv, [Next]_vars PROVE StampInv'
  OBVIOUS
<1>1. CASE UNCHANGED vars
  <2>1. Shape' /\ OpenSales' /\ SalesApart' /\ CardsAreExact' /\ VouchersAreCompletions'
    BY <1>1 DEF vars, tables, StampInv, Shape, OpenSales, SalesApart, Open, Increment,
                CardsAreExact, VouchersAreCompletions, Counted, Stamps, Worth
  <2>2. ReadsAreFresh'
    BY <1>1, RestingSale DEF vars, StampInv, ReadsAreFresh
  <2> QED BY <2>1, <2>2 DEF StampInv
<1> QED BY <1>1, BeginKeepsStamps, ReadKeepsStamps, CommitKeepsStamps, GiveUpKeepsStamps DEF Next

(* Whatever the sales earn and however they overlap, the cards that no sale *)
(* of no points raced for are exact: an open sale overwrites what it read,  *)
(* or leaves the card alone.                                                *)
THEOREM StampsAreExact == Spec => []StampInv
BY InitStamps, NextKeepsStamps, PTL DEF Spec

(* Every finished sale, of points or of none, is on an uncontested card once. *)
THEOREM StampsAlwaysCount == Spec => []EveryStampCounts
<1>1. StampInv => EveryStampCounts
  <2> SUFFICES ASSUME StampInv, NEW c \in Counted \ contested
               PROVE  card[c].progress + (IF Repeatable[c] THEN card[c].completions * Target[c] ELSE 0)
                        = Stamps(c)
    BY DEF EveryStampCounts
  <2>1. Exact(c, card[c], Stamps(c)) /\ card[c].progress \in Nat
    BY DEF StampInv, CardsAreExact, Exact, Row
  <2> QED BY <2>1 DEF Exact
<1> QED BY <1>1, StampsAreExact, PTL

(* The reward of an uncontested card is issued exactly when sales fill it.  *)
THEOREM RewardsMatchCards == Spec => []RewardPerFilledCard
<1>1. StampInv => RewardPerFilledCard
  <2> SUFFICES ASSUME StampInv, NEW c \in Counted \ contested
               PROVE  IF Repeatable[c]
                      THEN /\ vouchers[c] * Target[c] <= Stamps(c)
                           /\ Stamps(c) < (vouchers[c] + 1) * Target[c]
                      ELSE vouchers[c] = IF Stamps(c) >= Target[c] THEN 1 ELSE 0
    BY DEF RewardPerFilledCard, StampInv, VouchersAreCompletions
  <2>1. /\ Exact(c, card[c], Stamps(c)) /\ card[c].progress \in Nat /\ card[c].completions \in Nat
        /\ vouchers[c] = card[c].completions /\ Target[c] \in Nat
    BY StampCardsAssumption DEF StampInv, CardsAreExact, VouchersAreCompletions, Exact, Row, Counted
  <2>2. CASE Repeatable[c]
    <3> DEFINE k == vouchers[c]
               d == Target[c]
    <3>1. card[c].progress < d /\ Stamps(c) = card[c].progress + k * d
      BY <2>1, <2>2 DEF Exact
    <3>2. k * d \in Nat /\ (k + 1) * d = k * d + d
      BY <2>1
    <3>3. k * d <= Stamps(c) /\ Stamps(c) < (k + 1) * d
      <4> HIDE DEF k, d
      <4>1. d \in Nat
        BY <2>1 DEF d
      <4> QED BY <2>1, <3>1, <3>2, <4>1
    <3> QED BY <2>2, <3>3
  <2>3. CASE ~ Repeatable[c]
    BY <2>1, <2>3 DEF Exact
  <2> QED BY <2>2, <2>3
<1> QED BY <1>1, StampsAreExact, PTL
-----------------------------------------------------------------------------
\* Every card is a row, and a one-off challenge is completed once at most.
CardsAreRows ==
  \A c \in Challenges :
    /\ card[c] \in Row
    /\ ~ Repeatable[c] => card[c].completions = IF card[c].completed THEN 1 ELSE 0

(* A key under which a bonus was earned numbers a completion that is on the *)
(* card, or names a badge that was awarded.                                 *)
KeysAreSpent ==
  \A key \in bonusKeys :
    /\ key[2] \in Challenges => IF Repeatable[key[2]]
                                THEN key[3] \in 1..card[key[2]].completions
                                ELSE card[key[2]].completed
    /\ key[2] \in Badges => key[2] \in awarded

PaidInv ==
  contested = {} =>
    /\ lifetime \in Nat /\ awarded \subseteq Badges
    /\ \A t \in Calls : call[t].life \in Nat
    /\ CardsAreRows
    /\ KeysAreSpent
    /\ BonusesArePaidOnce

(* What a sale does to any card: it adds its completions.                   *)
LEMMA CardMoves ==
  ASSUME StampInv, PaidInv, contested = {}, NEW t \in Calls, Commit(t), NEW c \in Challenges
  PROVE  /\ Fills(t, c) > 0 => seen[t][c] = card[c]
         /\ card[c].completions \in Nat
         /\ Fills(t, c) \in Nat
         /\ card'[c] \in Row
         /\ card'[c].completions = card[c].completions + Fills(t, c)
         /\ ~ Repeatable[c] => /\ card'[c].completed <=> card[c].completed \/ Fills(t, c) > 0
                               /\ Fills(t, c) > 0 => Fills(t, c) = 1 /\ ~ card[c].completed
<1> DEFINE f == Fills(t, c)
           d == Target[c]
           v == call[t].visit
<1>1. v \in Visits /\ (seen[t][c] = card[c] \/ Harmless(t, c))
  BY DEF Commit, StampInv, OpenSales, ReadsAreFresh
<1>2. /\ card[c].progress \in Nat /\ card[c].completions \in Nat
      /\ card[c].completed \in BOOLEAN /\ card[c] \in Row
  BY DEF PaidInv, CardsAreRows, Row
<1>3. d \in Nat \ {0} /\ Repeatable[c] \in BOOLEAN
  BY StampCardsAssumption
<1>4. card'[c] = IF Writes(t, c) THEN Advanced(t, c) ELSE card[c]
  BY DEF Commit
<1>5. CASE Harmless(t, c)
  BY <1>2, <1>4, <1>5 DEF Harmless
<1>6. CASE seen[t][c] = card[c]
  <2>1. Reached(t, c) \in Nat
    <3>1. call[t].life \in Nat
      BY DEF PaidInv
    <3>2. Increment(c, v) \in Nat
      BY <1>1, IncrementType
    <3> QED BY <1>2, <1>6, <3>1, <3>2 DEF Reached
  <2>2. /\ f \in Nat
        /\ Repeatable[c] => f * d \in Nat /\ f * d <= Reached(t, c)
        /\ ~ Repeatable[c] /\ f > 0 => f = 1 /\ ~ card[c].completed
    <3>1. CASE Repeatable[c] /\ Reached(t, c) >= d
      <4>1. f = Reached(t, c) \div d
        BY <1>3, <2>1, <3>1 DEF Fills
      <4> HIDE DEF f
      <4>2. f \in Nat /\ f * d <= Reached(t, c)
        BY <1>3, <2>1, <4>1, Division
      <4>3. f * d \in Nat
        BY <1>3, <4>2
      <4> QED BY <3>1, <4>2, <4>3
    <3>2. CASE Repeatable[c] /\ ~ (Reached(t, c) >= d)
      <4>1. f = 0
        BY <1>3, <2>1, <3>2 DEF Fills
      <4> HIDE DEF f
      <4> QED BY <1>3, <2>1, <3>2, <4>1
    <3>3. CASE ~ Repeatable[c]
      BY <1>6, <3>3 DEF Fills
    <3> QED BY <3>1, <3>2, <3>3
  <2>3. CASE Writes(t, c)
    <3>1. /\ Advanced(t, c).completions = card[c].completions + f
          /\ ~ Repeatable[c] => Advanced(t, c).completed = (card[c].completed \/ f > 0)
      BY <1>6 DEF Advanced
    <3>2. Advanced(t, c) \in Row
      <4> DEFINE p == IF Repeatable[c] THEN Reached(t, c) - f * d ELSE Reached(t, c)
                 done == ~ Repeatable[c] /\ (card[c].completed \/ f > 0)
      <4>1. p \in Nat
        <5> HIDE DEF f, d
        <5> QED BY <2>1, <2>2
      <4>2. card[c].completions + f \in Nat /\ done \in BOOLEAN
        BY <1>2, <2>2
      <4>3. Advanced(t, c) = [exists |-> TRUE, progress |-> p,
                              completions |-> card[c].completions + f, completed |-> done]
        BY <1>6, Zenon DEF Advanced
      <4> HIDE DEF p, done, f
      <4> QED BY <4>1, <4>2, <4>3 DEF Row
    <3> HIDE DEF f
    <3> QED BY <1>2, <1>4, <1>6, <2>2, <2>3, <3>1, <3>2 DEF f
  <2>4. CASE ~ Writes(t, c)
    <3>1. c \in Counted
      BY <2>4 DEF Writes, Counted
    <3>2. Exact(c, seen[t][c], Stamps(c)) /\ Stamps(c) \in Nat
      BY <1>6, <3>1, WorthType DEF StampInv, CardsAreExact
    <3>3. f = 0
      BY <1>1, <2>4, <3>1, <3>2, AdvancedIsExact
    <3> QED BY <1>2, <1>4, <1>6, <2>4, <3>3
  <2> QED BY <2>3, <2>4
<1> QED BY <1>1, <1>5, <1>6

\* The bonus keys of the completions of a sale.
RewardKeys(t) == UNION {FillKeys(t, c) : c \in Challenges}

LEMMA KeysOfSale ==
  ASSUME StampInv, PaidInv, contested = {}, NEW t \in Calls, Commit(t)
  PROVE  /\ \A key : key \in RewardKeys(t) <=>
              /\ key = <<Till[call[t].visit], key[2], key[3]>>
              /\ key[2] \in Challenges /\ RewardPoints[key[2]] > 0 /\ Fills(t, key[2]) > 0
              /\ IF Repeatable[key[2]]
                 THEN key[3] \in (card[key[2]].completions + 1)..(card[key[2]].completions + Fills(t, key[2]))
                 ELSE key[3] = 0
         /\ \A key : key \in BadgeKeys(t) <=>
              /\ key = <<Till[call[t].visit], key[2], 0>>
              /\ key[2] \in NewBadges(t) /\ BadgePoints[key[2]] > 0
         /\ NewBadges(t) \subseteq Badges /\ NewBadges(t) \cap awarded = {}
         /\ DueKeys(t) \cap bonusKeys = {}
<1> DEFINE till == Till[call[t].visit]
<1>1. NewBadges(t) \subseteq Badges /\ NewBadges(t) \cap awarded = {}
  BY StampCardsAssumption DEF NewBadges
<1>2. \A key : key \in BadgeKeys(t) <=> /\ key = <<till, key[2], 0>>
                                       /\ key[2] \in NewBadges(t) /\ BadgePoints[key[2]] > 0
  BY DEF BadgeKeys
<1>3. ASSUME NEW c \in Challenges, NEW key
      PROVE  key \in FillKeys(t, c) <=>
               /\ key = <<till, c, key[3]>> /\ RewardPoints[c] > 0 /\ Fills(t, c) > 0
               /\ IF Repeatable[c]
                  THEN key[3] \in (card[c].completions + 1)..(card[c].completions + Fills(t, c))
                  ELSE key[3] = 0
  <2>1. /\ Fills(t, c) > 0 => seen[t][c] = card[c]
        /\ Fills(t, c) \in Nat /\ RewardPoints[c] \in Nat
    BY CardMoves, StampCardsAssumption
  <2>2. FillKeys(t, c) =
          IF RewardPoints[c] = 0 \/ Fills(t, c) = 0 THEN {}
          ELSE {<<till, c, n>> : n \in IF Repeatable[c]
                 THEN (card[c].completions + 1)..(card[c].completions + Fills(t, c)) ELSE {0}}
    <3>1. CASE Fills(t, c) = 0
      BY <3>1 DEF FillKeys
    <3>2. CASE Fills(t, c) > 0
      <4>1. seen[t][c].completions = card[c].completions
        BY <2>1, <3>2
      <4> QED BY <3>2, <4>1 DEF FillKeys
    <3> QED BY <2>1, <3>1, <3>2
  <2> HIDE DEF till
  <2> QED BY <2>1, <2>2
<1>4. \A key : key \in RewardKeys(t) <=>
              /\ key = <<till, key[2], key[3]>>
              /\ key[2] \in Challenges /\ RewardPoints[key[2]] > 0 /\ Fills(t, key[2]) > 0
              /\ IF Repeatable[key[2]]
                 THEN key[3] \in (card[key[2]].completions + 1)..(card[key[2]].completions + Fills(t, key[2]))
                 ELSE key[3] = 0
  <2> TAKE key
  <2>1. key \in RewardKeys(t) <=> \E c \in Challenges : key \in FillKeys(t, c)
    BY DEF RewardKeys
  <2> HIDE DEF till
  <2> QED BY <1>3, <2>1
<1>5. ASSUME NEW key \in DueKeys(t), key \in bonusKeys PROVE FALSE
  <2>1. CASE key \in BadgeKeys(t)
    BY <1>1, <1>2, <1>5, <2>1 DEF PaidInv, KeysAreSpent
  <2>2. CASE key \in RewardKeys(t)
    <3> DEFINE c == key[2]
    <3>1. /\ c \in Challenges /\ Fills(t, c) > 0
          /\ IF Repeatable[c]
             THEN key[3] \in (card[c].completions + 1)..(card[c].completions + Fills(t, c))
             ELSE key[3] = 0
      BY <1>4, <2>2
    <3>2. IF Repeatable[c] THEN key[3] \in 1..card[c].completions ELSE card[c].completed
      BY <1>5, <3>1 DEF PaidInv, KeysAreSpent
    <3> HIDE DEF c
    <3> QED BY <3>1, <3>2, CardMoves
  <2> QED BY <1>5, <2>1, <2>2 DEF DueKeys, RewardKeys
<1> QED BY <1>1, <1>2, <1>4, <1>5

(* The rewards of a sale are worth what their bonus keys pay.               *)
LEMMA RewardsAddUp ==
  ASSUME StampInv, PaidInv, contested = {}, NEW t \in Calls, Commit(t),
         NEW h, h = [key \in RewardKeys(t) |-> RewardPoints[key[2]]]
  PROVE  /\ IsFiniteSet(Below(h)) /\ SumOf(h) \in Nat
         /\ SumOf(RewardsDue') = SumOf(RewardsDue) + SumOf(h)
<1> DEFINE K == RewardKeys(t)
           from == [c \in Challenges |-> vouchers[c]]
           to == [c \in Challenges |-> vouchers'[c]]
           of == [key \in K |-> key[2]]
           nth == [key \in K |-> IF Repeatable[key[2]] THEN key[3] - 1 ELSE 0]
<1>1. \A c \in Challenges :
        /\ vouchers[c] = card[c].completions /\ vouchers[c] \in Nat /\ Fills(t, c) \in Nat
        /\ vouchers'[c] = vouchers[c] + Fills(t, c) /\ vouchers'[c] \in Nat
        /\ ~ Repeatable[c] /\ Fills(t, c) > 0 => Fills(t, c) = 1 /\ vouchers[c] = 0
        /\ ~ Repeatable[c] => Fills(t, c) \in {0, 1}
  <2> TAKE c \in Challenges
  <2>1. vouchers[c] = card[c].completions /\ vouchers'[c] = vouchers[c] + Fills(t, c)
    BY DEF StampInv, VouchersAreCompletions, Commit
  <2>2. ~ Repeatable[c] => card[c].completions = IF card[c].completed THEN 1 ELSE 0
    BY DEF PaidInv, CardsAreRows
  <2> QED BY <2>1, <2>2, CardMoves
<1>2. /\ IsFiniteSet(Challenges) /\ RewardPoints \in [Challenges -> Nat]
      /\ from \in [Challenges -> Nat] /\ to \in [Challenges -> Nat]
      /\ \A c \in Challenges : from[c] <= to[c]
  BY <1>1, StampCardsAssumption
<1>3. \A key \in K :
        /\ key = <<Till[call[t].visit], key[2], key[3]>>
        /\ key[2] \in Challenges /\ Fills(t, key[2]) > 0
        /\ IF Repeatable[key[2]]
           THEN key[3] \in (vouchers[key[2]] + 1)..(vouchers[key[2]] + Fills(t, key[2]))
           ELSE key[3] = 0
  BY <1>1, KeysOfSale
<1>4. of \in [K -> Challenges] /\ nth \in [K -> Nat]
  BY <1>1, <1>3
<1>5. \A key \in K : from[of[key]] <= nth[key] /\ nth[key] < to[of[key]]
  <2> TAKE key \in K
  <2>1. from[of[key]] = vouchers[key[2]] /\ to[of[key]] = vouchers[key[2]] + Fills(t, key[2])
    BY <1>1, <1>3
  <2>2. nth[key] = IF Repeatable[key[2]] THEN key[3] - 1 ELSE 0
    OBVIOUS
  <2> HIDE DEF K, from, to, of, nth
  <2> QED BY <1>1, <1>3, <2>1, <2>2
<1>6. \A j, k \in K : of[j] = of[k] /\ nth[j] = nth[k] => j = k
  <2> SUFFICES ASSUME NEW j \in K, NEW k \in K, j[2] = k[2],
                      (IF Repeatable[j[2]] THEN j[3] - 1 ELSE 0) = (IF Repeatable[k[2]] THEN k[3] - 1 ELSE 0)
               PROVE  j[3] = k[3]
    BY <1>3
  <2> HIDE DEF K, from, to, of, nth
  <2>1. CASE Repeatable[j[2]]
    <3>1. j[3] \in Int /\ k[3] \in Int
      BY <1>1, <1>3, <2>1
    <3> QED BY <2>1, <3>1
  <2>2. CASE ~ Repeatable[j[2]]
    BY <1>3, <2>2
  <2> QED BY <2>1, <2>2
<1>7. \A c \in Challenges, n \in Nat :
        RewardPoints[c] > 0 /\ from[c] <= n /\ n < to[c] => \E key \in K : of[key] = c /\ nth[key] = n
  <2> SUFFICES ASSUME NEW c \in Challenges, NEW n \in Nat,
                      RewardPoints[c] > 0, vouchers[c] <= n, n < vouchers'[c]
               PROVE  \E key \in K : of[key] = c /\ nth[key] = n
    OBVIOUS
  <2> DEFINE key == <<Till[call[t].visit], c, IF Repeatable[c] THEN n + 1 ELSE 0>>
  <2>1. key[2] = c /\ key[3] = (IF Repeatable[c] THEN n + 1 ELSE 0) /\ key = <<Till[call[t].visit], key[2], key[3]>>
    OBVIOUS
  <2> HIDE DEF key
  <2>2. /\ Fills(t, c) > 0
        /\ IF Repeatable[c] THEN n + 1 \in (vouchers[c] + 1)..(vouchers[c] + Fills(t, c)) ELSE n = 0
    BY <1>1
  <2>3. key \in K
    BY <1>1, <2>1, <2>2, KeysOfSale
  <2>4. of[key] = c /\ nth[key] = IF Repeatable[c] THEN key[3] - 1 ELSE 0
    BY <2>1, <2>3
  <2>5. nth[key] = n
    BY <2>1, <2>2, <2>4
  <2> QED BY <2>3, <2>4, <2>5
<1>8. /\ RewardsDue = Worths(Challenges, RewardPoints, from)
      /\ RewardsDue' = Worths(Challenges, RewardPoints, to)
      /\ h = Payments(K, RewardPoints, of)
  BY DEF RewardsDue, Worths, Payments
<1> HIDE DEF K, from, to, of, nth
<1>9. Numbered(Challenges, RewardPoints, from, to, K, of, nth)
  BY <1>2, <1>4, <1>5, <1>6, <1>7 DEF Numbered
<1> QED BY <1>8, <1>9, NumberedPayments

(* The new badges of a sale are worth what their bonus keys pay.            *)
LEMMA BadgesAddUp ==
  ASSUME StampInv, PaidInv, contested = {}, NEW t \in Calls, Commit(t),
         NEW h, h = [key \in BadgeKeys(t) |-> BadgePoints[key[2]]]
  PROVE  /\ IsFiniteSet(Below(h)) /\ SumOf(h) \in Nat
         /\ SumOf(BadgesDue') = SumOf(BadgesDue) + SumOf(h)
<1> DEFINE K == BadgeKeys(t)
           from == [b \in Badges |-> IF b \in awarded THEN 1 ELSE 0]
           to == [b \in Badges |-> IF b \in awarded' THEN 1 ELSE 0]
           of == [key \in K |-> key[2]]
           nth == [key \in K |-> 0]
<1>1. /\ awarded' = awarded \cup NewBadges(t)
      /\ NewBadges(t) \subseteq Badges /\ NewBadges(t) \cap awarded = {}
      /\ IsFiniteSet(Badges) /\ BadgePoints \in [Badges -> Nat]
  BY KeysOfSale, StampCardsAssumption DEF Commit
<1>2. \A key : key \in K <=> /\ key = <<Till[call[t].visit], key[2], 0>>
                            /\ key[2] \in NewBadges(t) /\ BadgePoints[key[2]] > 0
  BY KeysOfSale
<1>3. /\ from \in [Badges -> Nat] /\ to \in [Badges -> Nat]
      /\ \A b \in Badges : from[b] <= to[b]
  BY <1>1
<1>4. of \in [K -> Badges] /\ nth \in [K -> Nat]
  BY <1>1, <1>2
<1>5. \A key \in K : from[of[key]] <= nth[key] /\ nth[key] < to[of[key]]
  BY <1>1, <1>2
<1>6. \A j, k \in K : of[j] = of[k] /\ nth[j] = nth[k] => j = k
  BY <1>2
<1>7. \A b \in Badges, n \in Nat :
        BadgePoints[b] > 0 /\ from[b] <= n /\ n < to[b] => \E key \in K : of[key] = b /\ nth[key] = n
  <2> SUFFICES ASSUME NEW b \in Badges, NEW n \in Nat,
                      BadgePoints[b] > 0, from[b] <= n, n < to[b]
               PROVE  \E key \in K : of[key] = b /\ nth[key] = n
    OBVIOUS
  <2>1. b \in NewBadges(t) /\ n = 0
    BY <1>1
  <2>2. <<Till[call[t].visit], b, 0>> \in K
    BY <1>2, <2>1
  <2> QED BY <2>1, <2>2
<1>8. /\ BadgesDue = Worths(Badges, BadgePoints, from)
      /\ BadgesDue' = Worths(Badges, BadgePoints, to)
      /\ h = Payments(K, BadgePoints, of)
  <2>1. \A b \in Badges : /\ from[b] * BadgePoints[b] = IF b \in awarded THEN BadgePoints[b] ELSE 0
                          /\ to[b] * BadgePoints[b] = IF b \in awarded' THEN BadgePoints[b] ELSE 0
    BY <1>1
  <2> QED BY <2>1 DEF BadgesDue, Worths, Payments
<1> HIDE DEF K, from, to, of, nth
<1>9. Numbered(Badges, BadgePoints, from, to, K, of, nth)
  BY <1>1, <1>3, <1>4, <1>5, <1>6, <1>7 DEF Numbered
<1> QED BY <1>8, <1>9, NumberedPayments

(* The bonuses of a sale: none is swallowed as a replay, so they pay what   *)
(* the new completions and badges are worth.                                *)
LEMMA BonusesAddUp ==
  ASSUME StampInv, PaidInv, contested = {}, NEW t \in Calls, Commit(t)
  PROVE  \E r \in Nat, b \in Nat :
           /\ Bonuses(t) = r + b
           /\ SumOf(RewardsDue') = SumOf(RewardsDue) + r
           /\ SumOf(BadgesDue') = SumOf(BadgesDue) + b
<1> DEFINE A == RewardKeys(t)
           B == BadgeKeys(t)
           h == [key \in A \cup B |-> BonusOf(key)]
           f == [key \in A |-> h[key]]
           g == [key \in B |-> h[key]]
<1>1. DueKeys(t) \ bonusKeys = A \cup B
  BY KeysOfSale DEF DueKeys, RewardKeys
<1>2. /\ \A key \in A : key[2] \in Challenges /\ key[2] \notin Badges
      /\ \A key \in B : key[2] \in Badges
  BY KeysOfSale, StampCardsAssumption
<1>3. A \cap B = {}
  BY <1>2
<1>4. /\ \A key \in A : BonusOf(key) = RewardPoints[key[2]] /\ BonusOf(key) \in Nat
      /\ \A key \in B : BonusOf(key) = BadgePoints[key[2]] /\ BonusOf(key) \in Nat
  BY <1>2, StampCardsAssumption DEF BonusOf
<1> HIDE DEF A, B
<1>5. h \in [A \cup B -> Nat]
  BY <1>4
<1>6. f = [key \in A |-> RewardPoints[key[2]]] /\ g = [key \in B |-> BadgePoints[key[2]]]
  BY <1>4
<1>7. Bonuses(t) = SumOf(h)
  BY <1>1 DEF Bonuses
<1> HIDE DEF h
<1>8. f = [key \in A |-> h[key]] /\ g = [key \in B |-> h[key]]
  OBVIOUS
<1> HIDE DEF f, g
<1>9. /\ IsFiniteSet(Below(f)) /\ SumOf(f) \in Nat
      /\ SumOf(RewardsDue') = SumOf(RewardsDue) + SumOf(f)
  BY <1>6, RewardsAddUp DEF A
<1>10. /\ IsFiniteSet(Below(g)) /\ SumOf(g) \in Nat
       /\ SumOf(BadgesDue') = SumOf(BadgesDue) + SumOf(g)
  BY <1>6, BadgesAddUp DEF B
<1>11. SumOf(h) = SumOf(f) + SumOf(g)
  <2>1. IsFiniteSet(Below(f)) /\ IsFiniteSet(Below(g)) /\ SumOf(f) \in Nat /\ SumOf(g) \in Nat
    BY <1>9, <1>10
  <2> QED BY <1>3, <1>5, <1>8, <2>1, SumOfTwo
<1> QED BY <1>7, <1>9, <1>10, <1>11

LEMMA CommitKeepsPaid ==
  ASSUME StampInv, PaidInv, contested = {}, NEW t \in Calls, Commit(t)
  PROVE  PaidInv'
<1> DEFINE v == call[t].visit
           n == call[t].points
<1>1. /\ v \in Visits /\ n \in Nat /\ txn[v] = NotYet
      /\ txn' = [txn EXCEPT ![v] = n] /\ txn \in [Visits -> Nat \cup {NotYet}]
      /\ lifetime' = lifetime + n + Bonuses(t)
      /\ bonusKeys' = bonusKeys \cup DueKeys(t)
      /\ awarded' = awarded \cup NewBadges(t)
      /\ call' = [call EXCEPT ![t] = Closed] /\ DOMAIN call = Calls
  BY DEF Commit, Ends, StampInv, Shape, OpenSales
<1>2. PICK r \in Nat, b \in Nat :
        /\ Bonuses(t) = r + b
        /\ SumOf(RewardsDue') = SumOf(RewardsDue) + r
        /\ SumOf(BadgesDue') = SumOf(BadgesDue) + b
  BY BonusesAddUp
<1> HIDE DEF v, n
<1>3. lifetime' \in Nat /\ awarded' \subseteq Badges
  BY <1>1, <1>2, KeysOfSale DEF PaidInv
<1>4. \A u \in Calls : call'[u].life \in Nat
  BY <1>1 DEF PaidInv, Closed
<1>5. CardsAreRows'
  <2> SUFFICES ASSUME NEW c \in Challenges
               PROVE  /\ card'[c] \in Row
                      /\ ~ Repeatable[c] => card'[c].completions = IF card'[c].completed THEN 1 ELSE 0
    BY DEF CardsAreRows
  <2>1. ~ Repeatable[c] => card[c].completions = IF card[c].completed THEN 1 ELSE 0
    BY DEF PaidInv, CardsAreRows
  <2>2. card[c].completed \in BOOLEAN /\ card'[c] \in Row => card'[c].completed \in BOOLEAN
    BY DEF PaidInv, CardsAreRows, Row
  <2> QED BY <2>1, <2>2, CardMoves
<1>6. KeysAreSpent'
  <2> SUFFICES ASSUME NEW key \in bonusKeys'
               PROVE  /\ key[2] \in Challenges => IF Repeatable[key[2]]
                                                  THEN key[3] \in 1..card'[key[2]].completions
                                                  ELSE card'[key[2]].completed
                      /\ key[2] \in Badges => key[2] \in awarded'
    BY DEF KeysAreSpent
  <2>1. CASE key \in RewardKeys(t)
    <3>1. key[2] \in Challenges /\ key[2] \notin Badges
      BY <2>1, KeysOfSale, StampCardsAssumption
    <3>2. IF Repeatable[key[2]]
          THEN key[3] \in (card[key[2]].completions + 1)..(card[key[2]].completions + Fills(t, key[2]))
          ELSE Fills(t, key[2]) > 0
      BY <2>1, KeysOfSale
    <3> QED BY <3>1, <3>2, CardMoves
  <2>2. CASE key \in BadgeKeys(t)
    BY <1>1, <2>2, KeysOfSale, StampCardsAssumption
  <2>3. CASE key \in bonusKeys /\ key[2] \in Challenges
    <3>1. IF Repeatable[key[2]] THEN key[3] \in 1..card[key[2]].completions ELSE card[key[2]].completed
      BY <2>3 DEF PaidInv, KeysAreSpent
    <3>2. key[2] \notin Badges
      BY <2>3, StampCardsAssumption
    <3>3. CASE Repeatable[key[2]]
      <4> DEFINE c == key[2]
      <4>1. key[3] \in 1..card[c].completions /\ card[c].completions \in Nat
            /\ card'[c].completions = card[c].completions + Fills(t, c) /\ Fills(t, c) \in Nat
        BY <2>3, <3>1, <3>3, CardMoves
      <4> QED BY <3>2, <3>3, <4>1
    <3>4. CASE ~ Repeatable[key[2]]
      BY <2>3, <3>1, <3>2, <3>4, CardMoves
    <3> QED BY <3>3, <3>4
  <2>4. CASE key \in bonusKeys /\ key[2] \notin Challenges
    BY <1>1, <2>4 DEF PaidInv, KeysAreSpent
  <2> QED BY <1>1, <2>1, <2>2, <2>3, <2>4 DEF DueKeys, RewardKeys
<1>7. SumOf(PointsEarned') = SumOf(PointsEarned) + n /\ SumOf(PointsEarned) \in Nat
  <2> DEFINE f == PointsEarned
             g == PointsEarned'
  <2>1. f \in [Visits -> Nat] /\ f[v] = 0
    BY <1>1 DEF PointsEarned
  <2>2. g \in [Visits -> Nat] /\ g[v] = n /\ \A u \in Visits \ {v} : g[u] = f[u]
    BY <1>1 DEF PointsEarned, NotYet
  <2> HIDE DEF f, g
  <2>3. IsFiniteSet(Visits) /\ v \in Visits /\ n \in Nat
    BY <1>1, StampCardsAssumption
  <2>4. g \in [Visits -> Nat]
    BY <2>2
  <2>5. SumOf(f) \in Nat /\ SumOf(g) \in Nat
    BY <2>1, <2>3, <2>4, SumType
  <2>6. SumOf(g) = SumOf(f) - f[v] + g[v]
    BY <2>1, <2>2, <2>3, <2>4, SumChanges
  <2>7. SumOf(g) = SumOf(f) + n
    BY <2>1, <2>2, <2>3, <2>5, <2>6
  <2> QED BY <2>5, <2>7 DEF f, g
<1>8. SumOf(RewardsDue) \in Nat /\ SumOf(BadgesDue) \in Nat
  <2>1. \A c \in Challenges : vouchers[c] * RewardPoints[c] \in Nat
    <3> TAKE c \in Challenges
    <3>1. vouchers[c] \in Nat /\ RewardPoints[c] \in Nat
      BY CardMoves, StampCardsAssumption DEF StampInv, VouchersAreCompletions
    <3> QED BY <3>1
  <2>2. RewardsDue \in [Challenges -> Nat] /\ BadgesDue \in [Badges -> Nat]
    BY <2>1, StampCardsAssumption DEF RewardsDue, BadgesDue
  <2> QED BY <2>2, SumType, StampCardsAssumption
<1>9. BonusesArePaidOnce'
  <2>1. lifetime = SumOf(PointsEarned) + SumOf(RewardsDue) + SumOf(BadgesDue)
    BY DEF PaidInv, BonusesArePaidOnce
  <2>2. lifetime' = SumOf(PointsEarned') + SumOf(RewardsDue') + SumOf(BadgesDue')
    BY <1>1, <1>2, <1>7, <1>8, <2>1
  <2> QED BY <2>2 DEF BonusesArePaidOnce
<1> QED BY <1>3, <1>4, <1>5, <1>6, <1>9 DEF PaidInv

\* A step that writes no table leaves what was paid as it was.
LEMMA TablesRest ==
  ASSUME PaidInv, UNCHANGED tables, contested' = {} => contested = {},
         contested = {} => \A t \in Calls : call'[t].life \in Nat
  PROVE  PaidInv'
<1> SUFFICES ASSUME contested' = {} PROVE PaidInv'
  BY DEF PaidInv
<1>1. CardsAreRows' /\ KeysAreSpent'
  BY DEF tables, PaidInv, CardsAreRows, KeysAreSpent
<1>2. PointsEarned' = PointsEarned /\ RewardsDue' = RewardsDue /\ BadgesDue' = BadgesDue
  BY DEF tables, PointsEarned, RewardsDue, BadgesDue
<1> QED BY <1>1, <1>2 DEF tables, PaidInv, BonusesArePaidOnce

LEMMA NextKeepsPaid ==
  ASSUME StampInv, PaidInv, [Next]_vars
  PROVE  PaidInv'
<1>1. DOMAIN call = Calls
  BY DEF StampInv, Shape
<1>2. contested = {} => lifetime \in Nat /\ \A t \in Calls : call[t].life \in Nat
  BY DEF PaidInv
<1>3. ASSUME NEW t \in Calls, NEW v \in Visits, NEW n \in MinPoints..MaxPoints, Begin(t, v, n)
      PROVE  PaidInv'
  <2>1. n \in Nat /\ (contested' = {} => contested = {})
    BY <1>3, StampCardsAssumption DEF Begin
  <2> QED BY <1>1, <1>2, <1>3, <2>1, TablesRest DEF Begin
<1>4. ASSUME NEW t \in Calls, NEW c \in Challenges, ReadCard(t, c) PROVE PaidInv'
  BY <1>2, <1>4, TablesRest DEF ReadCard
<1>5. ASSUME NEW t \in Calls, GiveUp(t) PROVE PaidInv'
  BY <1>1, <1>2, <1>5, TablesRest DEF GiveUp, Ends, Closed
<1>6. ASSUME NEW t \in Calls, Commit(t) PROVE PaidInv'
  <2>1. CASE contested = {}
    BY <1>6, <2>1, CommitKeepsPaid
  <2>2. CASE contested # {}
    BY <1>6, <2>2 DEF Commit, Ends, PaidInv
  <2> QED BY <2>1, <2>2
<1>7. CASE UNCHANGED vars
  BY <1>2, <1>7, TablesRest DEF vars, tables
<1> QED BY <1>3, <1>4, <1>5, <1>6, <1>7 DEF Next

LEMMA InitPaid == ASSUME Init PROVE PaidInv
<1>1. CardsAreRows /\ KeysAreSpent /\ \A t \in Calls : call[t].life \in Nat
  BY DEF Init, CardsAreRows, KeysAreSpent, NoRow, Row, Closed
<1>2. /\ PointsEarned \in [Visits -> {0}] /\ RewardsDue \in [Challenges -> {0}]
      /\ BadgesDue \in [Badges -> {0}]
  BY StampCardsAssumption DEF Init, PointsEarned, RewardsDue, BadgesDue
<1>3. SumOf(PointsEarned) = 0 /\ SumOf(RewardsDue) = 0 /\ SumOf(BadgesDue) = 0
  BY <1>2, SumOfZeros
<1> QED BY <1>1, <1>3 DEF Init, PaidInv, BonusesArePaidOnce

(* Every completion and every badge of a member pays its bonus once, and no *)
(* bonus is taken for the replay of another, while no card is contested.    *)
THEOREM BonusesAreAlwaysPaidOnce == Spec => []BonusesArePaidOnce
<1>1. Init => PaidInv
  BY InitPaid
<1>2. StampInv /\ PaidInv /\ [Next]_vars => PaidInv'
  BY NextKeepsPaid
<1>3. PaidInv => BonusesArePaidOnce
  BY DEF PaidInv, BonusesArePaidOnce
<1> QED BY <1>1, <1>2, <1>3, StampsAreExact, PTL DEF Spec
=============================================================================
