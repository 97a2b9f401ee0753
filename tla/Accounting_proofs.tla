------------------------- MODULE Accounting_proofs -------------------------
(***************************************************************************)
(* Lemmas for the modules that move points and money: what each UPDATE of  *)
(* a balance row does to it (the row stays a row, and a guarded update     *)
(* keeps the CHECK constraints), and what a sum is.                        *)
(***************************************************************************)
EXTENDS Balances, Sums, FiniteSetTheorems, TLAPS

(* A row just created (getOrCreateAccount) is well formed and within its checks. *)
LEMMA FreshRow == NewBalance \in Balance /\ RowChecks(NewBalance)
BY DEF NewBalance, Balance, RowChecks, Available

\* Crediting a row adds to what is available; debiting and holding take it.
LEMMA RowCredit ==
  ASSUME NEW b \in Balance, NEW n \in Nat
  PROVE  /\ Credit(b, n) \in Balance
         /\ Credit(b, n).posted_credits = b.posted_credits + n
         /\ Credit(b, n).posted_debits = b.posted_debits
         /\ RowChecks(b) => RowChecks(Credit(b, n))
BY DEF Credit, Balance, RowChecks, Available

(* A guarded debit (applyPosted) leaves a row that the checks accept.       *)
LEMMA RowDebit ==
  ASSUME NEW b \in Balance, NEW n \in Nat
  PROVE  /\ Debit(b, n) \in Balance
         /\ Debit(b, n).posted_credits = b.posted_credits
         /\ Debit(b, n).posted_debits = b.posted_debits + n
         /\ HasAvailable(b, n) => RowChecks(Debit(b, n))
BY DEF Debit, Balance, RowChecks, Available, HasAvailable

(* A guarded hold (holdPending) leaves a row that the checks accept.        *)
LEMMA RowHold ==
  ASSUME NEW b \in Balance, NEW n \in Nat
  PROVE  /\ Hold(b, n) \in Balance
         /\ Hold(b, n).posted_credits = b.posted_credits
         /\ Hold(b, n).posted_debits = b.posted_debits
         /\ HasAvailable(b, n) => RowChecks(Hold(b, n))
BY DEF Hold, Balance, RowChecks, Available, HasAvailable

\* A hold that covers the amount can be given back or spent.
LEMMA RowRelease ==
  ASSUME NEW b \in Balance, NEW n \in Nat, HasPending(b, n)
  PROVE  /\ Release(b, n) \in Balance
         /\ Release(b, n).posted_credits = b.posted_credits
         /\ Release(b, n).posted_debits = b.posted_debits
         /\ RowChecks(b) => RowChecks(Release(b, n))
BY DEF Release, HasPending, Balance, RowChecks, Available

(* Spending a hold (captureHold) keeps the checks: nothing else was promised. *)
LEMMA RowCapture ==
  ASSUME NEW b \in Balance, NEW n \in Nat, HasPending(b, n)
  PROVE  /\ Capture(b, n) \in Balance
         /\ Capture(b, n).posted_credits = b.posted_credits
         /\ Capture(b, n).posted_debits = b.posted_debits + n
         /\ RowChecks(b) => RowChecks(Capture(b, n))
<1> DEFINE c == Release(b, n)
<1>1. /\ c \in Balance
      /\ c.posted_credits = b.posted_credits /\ c.posted_debits = b.posted_debits
  BY RowRelease
<1>2. HasAvailable(b, 0) => HasAvailable(c, n)
  BY DEF Release, HasPending, HasAvailable, Available, Balance
<1>3. RowChecks(b) => HasAvailable(b, 0)
  BY DEF RowChecks, HasAvailable
<1>4. RowChecks(b) => RowChecks(Debit(c, n))
  BY <1>1, <1>2, <1>3, RowDebit
<1> HIDE DEF c
<1>5. /\ Debit(c, n) \in Balance
      /\ Debit(c, n).posted_credits = b.posted_credits
      /\ Debit(c, n).posted_debits = b.posted_debits + n
  BY <1>1, RowDebit
<1> QED BY <1>4, <1>5 DEF Capture, c

\* What each update of a row does to the two abstract numbers.
LEMMA RowViews ==
  ASSUME NEW b \in Balance, NEW n \in Nat
  PROVE  /\ Available(Credit(b, n)) = Available(b) + n
         /\ Credit(b, n).pending_debits = b.pending_debits
         /\ Available(Debit(b, n)) = Available(b) - n
         /\ Debit(b, n).pending_debits = b.pending_debits
         /\ Available(Hold(b, n)) = Available(b) - n
         /\ Hold(b, n).pending_debits = b.pending_debits + n
         /\ Available(Release(b, n)) = Available(b) + n
         /\ Release(b, n).pending_debits = b.pending_debits - n
BY DEF Credit, Debit, Hold, Release, Balance, Available

(* Spending a hold lowers what is held and leaves what is available alone.  *)
LEMMA CaptureView ==
  ASSUME NEW b \in Balance, NEW n \in Nat, HasPending(b, n)
  PROVE  /\ Available(Capture(b, n)) = Available(b)
         /\ Capture(b, n).pending_debits = b.pending_debits - n
<1> DEFINE c == Release(b, n)
<1>1. c \in Balance /\ Available(c) = Available(b) + n
      /\ c.pending_debits = b.pending_debits - n
      /\ Available(b) \in Int
  BY RowRelease, RowViews DEF Available, Balance
<1> HIDE DEF c
<1>2. Available(Debit(c, n)) = Available(c) - n /\ Debit(c, n).pending_debits = c.pending_debits
  BY <1>1, RowViews
<1> QED BY <1>1, <1>2 DEF Capture, c

(* A hold spent in the transaction that took it is a debit; a hold given    *)
(* back in it leaves the row as it was.                                     *)
LEMMA HoldAndEnd ==
  ASSUME NEW b \in Balance, NEW n \in Nat
  PROVE  /\ Capture(Hold(b, n), n) \in Balance
         /\ Capture(Hold(b, n), n).posted_credits = b.posted_credits
         /\ Capture(Hold(b, n), n).posted_debits = b.posted_debits + n
         /\ Capture(Hold(b, n), n).pending_debits = b.pending_debits
         /\ HasAvailable(b, n) => RowChecks(Capture(Hold(b, n), n))
         /\ Release(Hold(b, n), n) = b
<1> DEFINE h == Hold(b, n)
<1>1. /\ h \in Balance /\ h.posted_credits = b.posted_credits
      /\ h.posted_debits = b.posted_debits /\ h.pending_debits = b.pending_debits + n
      /\ HasAvailable(b, n) => RowChecks(h)
  BY RowHold, RowViews
<1>2. HasPending(h, n)
  BY <1>1 DEF HasPending, Balance
<1>3. b.pending_debits \in Nat
  BY DEF Balance
<1> HIDE DEF h
<1>4. Release(h, n) = b
  <2> DEFINE r == Release(h, n)
  <2>1. /\ r \in Balance /\ r.posted_credits = b.posted_credits
        /\ r.posted_debits = b.posted_debits /\ r.pending_debits = b.pending_debits
    BY <1>1, <1>2, <1>3, RowRelease, RowViews
  <2> HIDE DEF r
  <2> QED BY <2>1 DEF Balance, r
<1>5. /\ Capture(h, n) \in Balance
      /\ Capture(h, n).posted_credits = h.posted_credits
      /\ Capture(h, n).posted_debits = h.posted_debits + n
      /\ Capture(h, n).pending_debits = h.pending_debits - n
      /\ RowChecks(h) => RowChecks(Capture(h, n))
  BY <1>1, <1>2, RowCapture, CaptureView
<1> QED BY <1>1, <1>3, <1>4, <1>5 DEF h

-----------------------------------------------------------------------------
(* The points of one value of f: as many as the value.                      *)
Column(t, n) == {t} \X (1..n)

\* The points below the graph of f.
Below(f) == UNION {Column(t, f[t]) : t \in DOMAIN f}

LEMMA ColumnSize ==
  ASSUME NEW t, NEW n \in Nat
  PROVE  IsFiniteSet(Column(t, n)) /\ Cardinality(Column(t, n)) = n
<1>1. IsFiniteSet({t}) /\ Cardinality({t}) = 1
  BY FS_Singleton
<1>2. IsFiniteSet(1..n) /\ Cardinality(1..n) = n
  BY FS_Interval
<1>3. IsFiniteSet(Column(t, n)) /\ Cardinality(Column(t, n)) = Cardinality({t}) * Cardinality(1..n)
  BY <1>1, <1>2, FS_Product DEF Column
<1> QED BY <1>1, <1>2, <1>3

\* A sum of finitely many natural numbers is a natural number.
LEMMA SumType ==
  ASSUME NEW S, IsFiniteSet(S), NEW f \in [S -> Nat]
  PROVE  /\ IsFiniteSet(Below(f))
         /\ SumOf(f) = Cardinality(Below(f))
         /\ SumOf(f) \in Nat
<1> DEFINE columns == {Column(t, f[t]) : t \in S}
<1>1. IsFiniteSet(columns)
  <2> DEFINE column == [t \in S |-> Column(t, f[t])]
  <2>1. column \in Surjection(S, columns)
    BY DEF Surjection
  <2> QED BY <2>1, FS_Surjection
<1>2. \A c \in columns : IsFiniteSet(c)
  BY ColumnSize
<1>3. Below(f) = UNION columns
  BY DEF Below
<1> HIDE DEF columns
<1>4. IsFiniteSet(Below(f))
  BY <1>1, <1>2, <1>3, FS_UNION
<1>5. SumOf(f) = Cardinality(Below(f))
  BY DEF SumOf, Below, Column
<1> QED BY <1>4, <1>5, FS_CardinalityType

\* Nothing adds up to nothing.
LEMMA SumOfZeros ==
  ASSUME NEW S, NEW f \in [S -> {0}]
  PROVE  SumOf(f) = 0
<1>1. UNION {{t} \X (1..f[t]) : t \in DOMAIN f} = {}
  OBVIOUS
<1> QED BY <1>1, FS_EmptySet DEF SumOf

\* What it is for a point to lie below the graph.
LEMMA PointBelow ==
  ASSUME NEW S, NEW f \in [S -> Nat], NEW p
  PROVE  p \in Below(f) <=>
           /\ p = <<p[1], p[2]>>
           /\ p[1] \in S /\ p[2] \in Nat /\ 1 <= p[2] /\ p[2] <= f[p[1]]
BY DEF Below, Column

(* Changing one value changes the sum by the difference.                    *)
LEMMA SumChanges ==
  ASSUME NEW S, IsFiniteSet(S),
         NEW f \in [S -> Nat], NEW g \in [S -> Nat],
         NEW t \in S, \A s \in S \ {t} : g[s] = f[s]
  PROVE  /\ SumOf(f) \in Nat
         /\ SumOf(g) = SumOf(f) - f[t] + g[t]
<1> DEFINE A == Below(f)
           B == Below(g)
           old == Column(t, f[t])
           new == Column(t, g[t])
           k == g[t]
<1>1. f[t] \in Nat /\ k \in Nat
  OBVIOUS
<1>2. /\ IsFiniteSet(A) /\ SumOf(f) = Cardinality(A) /\ SumOf(f) \in Nat
      /\ SumOf(g) = Cardinality(B)
  BY SumType
<1>3. /\ IsFiniteSet(old) /\ Cardinality(old) = f[t]
      /\ IsFiniteSet(new) /\ Cardinality(new) = k
  BY <1>1, ColumnSize
<1>4. \A p : p \in old <=> p = <<t, p[2]>> /\ p[2] \in Nat /\ 1 <= p[2] /\ p[2] <= f[t]
  BY <1>1 DEF Column
<1>5. \A p : p \in new <=> p = <<t, p[2]>> /\ p[2] \in Nat /\ 1 <= p[2] /\ p[2] <= k
  BY <1>1 DEF Column
<1>6. \A p : p \in A <=> p = <<p[1], p[2]>> /\ p[1] \in S /\ p[2] \in Nat /\ 1 <= p[2] /\ p[2] <= f[p[1]]
  BY PointBelow
<1>7. \A p : p \in B <=> p = <<p[1], p[2]>> /\ p[1] \in S /\ p[2] \in Nat /\ 1 <= p[2] /\ p[2] <= g[p[1]]
  BY PointBelow
<1> HIDE DEF A, B, old, new
<1>8. A \cap old = old
  BY <1>4, <1>6
<1>9. \A p \in A \ old : p[1] # t
  BY <1>4, <1>6
<1>10. (A \ old) \cap new = {}
  BY <1>9, <1>5
<1>11. B = (A \ old) \cup new
  <2>1. ASSUME NEW p \in B PROVE p \in (A \ old) \cup new
    <3>1. CASE p[1] = t
      BY <1>5, <1>7, <3>1
    <3>2. CASE p[1] # t
      BY <1>4, <1>6, <1>7, <3>2
    <3> QED BY <3>1, <3>2
  <2>2. ASSUME NEW p \in A \ old PROVE p \in B
    BY <1>6, <1>7, <1>9
  <2>3. ASSUME NEW p \in new PROVE p \in B
    BY <1>1, <1>5, <1>7
  <2> QED BY <2>1, <2>2, <2>3
<1>12. IsFiniteSet(A \ old) /\ Cardinality(A \ old) = Cardinality(A) - f[t]
  <2>1. IsFiniteSet(A \ old) /\ Cardinality(A \ old) = Cardinality(A) - Cardinality(A \cap old)
    BY <1>2, FS_Difference
  <2> QED BY <1>3, <1>8, <2>1
<1>13. Cardinality(B) = Cardinality(A \ old) + k - Cardinality({})
  BY <1>3, <1>10, <1>11, <1>12, FS_Union
<1> QED BY <1>1, <1>2, <1>12, <1>13, FS_EmptySet

-----------------------------------------------------------------------------
LEMMA Monotone ==
  ASSUME NEW a \in Nat, NEW b \in Nat, NEW r \in Nat, a <= b
  PROVE  a * r \in Nat /\ a * r <= b * r
<1> DEFINE d == b - a
<1>1. d \in Nat /\ b = a + d
  OBVIOUS
<1>2. a * r \in Nat /\ d * r \in Nat
  BY <1>1
<1> HIDE DEF d
<1>3. (a + d) * r = a * r + d * r
  BY <1>1
<1> QED BY <1>1, <1>2, <1>3

\* The i-th point of the n-th payment of r lies in a stretch of its own.
LEMMA Stretch ==
  ASSUME NEW n \in Nat, NEW m \in Nat, NEW r \in Nat,
         NEW i \in Nat, 1 <= i, i <= r
  PROVE  /\ n * r + i \in Nat
         /\ n < m => n * r + i <= m * r
         /\ m <= n => m * r < n * r + i
<1>1. n * r \in Nat /\ m * r \in Nat /\ (n + 1) * r = n * r + r
  OBVIOUS
<1>2. n < m => (n + 1) * r <= m * r
  BY Monotone
<1>3. m <= n => m * r <= n * r
  BY Monotone
<1> QED BY <1>1, <1>2, <1>3

LEMMA StretchesApart ==
  ASSUME NEW n \in Nat, NEW m \in Nat, NEW r \in Nat,
         NEW i \in Nat, 1 <= i, i <= r, NEW j \in Nat, 1 <= j, j <= r,
         n * r + i = m * r + j
  PROVE  n = m /\ i = j
<1>1. ~ (n < m) /\ ~ (m < n)
  <2>1. n < m => n * r + i <= m * r
    BY Stretch
  <2>2. m < n => m * r + j <= n * r
    BY Stretch
  <2>3. n * r \in Nat /\ m * r \in Nat
    OBVIOUS
  <2> QED BY <2>1, <2>2, <2>3
<1>2. n = m
  BY <1>1
<1>3. n * r \in Nat
  OBVIOUS
<1> QED BY <1>2, <1>3

LEMMA StretchOf ==
  ASSUME NEW r \in Nat, r > 0, NEW p \in Nat, 1 <= p
  PROVE  \E n \in Nat, i \in Nat : 1 <= i /\ i <= r /\ p = n * r + i
<1> DEFINE n == (p - 1) \div r
<1>1. n \in Nat /\ n * r <= p - 1 /\ p - 1 < n * r + r /\ n * r \in Nat
  OBVIOUS
<1> HIDE DEF n
<1>2. p - n * r \in Nat /\ 1 <= p - n * r /\ p - n * r <= r /\ p = n * r + (p - n * r)
  BY <1>1
<1> QED BY <1>1, <1>2

(* Growing every value of f to g adds as many points as h has, when the     *)
(* points of h correspond to the new ones.                                  *)
LEMMA SumGrows ==
  ASSUME NEW S, IsFiniteSet(S), NEW f \in [S -> Nat], NEW g \in [S -> Nat],
         \A s \in S : f[s] <= g[s],
         NEW K, NEW h \in [K -> Nat],
         NEW F \in [Below(h) -> Below(g) \ Below(f)],
         \A p, q \in Below(h) : F[p] = F[q] => p = q,
         \A q \in Below(g) \ Below(f) : \E p \in Below(h) : F[p] = q
  PROVE  /\ IsFiniteSet(Below(h)) /\ SumOf(h) \in Nat
         /\ SumOf(g) = SumOf(f) + SumOf(h)
<1>1. /\ IsFiniteSet(Below(f)) /\ SumOf(f) = Cardinality(Below(f)) /\ SumOf(f) \in Nat
      /\ IsFiniteSet(Below(g)) /\ SumOf(g) = Cardinality(Below(g)) /\ SumOf(g) \in Nat
  BY SumType
<1>2. \A p \in Below(f) : p \in Below(g)
  <2> TAKE p \in Below(f)
  <2>1. p = <<p[1], p[2]>> /\ p[1] \in S /\ p[2] \in Nat /\ 1 <= p[2] /\ p[2] <= f[p[1]]
    BY PointBelow
  <2>2. p[2] <= g[p[1]]
    BY <2>1
  <2> QED BY <2>1, <2>2, PointBelow
<1>3. /\ IsFiniteSet(Below(g) \ Below(f))
      /\ Cardinality(Below(g) \ Below(f)) = Cardinality(Below(g)) - Cardinality(Below(g) \cap Below(f))
  BY <1>1, FS_Difference
<1>4. Below(g) \cap Below(f) = Below(f)
  BY <1>2
<1>5. IsFiniteSet(Below(h)) /\ Cardinality(Below(h)) = Cardinality(Below(g) \ Below(f))
  <2>1. F \in Injection(Below(h), Below(g) \ Below(f))
    BY DEF Injection, IsInjective
  <2>2. F \in Surjection(Below(h), Below(g) \ Below(f))
    BY DEF Surjection
  <2> QED BY <1>3, <2>1, <2>2, FS_Injection
<1>6. SumOf(h) = Cardinality(Below(h))
  BY DEF SumOf, Below, Column
<1>7. Cardinality(Below(h)) \in Nat
  BY <1>5, FS_CardinalityType
<1>8. Cardinality(Below(h)) = SumOf(g) - SumOf(f)
  BY <1>1, <1>3, <1>4, <1>5
<1> HIDE DEF Below
<1> QED BY <1>1, <1>5, <1>6, <1>7, <1>8
(* Payments of R[c] each, made under the keys K, one for every number from  *)
(* from[c] on: together they are what the number of payments has grown by.  *)
Numbered(C, R, from, to, K, of, nth) ==
  /\ IsFiniteSet(C) /\ R \in [C -> Nat]
  /\ from \in [C -> Nat] /\ to \in [C -> Nat] /\ \A c \in C : from[c] <= to[c]
  /\ of \in [K -> C] /\ nth \in [K -> Nat]
  /\ \A k \in K : from[of[k]] <= nth[k] /\ nth[k] < to[of[k]]
  /\ \A j, k \in K : of[j] = of[k] /\ nth[j] = nth[k] => j = k
  /\ \A c \in C, n \in Nat :
       R[c] > 0 /\ from[c] <= n /\ n < to[c] => \E k \in K : of[k] = c /\ nth[k] = n

Worths(C, R, n) == [c \in C |-> n[c] * R[c]]
Payments(K, R, of) == [k \in K |-> R[of[k]]]

LEMMA NumberedPayments ==
  ASSUME NEW C, NEW R, NEW from, NEW to, NEW K, NEW of, NEW nth,
         Numbered(C, R, from, to, K, of, nth)
  PROVE  /\ IsFiniteSet(Below(Payments(K, R, of))) /\ SumOf(Payments(K, R, of)) \in Nat
         /\ SumOf(Worths(C, R, to)) = SumOf(Worths(C, R, from)) + SumOf(Payments(K, R, of))
<1> DEFINE f == Worths(C, R, from)
           g == Worths(C, R, to)
           h == Payments(K, R, of)
<1> USE DEF Numbered
<1>0. /\ f = [c \in C |-> from[c] * R[c]] /\ g = [c \in C |-> to[c] * R[c]]
      /\ h = [k \in K |-> R[of[k]]]
  BY DEF Worths, Payments
<1> HIDE DEF f, g, h
<1>1. /\ f \in [C -> Nat] /\ g \in [C -> Nat] /\ h \in [K -> Nat]
      /\ \A c \in C : f[c] <= g[c]
  <2>1. \A c \in C : from[c] * R[c] \in Nat /\ to[c] * R[c] \in Nat /\ from[c] * R[c] <= to[c] * R[c]
    <3> TAKE c \in C
    <3>1. from[c] \in Nat /\ to[c] \in Nat /\ R[c] \in Nat /\ from[c] <= to[c]
      OBVIOUS
    <3>2. to[c] <= to[c]
      BY <3>1
    <3> QED BY <3>1, <3>2, Monotone
  <2> QED BY <1>0, <2>1
<1>2. \A p : p \in Below(h) <=>
        /\ p = <<p[1], p[2]>>
        /\ p[1] \in K /\ p[2] \in Nat /\ 1 <= p[2] /\ p[2] <= R[of[p[1]]]
  BY <1>0, <1>1, PointBelow
<1>3. \A p : p \in Below(g) \ Below(f) <=>
        /\ p = <<p[1], p[2]>> /\ p[1] \in C /\ p[2] \in Nat /\ 1 <= p[2]
        /\ from[p[1]] * R[p[1]] < p[2] /\ p[2] <= to[p[1]] * R[p[1]]
  <2> TAKE p
  <2>1. p \in Below(g) <=> /\ p = <<p[1], p[2]>> /\ p[1] \in C /\ p[2] \in Nat
                           /\ 1 <= p[2] /\ p[2] <= g[p[1]]
    BY <1>1, PointBelow
  <2>2. p \in Below(f) <=> /\ p = <<p[1], p[2]>> /\ p[1] \in C /\ p[2] \in Nat
                           /\ 1 <= p[2] /\ p[2] <= f[p[1]]
    BY <1>1, PointBelow
  <2>3. ASSUME p[1] \in C
        PROVE  /\ g[p[1]] = to[p[1]] * R[p[1]] /\ f[p[1]] = from[p[1]] * R[p[1]]
               /\ f[p[1]] \in Nat /\ g[p[1]] \in Nat
    BY <1>0, <1>1, <2>3
  <2> HIDE DEF Below
  <2> QED BY <2>1, <2>2, <2>3
<1> DEFINE F == [p \in Below(h) |-> <<of[p[1]], nth[p[1]] * R[of[p[1]]] + p[2]>>]
<1>4. \A p \in Below(h) : F[p] \in Below(g) \ Below(f)
  <2> SUFFICES ASSUME NEW p \in Below(h)
               PROVE  <<of[p[1]], nth[p[1]] * R[of[p[1]]] + p[2]>> \in Below(g) \ Below(f)
    OBVIOUS
  <2> DEFINE c == of[p[1]]
             n == nth[p[1]]
             i == p[2]
  <2>1. /\ p[1] \in K /\ i \in Nat /\ 1 <= i /\ i <= R[c] /\ c \in C /\ n \in Nat /\ R[c] \in Nat
        /\ from[c] \in Nat /\ to[c] \in Nat /\ from[c] <= n /\ n < to[c]
    BY <1>2
  <2> HIDE DEF c, n, i
  <2>2. /\ n * R[c] + i \in Nat /\ n * R[c] + i <= to[c] * R[c]
        /\ from[c] * R[c] < n * R[c] + i
    BY <2>1, Stretch
  <2>3. 1 <= n * R[c] + i
    <3>1. n * R[c] \in Nat
      BY <2>1
    <3> QED BY <2>1, <3>1
  <2>4. <<c, n * R[c] + i>> \in Below(g) \ Below(f)
    BY <1>3, <2>1, <2>2, <2>3
  <2> QED BY <2>4 DEF c, n, i
<1> DEFINE new == Below(g) \ Below(f)
<1>F. F \in [Below(h) -> new]
  BY <1>4
<1>5. ASSUME NEW p \in Below(h), NEW q \in Below(h), F[p] = F[q] PROVE p = q
  <2>1. /\ of[p[1]] = of[q[1]]
        /\ nth[p[1]] * R[of[p[1]]] + p[2] = nth[q[1]] * R[of[q[1]]] + q[2]
    BY <1>5
  <2>2. /\ p = <<p[1], p[2]>> /\ p[1] \in K /\ p[2] \in Nat /\ 1 <= p[2] /\ p[2] <= R[of[p[1]]]
        /\ q = <<q[1], q[2]>> /\ q[1] \in K /\ q[2] \in Nat /\ 1 <= q[2] /\ q[2] <= R[of[q[1]]]
    BY <1>2
  <2>3. nth[p[1]] \in Nat /\ nth[q[1]] \in Nat /\ R[of[p[1]]] \in Nat
    BY <2>2
  <2>4. nth[p[1]] = nth[q[1]] /\ p[2] = q[2]
    BY <2>1, <2>2, <2>3, StretchesApart
  <2> QED BY <2>1, <2>2, <2>4
<1>6. ASSUME NEW q \in new PROVE \E p \in Below(h) : F[p] = q
  <2> DEFINE c == q[1]
             r == R[c]
  <2>1. /\ q = <<c, q[2]>> /\ c \in C /\ q[2] \in Nat /\ 1 <= q[2]
        /\ from[c] * r < q[2] /\ q[2] <= to[c] * r
        /\ r \in Nat /\ from[c] \in Nat /\ to[c] \in Nat
    BY <1>3
  <2> HIDE DEF c, r
  <2>2. r > 0
    <3>1. r = 0 => to[c] * r = 0
      BY <2>1
    <3> QED BY <2>1, <3>1
  <2>3. PICK n \in Nat, i \in Nat : 1 <= i /\ i <= r /\ q[2] = n * r + i
    BY <2>1, <2>2, StretchOf
  <2>4. n * r + i \in Nat /\ to[c] * r \in Nat /\ from[c] * r \in Nat
    BY <2>1, <2>3
  <2>5. n < to[c]
    <3>1. to[c] <= n => to[c] * r < n * r + i
      BY <2>1, <2>3, Stretch
    <3> QED BY <2>1, <2>3, <2>4, <3>1
  <2>6. from[c] <= n
    <3>1. n < from[c] => n * r + i <= from[c] * r
      BY <2>1, <2>3, Stretch
    <3> QED BY <2>1, <2>3, <2>4, <3>1
  <2>7. PICK k \in K : of[k] = c /\ nth[k] = n
    BY <2>1, <2>2, <2>5, <2>6 DEF r
  <2>8. <<k, i>> \in Below(h)
    BY <1>2, <2>3, <2>7 DEF r
  <2>9. F[<<k, i>>] = <<c, n * r + i>>
    BY <2>7, <2>8 DEF r
  <2>10. F[<<k, i>>] = q
    BY <2>1, <2>3, <2>9
  <2> QED BY <2>8, <2>10
<1> HIDE DEF F
<1>7. /\ F \in [Below(h) -> Below(g) \ Below(f)]
      /\ \A p, q \in Below(h) : F[p] = F[q] => p = q
      /\ \A q \in Below(g) \ Below(f) : \E p \in Below(h) : F[p] = q
  BY <1>F, <1>5, <1>6
<1> HIDE DEF new, Numbered
<1>9. IsFiniteSet(C)
  BY DEF Numbered
<1>8. /\ IsFiniteSet(Below(h)) /\ SumOf(h) \in Nat
      /\ SumOf(g) = SumOf(f) + SumOf(h)
  BY ONLY <1>1, <1>7, <1>9, SumGrows, SMTT(60)
<1> QED BY <1>8 DEF f, g, h

(* A sum over 1..n is the sum of all but its last value, and that value.    *)
LEMMA SumOfNext ==
  ASSUME NEW n \in Nat \ {0}, NEW f \in [1..n -> Nat]
  PROVE  /\ SumOf([e \in 1..(n - 1) |-> f[e]]) \in Nat
         /\ SumOf(f) = SumOf([e \in 1..(n - 1) |-> f[e]]) + f[n]
<1> DEFINE g == [e \in 1..(n - 1) |-> f[e]]
           last == Column(n, f[n])
<1>1. g \in [1..(n - 1) -> Nat] /\ \A e \in 1..(n - 1) : g[e] = f[e]
  OBVIOUS
<1>2. IsFiniteSet(1..(n - 1)) /\ IsFiniteSet(1..n)
  <2>1. 1 \in Int /\ n - 1 \in Int /\ n \in Int
    OBVIOUS
  <2> QED BY <2>1, FS_Interval
<1>3. f[n] \in Nat
  OBVIOUS
<1> HIDE DEF g
<1>4. /\ IsFiniteSet(Below(g)) /\ SumOf(g) = Cardinality(Below(g)) /\ SumOf(g) \in Nat
      /\ SumOf(f) = Cardinality(Below(f))
  BY <1>1, <1>2, SumType
<1>5. IsFiniteSet(last) /\ Cardinality(last) = f[n]
  BY <1>3, ColumnSize
<1>6. \A p : p \in Below(g) <=> p = <<p[1], p[2]>> /\ p[1] \in 1..(n - 1) /\ p[2] \in Nat
                                 /\ 1 <= p[2] /\ p[2] <= g[p[1]]
  BY <1>1, PointBelow
<1>7. \A p : p \in Below(f) <=> p = <<p[1], p[2]>> /\ p[1] \in 1..n /\ p[2] \in Nat
                                 /\ 1 <= p[2] /\ p[2] <= f[p[1]]
  BY PointBelow
<1>8. \A p : p \in last <=> p = <<n, p[2]>> /\ p[2] \in Nat /\ 1 <= p[2] /\ p[2] <= f[n]
  BY <1>3 DEF Column
<1> HIDE DEF last
<1>9. Below(f) = Below(g) \cup last /\ Below(g) \cap last = {}
  <2>1. ASSUME NEW p \in Below(f) PROVE p \in Below(g) \cup last
    <3>1. CASE p[1] = n
      BY <1>7, <1>8, <3>1
    <3>2. CASE p[1] # n
      BY <1>1, <1>6, <1>7, <3>2
    <3> QED BY <3>1, <3>2
  <2>2. ASSUME NEW p \in Below(g) PROVE p \in Below(f) /\ p \notin last
    BY <1>1, <1>6, <1>7, <1>8
  <2>3. ASSUME NEW p \in last PROVE p \in Below(f)
    BY <1>7, <1>8
  <2> QED BY <2>1, <2>2, <2>3
<1>10. Cardinality(Below(f)) = Cardinality(Below(g)) + Cardinality(last) - Cardinality({})
  BY <1>4, <1>5, <1>9, FS_Union
<1> QED BY <1>3, <1>4, <1>5, <1>10, FS_EmptySet DEF g

(* The sum over two disjoint sets of keys.                                  *)
LEMMA SumOfTwo ==
  ASSUME NEW A, NEW B, A \cap B = {}, NEW h \in [A \cup B -> Nat],
         NEW f, f = [k \in A |-> h[k]], NEW g, g = [k \in B |-> h[k]],
         IsFiniteSet(Below(f)), IsFiniteSet(Below(g))
  PROVE  SumOf(h) = SumOf(f) + SumOf(g)
<1>1. f \in [A -> Nat] /\ g \in [B -> Nat]
  OBVIOUS
<1>2. \A p : p \in Below(f) <=> p = <<p[1], p[2]>> /\ p[1] \in A /\ p[2] \in Nat /\ 1 <= p[2] /\ p[2] <= h[p[1]]
  <2>1. \A p : p \in Below(f) <=> p = <<p[1], p[2]>> /\ p[1] \in A /\ p[2] \in Nat /\ 1 <= p[2] /\ p[2] <= f[p[1]]
    BY <1>1, PointBelow
  <2> HIDE DEF Below
  <2> QED BY <2>1
<1>3. \A p : p \in Below(g) <=> p = <<p[1], p[2]>> /\ p[1] \in B /\ p[2] \in Nat /\ 1 <= p[2] /\ p[2] <= h[p[1]]
  <2>1. \A p : p \in Below(g) <=> p = <<p[1], p[2]>> /\ p[1] \in B /\ p[2] \in Nat /\ 1 <= p[2] /\ p[2] <= g[p[1]]
    BY <1>1, PointBelow
  <2> QED BY <2>1
<1>4. \A p : p \in Below(h) <=> p = <<p[1], p[2]>> /\ p[1] \in A \cup B /\ p[2] \in Nat /\ 1 <= p[2] /\ p[2] <= h[p[1]]
  BY PointBelow
<1>5. Below(h) = Below(f) \cup Below(g) /\ Below(f) \cap Below(g) = {}
  BY <1>2, <1>3, <1>4
<1>6. Cardinality(Below(h)) = Cardinality(Below(f)) + Cardinality(Below(g)) - Cardinality({})
  BY <1>5, FS_Union
<1>7. /\ SumOf(f) = Cardinality(Below(f)) /\ SumOf(g) = Cardinality(Below(g))
      /\ SumOf(h) = Cardinality(Below(h))
  BY DEF SumOf, Below, Column
<1>8. Cardinality(Below(f)) \in Nat /\ Cardinality(Below(g)) \in Nat
  BY FS_CardinalityType
<1> QED BY <1>6, <1>7, <1>8, FS_EmptySet
=============================================================================
