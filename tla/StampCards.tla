----------------------------- MODULE StampCards -----------------------------
(***************************************************************************)
(* Challenges, stamp cards and badges of one member                        *)
(* (GamificationService.onEarnWithTx, run inside the transaction of every  *)
(* earn of the terminal gateway).                                          *)
(*                                                                         *)
(* The progress of a card is read, advanced in memory and written back as  *)
(* an absolute value.  What serializes two earns of a member is the row of *)
(* the points balance, which earnPoints updates before the cards are read; *)
(* an earn of no points updates no balance before it reads the cards.      *)
(***************************************************************************)
EXTENDS Sums

CONSTANTS
  Challenges,    \* the brand's enabled challenges
  Kind,          \* "visits", "spend" or "lifetime_points"
  Repeatable,    \* a repeatable challenge of visits is a stamp card
  Target,
  RewardPoints,  \* bonus points of a completion
  BadgeOf,       \* the badge a completion awards, or NoBadge
  Badges,
  NoBadge,
  BadgePoints,   \* bonus points that come with a badge
  Visits,        \* the sales: one idempotency key each
  Till,          \* the terminal that rings a sale up
  IsVisit,       \* a sale may say that it is not a visit
  Amount,        \* what is spent on it
  MaxAmount,     \* bound on what is spent on one sale
  Calls,         \* database transactions that may be open at once
  MinPoints,     \* the least and the most points a sale earns under the rules
  MaxPoints

NotYet == -1
Nobody == "nobody"
NoVisit == "none"

ASSUME StampCardsAssumption ==
  /\ Kind \in [Challenges -> {"visits", "spend", "lifetime_points"}]
  /\ Repeatable \in [Challenges -> BOOLEAN]
  /\ Target \in [Challenges -> Nat \ {0}]
  /\ RewardPoints \in [Challenges -> Nat]
  /\ BadgeOf \in [Challenges -> Badges \cup {NoBadge}] /\ NoBadge \notin Badges
  /\ BadgePoints \in [Badges -> Nat]
  /\ IsFiniteSet(Challenges) /\ IsFiniteSet(Badges)
  /\ Challenges \cap Badges = {}   \* "challenge:<id>" and "badge:<id>" in the keys
  /\ IsFiniteSet(Visits) /\ NoVisit \notin Visits /\ Nobody \notin Calls
  /\ IsVisit \in [Visits -> BOOLEAN]
  /\ MaxAmount \in Nat \ {0} /\ Amount \in [Visits -> 0..MaxAmount]
  /\ MinPoints \in Nat /\ MaxPoints \in Nat

VARIABLES
  card,       \* challenge_progress: where the member is on each challenge
  vouchers,   \* rewards issued for the completions of each challenge
  awarded,    \* badge_award
  lifetime,   \* posted_credits of the member's points account
  bonusKeys,  \* idempotency keys under which a bonus was earned
  txn,        \* terminal_transaction: the points of each finished sale
  lock,       \* the call that holds the row of the member's balance
  call,       \* the open transactions: sale, points, lifetime points to pass on
  seen,       \* the rows of challenge_progress each of them has read
  contested   \* challenges that two open transactions both move, and one of them
              \* locks no balance because its sale earns no points

tables == <<card, vouchers, awarded, lifetime, bonusKeys, txn>>

vars == <<card, vouchers, awarded, lifetime, bonusKeys, txn, lock, call, seen, contested>>

Row == [exists : BOOLEAN, progress : Nat, completions : Nat, completed : BOOLEAN]
NoRow == [exists |-> FALSE, progress |-> 0, completions |-> 0, completed |-> FALSE]

Unread == [exists |-> FALSE, progress |-> -1, completions |-> 0, completed |-> FALSE]

Closed == [visit |-> NoVisit, points |-> 0, life |-> 0]
NothingRead == [c \in Challenges |-> Unread]

Open(t) == call[t].visit # NoVisit

Init ==
  /\ card = [c \in Challenges |-> NoRow]
  /\ vouchers = [c \in Challenges |-> 0]
  /\ awarded = {}
  /\ lifetime = 0
  /\ bonusKeys = {}
  /\ txn = [v \in Visits |-> NotYet]
  /\ lock = Nobody
  /\ call = [t \in Calls |-> Closed]
  /\ seen = [t \in Calls |-> NothingRead]
  /\ contested = {}
-----------------------------------------------------------------------------
Increment(c, v) ==
  CASE Kind[c] = "visits" -> IF IsVisit[v] THEN 1 ELSE 0
    [] Kind[c] = "spend" -> Amount[v]
    [] OTHER -> 0

\* Mutant of TakesBalance: the earn does not wait for the balance row.
TakesBalanceUnlocked(t, n) == UNCHANGED lock

\* earnPoints updates the member's balance and so keeps its row to the end of
\* the transaction; an earn of no points does not call it.
TakesBalance(t, n) ==
  IF n > 0 THEN lock = Nobody /\ lock' = t ELSE UNCHANGED lock

\* A sale moves a challenge when it adds to it, finds no row of it, or writes
\* its progress anyway.
Moves(c, v) == Increment(c, v) > 0 \/ ~ card[c].exists \/ Kind[c] = "lifetime_points"

\* Challenges that sale v of n points and an open transaction both move, when
\* no balance row keeps the two apart.
Races(t, v, n) ==
  {c \in Challenges : \E u \in Calls \ {t} :
     /\ Open(u) /\ 0 \in {n, call[u].points}
     /\ Moves(c, v) /\ Moves(c, call[u].visit)}

\* A sale that is stored already is answered from its row; otherwise the rules
\* give it some points, and the lifetime points handed on are the balance's
\* after the earn, or 0 when nothing was earned.
Begin(t, v, n) ==
  /\ ~ Open(t)
  /\ txn[v] = NotYet
  /\ TakesBalance(t, n)
  /\ call' = [call EXCEPT ![t] =
       [visit |-> v, points |-> n, life |-> IF n > 0 THEN lifetime + n ELSE 0]]
  /\ contested' = contested \cup Races(t, v, n)
  /\ UNCHANGED <<tables, seen>>

\* The challenges are read one after the other: each sees what has been
\* committed by then.
ReadCard(t, c) ==
  /\ Open(t)
  /\ seen[t][c] = Unread
  /\ seen' = [seen EXCEPT ![t] = [@ EXCEPT ![c] = card[c]]]
  /\ UNCHANGED <<tables, lock, call, contested>>
-----------------------------------------------------------------------------
Reached(t, c) ==
  IF Kind[c] = "lifetime_points"
  THEN call[t].life
  ELSE seen[t][c].progress + Increment(c, call[t].visit)

\* Mutant of Fills: a big sale fills one card only.
FillsOne(t, c) ==
  IF (seen[t][c].completed /\ ~ Repeatable[c]) \/ Reached(t, c) < Target[c] THEN 0 ELSE 1

\* How many times the event completes the challenge.
Fills(t, c) ==
  IF (seen[t][c].completed /\ ~ Repeatable[c]) \/ Reached(t, c) < Target[c]
  THEN 0
  ELSE IF Repeatable[c] THEN Reached(t, c) \div Target[c] ELSE 1

\* The row upserted: a repeatable challenge carries its surplus over.
Advanced(t, c) ==
  [exists |-> TRUE,
   progress |-> IF Repeatable[c] THEN Reached(t, c) - Fills(t, c) * Target[c] ELSE Reached(t, c),
   completions |-> seen[t][c].completions + Fills(t, c),
   completed |-> ~ Repeatable[c] /\ (seen[t][c].completed \/ Fills(t, c) > 0)]

Writes(t, c) ==
  \/ Increment(c, call[t].visit) > 0
  \/ ~ seen[t][c].exists
  \/ Kind[c] = "lifetime_points"

\* Mutant of FillKeys: the key of a bonus does not number the completion.
FillKeysUnnumbered(t, c) ==
  IF RewardPoints[c] = 0 \/ Fills(t, c) = 0 THEN {} ELSE {<<Till[call[t].visit], c, 0>>}

\* The key of a bonus names the actor, the challenge and, for a repeatable one,
\* the number of the completion.
FillKeys(t, c) ==
  LET from == seen[t][c].completions IN
  IF RewardPoints[c] = 0 \/ Fills(t, c) = 0 THEN {}
  ELSE {<<Till[call[t].visit], c, n>> :
          n \in IF Repeatable[c] THEN (from + 1)..(from + Fills(t, c)) ELSE {0}}

\* A badge is awarded once to a member, whatever earns it.
NewBadges(t) ==
  {BadgeOf[c] : c \in {d \in Challenges : Fills(t, d) > 0}} \ (awarded \cup {NoBadge})

BadgeKeys(t) == {<<Till[call[t].visit], b, 0>> : b \in {x \in NewBadges(t) : BadgePoints[x] > 0}}

DueKeys(t) == BadgeKeys(t) \cup UNION {FillKeys(t, c) : c \in Challenges}

BonusOf(key) == IF key[2] \in Badges THEN BadgePoints[key[2]] ELSE RewardPoints[key[2]]

\* earnPoints under a key that is done replays its journal.
Bonuses(t) == SumOf([key \in DueKeys(t) \ bonusKeys |-> BonusOf(key)])

Ends(t) ==
  /\ lock' = IF lock = t THEN Nobody ELSE lock
  /\ call' = [call EXCEPT ![t] = Closed]
  /\ seen' = [seen EXCEPT ![t] = NothingRead]
  /\ UNCHANGED contested

\* The rewards and the cards are written and the transaction commits; its rows
\* are visible from here on.  A bonus needs the balance row, and a second
\* transaction for the same sale breaks the unique key of the sale.
Commit(t) ==
  LET v == call[t].visit IN
  /\ Open(t)
  /\ \A c \in Challenges : seen[t][c] # Unread
  /\ txn[v] = NotYet
  /\ DueKeys(t) = {} \/ lock \in {t, Nobody}
  /\ card' = [c \in Challenges |-> IF Writes(t, c) THEN Advanced(t, c) ELSE card[c]]
  /\ vouchers' = [c \in Challenges |-> vouchers[c] + Fills(t, c)]
  /\ awarded' = awarded \cup NewBadges(t)
  /\ lifetime' = lifetime + call[t].points + Bonuses(t)
  /\ bonusKeys' = bonusKeys \cup DueKeys(t)
  /\ txn' = [txn EXCEPT ![v] = call[t].points]
  /\ Ends(t)

\* The transaction fails or times out; the till may try the sale again.
GiveUp(t) ==
  /\ Open(t)
  /\ Ends(t)
  /\ UNCHANGED tables

Next ==
  \E t \in Calls :
    \/ \E v \in Visits, n \in MinPoints..MaxPoints : Begin(t, v, n)
    \/ \E c \in Challenges : ReadCard(t, c)
    \/ Commit(t)
    \/ GiveUp(t)

Spec == Init /\ [][Next]_vars
-----------------------------------------------------------------------------
(* Every variable holds what its column can hold.                           *)
TypeOK ==
  /\ card \in [Challenges -> Row]
  /\ vouchers \in [Challenges -> Nat]
  /\ awarded \subseteq Badges
  /\ lifetime \in Nat
  /\ txn \in [Visits -> Nat \cup {NotYet}]
  /\ lock \in Calls \cup {Nobody}
  /\ call \in [Calls -> [visit : Visits \cup {NoVisit}, points : Nat, life : Nat]]
  /\ seen \in [Calls -> [Challenges -> Row \cup {Unread}]]
  /\ contested \subseteq Challenges

\* What each finished sale is worth on a challenge, and what all of them are.
Worth(c) == [v \in Visits |-> IF txn[v] = NotYet THEN 0 ELSE Increment(c, v)]

Stamps(c) == SumOf(Worth(c))

Counted == {c \in Challenges : Kind[c] # "lifetime_points"}

(* Every finished sale is on the card once, one that earns no points too,   *)
(* whichever tills rang them up at the same time or more than once: those   *)
(* stamps are on the current card or went into a completed one.  A card     *)
(* that two open sales both move, one of them worth no points, may lose a   *)
(* stamp: that sale takes no lock before it reads the card, and writes back *)
(* what it made of it.                                                      *)
EveryStampCounts ==
  \A c \in Counted \ contested :
    card[c].progress + (IF Repeatable[c] THEN card[c].completions * Target[c] ELSE 0) = Stamps(c)

(* The customer gets the reward of a card exactly when the sales fill it:   *)
(* two tills that ring up the last stamp do not both issue it, a big sale   *)
(* that fills two cards issues two, a one-off challenge pays once, and a    *)
(* sale of no points issues what it fills and nothing else - except on a    *)
(* card that such a sale and another were moving at the same time.          *)
RewardPerFilledCard ==
  /\ \A c \in Counted \ contested :
       IF Repeatable[c]
       THEN vouchers[c] * Target[c] <= Stamps(c) /\ Stamps(c) < (vouchers[c] + 1) * Target[c]
       ELSE vouchers[c] = IF Stamps(c) >= Target[c] THEN 1 ELSE 0
  /\ \A c \in Challenges \ contested : vouchers[c] = card[c].completions

PointsEarned == [v \in Visits |-> IF txn[v] = NotYet THEN 0 ELSE txn[v]]

\* What the completions of each challenge, and the badges, are worth.
RewardsDue == [c \in Challenges |-> vouchers[c] * RewardPoints[c]]
BadgesDue == [b \in Badges |-> IF b \in awarded THEN BadgePoints[b] ELSE 0]

(* The member's lifetime points are what the sales earned, a bonus for each *)
(* completion and one for each badge: a bonus is neither paid twice nor     *)
(* swallowed as a replay of another, while no card was moved by two sales   *)
(* that no balance row kept apart.                                          *)
BonusesArePaidOnce ==
  contested = {} =>
    lifetime = SumOf(PointsEarned) + SumOf(RewardsDue) + SumOf(BadgesDue)
=============================================================================
