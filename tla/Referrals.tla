------------------------------ MODULE Referrals ------------------------------
(***************************************************************************)
(* Referral codes of one brand (ReferralService): a member hands out a     *)
(* code, a new member redeems it, and both are paid points through the     *)
(* ledger's earnPoints.                                                    *)
(*                                                                         *)
(* redeem is one transaction: it reads the code, then the brand's other    *)
(* referrals, and later pays and writes the code's row by id.  Only the    *)
(* ledger's idempotency keys, which name the caller and the code, are      *)
(* checked again when it commits.                                          *)
(***************************************************************************)
EXTENDS Naturals, FiniteSets

CONSTANTS Members,
          Codes,           \* rows of the table referral
          Calls,           \* transactions that may be open at once
          ReferrerReward,  \* REFERRER_REWARD and REFEREE_REWARD, in points
          RefereeReward,
          MonthlyCap,      \* REFERRER_MONTHLY_CAP
          None

ASSUME ReferralsAssumption ==
  /\ {ReferrerReward, RefereeReward, MonthlyCap} \subseteq Nat
  /\ IsFiniteSet(Codes) /\ IsFiniteSet(Members)
  /\ None \notin Members /\ None \notin Codes

VARIABLES
  referral,   \* the table referral
  recent,     \* codes whose qualified_at is within thirty days
  joined,     \* members who joined within NEW_MEMBER_WINDOW_DAYS
  points,     \* points each member was paid for referrals
  keys,       \* done idempotency keys: the caller and the code
  call,       \* the open transactions
  overlapped  \* redemptions that overlapped a related one

referralVars == <<referral, recent, joined, points, keys, call, overlapped>>

NoReferral == [status |-> "none", referrer |-> None, referee |-> None]
Idle == [pc |-> "idle", code |-> None, member |-> None]

ReferralsInit ==
  /\ referral = [c \in Codes |-> NoReferral]
  /\ recent = {}
  /\ joined = Members
  /\ points = [m \in Members |-> 0]
  /\ keys = {}
  /\ call = [t \in Calls |-> Idle]
  /\ overlapped = {}
-----------------------------------------------------------------------------
\* getOrCreateCode: the member's pending code, if there is one, is the answer.
FindCode(t, m) ==
  /\ call[t] = Idle
  /\ ~ \E c \in Codes : referral[c].status = "pending" /\ referral[c].referrer = m
  /\ call' = [call EXCEPT ![t] = [pc |-> "issuing", code |-> None, member |-> m]]
  /\ UNCHANGED <<referral, recent, joined, points, keys, overlapped>>

IssueCode(t, c) ==
  /\ call[t].pc = "issuing"
  /\ referral[c].status = "none"
  /\ referral' = [referral EXCEPT ![c] =
       [status |-> "pending", referrer |-> call[t].member, referee |-> None]]
  /\ call' = [call EXCEPT ![t] = Idle]
  /\ UNCHANGED <<recent, joined, points, keys, overlapped>>
-----------------------------------------------------------------------------
\* A redemption is a code and the member who redeems it.
Redeeming == {t \in Calls : call[t].pc \in {"found", "checked"}}
RedemptionOf(t) == <<call[t].code, call[t].member>>

Referrer(p) == referral[p[1]].referrer

\* The rules of redeem compare redemptions that share a code, a member or a
\* referrer, and those of two members who refer each other.
Reciprocal(p, q) == Referrer(p) = q[2] /\ Referrer(q) = p[2]
Related(p, q) ==
  \/ p[1] = q[1] \/ p[2] = q[2] \/ Referrer(p) = Referrer(q)
  \/ Reciprocal(p, q)

\* redeem reads the code: it must be pending, and not the member's own.
FindReferral(t, c, m) ==
  LET overlapping == {q \in {RedemptionOf(u) : u \in Redeeming} : Related(<<c, m>>, q)} IN
  /\ call[t] = Idle
  /\ referral[c].status = "pending" /\ referral[c].referrer # m
  /\ call' = [call EXCEPT ![t] = [pc |-> "found", code |-> c, member |-> m]]
  /\ overlapped' = overlapped \cup overlapping \cup (IF overlapping = {} THEN {} ELSE {<<c, m>>})
  /\ UNCHANGED <<referral, recent, joined, points, keys>>

Rewarded == {c \in Codes : referral[c].status = "rewarded"}

NotYetReferee(m) == \A c \in Rewarded : referral[c].referee # m

NotReciprocal(m, referrer) ==
  \A c \in Codes : ~ (referral[c].referrer = m /\ referral[c].referee = referrer)

\* Mutant of BelowCap: one more than the cap.
UpToCap(referrer) ==
  Cardinality({c \in recent : referral[c].referrer = referrer}) <= MonthlyCap

BelowCap(referrer) ==
  Cardinality({c \in recent : referral[c].referrer = referrer}) < MonthlyCap

\* The four rules, from what has been committed by now; a redemption that
\* breaks one is refused.
CheckRules(t) ==
  LET m == call[t].member
      referrer == referral[call[t].code].referrer
      passes == /\ NotYetReferee(m)
                /\ NotReciprocal(m, referrer)
                /\ m \in joined
                /\ BelowCap(referrer)
  IN /\ call[t].pc = "found"
     /\ call' = [call EXCEPT ![t] = IF passes THEN [@ EXCEPT !.pc = "checked"] ELSE Idle]
     /\ UNCHANGED <<referral, recent, joined, points, keys, overlapped>>

\* Mutant of Fresh: the rewards are earned under no key.
FreshAlways(m, c) == TRUE

\* Both earns are new to the ledger, or both are replayed: their keys name the
\* caller and the code, and are done together.
Fresh(m, c) == <<m, c>> \notin keys

\* The rewards, the row by id whatever it says by now, and the commit.
Reward(t) ==
  LET c == call[t].code
      m == call[t].member
      referrer == referral[c].referrer
      earned == [points EXCEPT ![referrer] = @ + ReferrerReward]
  IN /\ call[t].pc = "checked"
     /\ points' = IF Fresh(m, c) THEN [earned EXCEPT ![m] = @ + RefereeReward] ELSE points
     /\ keys' = keys \cup {<<m, c>>}
     /\ referral' = [referral EXCEPT ![c] =
          [status |-> "rewarded", referrer |-> referrer, referee |-> m]]
     /\ recent' = recent \cup {c}
     /\ call' = [call EXCEPT ![t] = Idle]
     /\ UNCHANGED <<joined, overlapped>>

\* A rollback: a statement fails, two redemptions deadlock on the members'
\* balances, or the key was taken by a transaction that committed meanwhile.
GiveUp(t) ==
  /\ call[t] # Idle
  /\ call' = [call EXCEPT ![t] = Idle]
  /\ UNCHANGED <<referral, recent, joined, points, keys, overlapped>>

\* Time passes: seven days since a member joined, thirty since a reward.
NoLongerNew(m) ==
  /\ m \in joined
  /\ joined' = joined \ {m}
  /\ UNCHANGED <<referral, recent, points, keys, call, overlapped>>

NoLongerRecent(c) ==
  /\ c \in recent
  /\ recent' = recent \ {c}
  /\ UNCHANGED <<referral, joined, points, keys, call, overlapped>>

ReferralsNext ==
  \/ \E t \in Calls :
       \/ \E m \in Members : FindCode(t, m)
       \/ \E c \in Codes : IssueCode(t, c)
       \/ \E c \in Codes, m \in Members : FindReferral(t, c, m)
       \/ CheckRules(t)
       \/ Reward(t)
       \/ GiveUp(t)
  \/ \E m \in Members : NoLongerNew(m)
  \/ \E c \in Codes : NoLongerRecent(c)

ReferralsSpec == ReferralsInit /\ [][ReferralsNext]_referralVars
-----------------------------------------------------------------------------
(* Every variable holds what its column can hold.                           *)
ReferralsTypeOK ==
  /\ referral \in [Codes -> [status : {"none", "pending", "rewarded"},
                            referrer : Members \cup {None}, referee : Members \cup {None}]]
  /\ recent \subseteq Codes
  /\ joined \subseteq Members
  /\ points \in [Members -> Nat]
  /\ keys \subseteq Members \X Codes
  /\ call \in [Calls -> [pc : {"idle", "issuing", "found", "checked"},
                        code : Codes \cup {None}, member : Members \cup {None}]]
  /\ overlapped \subseteq Codes \X Members

\* The redemptions that were paid.
Paid == {<<k[2], k[1]>> : k \in keys}

(* However often and however concurrently a member repeats a redemption, it *)
(* is paid once: each member's points are one reward for each redemption of *)
(* a code of theirs and one for each of their own, and a code marked as     *)
(* rewarded was paid to the referee it names.                               *)
RedemptionsArePaidOnce ==
  /\ \A m \in Members :
       points[m] = ReferrerReward * Cardinality({p \in Paid : Referrer(p) = m})
                   + RefereeReward * Cardinality({p \in Paid : p[2] = m})
  /\ \A c \in Rewarded : <<c, referral[c].referee>> \in Paid

(* "One-time referee, for life", "no reciprocal pair", a code used once and *)
(* the referrer's rolling cap: only redemptions that overlapped a related   *)
(* one can break them, although the rows they leave behind are overwritten. *)
RulesHoldOneAtATime ==
  /\ \A p, q \in Paid \ overlapped :
       p # q => p[1] # q[1] /\ p[2] # q[2] /\ ~ Reciprocal(p, q)
  /\ \A r \in Members :
       (\A p \in overlapped : Referrer(p) # r) =>
         Cardinality({c \in recent : referral[c].referrer = r}) <= MonthlyCap
=============================================================================
