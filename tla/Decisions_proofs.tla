-------------------------- MODULE Decisions_proofs ---------------------------
(***************************************************************************)
(* Proofs about the two services that read a row, decide on it, and write  *)
(* it later by id, whatever it says by then: the review of change requests *)
(* and the redemption of referral codes.  In both a history variable says  *)
(* which decisions overlapped, and the invariants say what the rest keeps. *)
(* They hold for every number of requests, entities, edits and reviews,    *)
(* and of members, codes and redemptions.                                  *)
(***************************************************************************)
EXTENDS ChangeRequests, Referrals, FiniteSetTheorems, TLAPS

(* Change requests.                                                         *)
Open(v, r) == review[v].request = r

(* What a review relies on: it holds a request or is free; one that has     *)
(* applied its change is an approval; and a request that is not disturbed   *)
(* has at most one review, and is pending while it has one.                 *)
Held(v) == review[v] = Free \/ (review[v].request \in Requests /\ review[v].to \in Decisions)

AppliedIfDone(v) ==
  review[v].done =>
    review[v].request \in Requests /\ review[v].to = "approved" /\ applied[review[v].request] > 0

Alone(r) ==
  \A v \in Reviews : Open(v, r) =>
    request[r].status = "pending" /\ \A w \in Reviews : Open(w, r) => v = w

ReviewsAreOrderly ==
  /\ \A v \in Reviews : Held(v) /\ AppliedIfDone(v)
  /\ \A r \in Requests \ disturbed : Alone(r)

ReviewInv == TypeOK /\ ReviewsAreOrderly /\ ApprovedWasApplied /\ DecidedOnce

LEMMA InitReviews == Init => ReviewInv
<1> SUFFICES ASSUME Init PROVE ReviewInv
  OBVIOUS
<1> USE DEF Init, Free, NoChange, Asks
<1>1. TypeOK
  BY ChangeRequestsAssumption DEF TypeOK, Status, Decisions, Unused
<1>2. ReviewsAreOrderly
  BY ChangeRequestsAssumption DEF ReviewsAreOrderly, Held, AppliedIfDone, Alone, Open
<1>3. ApprovedWasApplied
  BY DEF ApprovedWasApplied
<1>4. DecidedOnce
  BY DEF DecidedOnce, Applying, Decisions
<1> QED BY <1>1, <1>2, <1>3, <1>4 DEF ReviewInv

Others(v) == \A w \in Reviews \ {v} : review'[w] = review[w]

LEMMA ReviewWritten ==
  ASSUME TypeOK, NEW v \in Reviews, NEW x, review' = [review EXCEPT ![v] = x]
  PROVE  review'[v] = x /\ Others(v)
BY DEF TypeOK, Others

(* A review that ends leaves the others in order: a request that is not     *)
(* disturbed has no other.                                                  *)
LEMMA EndKeepsOrder ==
  ASSUME ReviewInv, NEW v \in Reviews, review'[v] = Free, Others(v),
         UNCHANGED applied, disturbed \subseteq disturbed',
         \A r \in Requests : ~ Open(v, r) => request'[r] = request[r]
  PROVE  ReviewsAreOrderly'
<1>1. ASSUME NEW w \in Reviews PROVE (Held(w) /\ AppliedIfDone(w))'
  <2>1. CASE w = v
    BY <2>1 DEF Held, AppliedIfDone, Free
  <2>2. CASE w # v
    <3>1. review'[w] = review[w] /\ Held(w) /\ AppliedIfDone(w)
      BY <2>2 DEF ReviewInv, ReviewsAreOrderly, Others
    <3> QED BY <3>1 DEF Held, AppliedIfDone
  <2> QED BY <2>1, <2>2
<1>2. ASSUME NEW r \in Requests \ disturbed' PROVE Alone(r)'
  <2>1. Alone(r) /\ r # NoRequest
    BY ChangeRequestsAssumption DEF ReviewInv, ReviewsAreOrderly
  <2>2. \A w \in Reviews : Open(w, r)' => w # v /\ Open(w, r)
    BY <2>1 DEF Open, Others, Free
  <2>3. CASE Open(v, r)
    BY <2>1, <2>2, <2>3 DEF Alone
  <2>4. CASE ~ Open(v, r)
    BY <2>1, <2>2, <2>4 DEF Alone
  <2> QED BY <2>3, <2>4
<1> QED BY <1>1, <1>2 DEF ReviewsAreOrderly

LEMMA ApplyingChange ==
  ASSUME NEW v \in Reviews, Others(v), NEW q,
         (Open(v, q) /\ review[v].done) <=> (Open(v, q) /\ review[v].done)'
  PROVE  Applying(q)' <=> Applying(q)
BY DEF Applying, Others, Open

(* What no review looks at: the mode, the entities and the brand's edits.   *)
LEMMA EditsKeepReviews ==
  ASSUME ReviewInv, TypeOK', UNCHANGED <<request, audit, applied, review, disturbed>>
  PROVE  ReviewInv'
BY DEF ReviewInv, ReviewsAreOrderly, Held, AppliedIfDone, Alone, Open, ApprovedWasApplied,
       DecidedOnce, Applying

LEMMA SubmitKeepsReviews ==
  ASSUME ReviewInv, NEW r \in Requests, NEW c \in Changes, Submit(r, c)
  PROVE  ReviewInv'
<1> USE DEF Submit, Asks
<1>1. c \in Change
  BY ChangeRequestsAssumption
<1>2. TypeOK'
  BY <1>1 DEF ReviewInv, TypeOK, Change, Status, Actions
<1>3. ReviewsAreOrderly'
  BY DEF ReviewInv, TypeOK, ReviewsAreOrderly, Held, AppliedIfDone, Alone, Open
<1>4. ApprovedWasApplied'
  BY DEF ReviewInv, TypeOK, ApprovedWasApplied
<1>5. DecidedOnce'
  BY DEF ReviewInv, TypeOK, DecidedOnce, Applying, Decisions
<1> QED BY <1>2, <1>3, <1>4, <1>5 DEF ReviewInv

LEMMA StartKeepsReviews ==
  ASSUME ReviewInv, NEW v \in Reviews, NEW r \in Requests, NEW to \in Decisions,
         StartReview(v, r, to)
  PROVE  ReviewInv'
<1> USE DEF StartReview, Reviewable
<1>0. r # NoRequest
  BY ChangeRequestsAssumption
<1>1. TypeOK'
  BY DEF ReviewInv, TypeOK
<1>2. ReviewsAreOrderly'
  <2>1. review'[v] = [request |-> r, to |-> to, done |-> FALSE] /\ Others(v) /\ review[v] = Free
    BY ReviewWritten DEF ReviewInv
  <2>2. ASSUME NEW w \in Reviews PROVE (Held(w) /\ AppliedIfDone(w))'
    BY <2>1 DEF ReviewInv, ReviewsAreOrderly, Held, AppliedIfDone, Others
  <2>3. ASSUME NEW q \in Requests \ disturbed' PROVE Alone(q)'
    <3>1. q \in Requests \ disturbed /\ Alone(q)
      BY DEF ReviewInv, ReviewsAreOrderly
    <3>2. CASE q = r
      BY <2>1, <3>1, <3>2 DEF Alone, Open, Others
    <3>3. CASE q # r
      BY <2>1, <3>1, <3>3 DEF Alone, Open, Others
    <3> QED BY <3>2, <3>3
  <2> QED BY <2>2, <2>3 DEF ReviewsAreOrderly
<1>3. ApprovedWasApplied'
  BY DEF ReviewInv, ApprovedWasApplied
<1>4. DecidedOnce'
  <2> SUFFICES ASSUME NEW q \in Requests \ disturbed'
               PROVE  /\ applied[q] = IF request[q].status = "approved" \/ Applying(q)' THEN 1 ELSE 0
                      /\ audit[q] = IF request[q].status \in Decisions
                                    THEN <<request[q].status>> ELSE <<>>
    BY DEF DecidedOnce
  <2>1. Applying(q)' <=> Applying(q)
    <3>1. Others(v) /\ ~ review'[v].done /\ ~ review[v].done
      <4>1. TypeOK /\ review[v] = Free
        BY DEF ReviewInv
      <4>2. review'[v] = [request |-> r, to |-> to, done |-> FALSE] /\ Others(v)
        BY <4>1, ReviewWritten
      <4> QED BY <4>1, <4>2 DEF Free
    <3> QED BY <3>1, ApplyingChange
  <2>2. q \in Requests \ disturbed
    OBVIOUS
  <2> QED BY <2>1, <2>2 DEF ReviewInv, DecidedOnce
<1> QED BY <1>1, <1>2, <1>3, <1>4 DEF ReviewInv

LEMMA ApplyKeepsReviews ==
  ASSUME ReviewInv, TypeOK', NEW v \in Reviews, Apply(v)
  PROVE  ReviewInv'
<1> DEFINE r == review[v].request
<1> USE DEF Apply
<1>1. r \in Requests /\ applied[r] \in Nat
  BY DEF ReviewInv, TypeOK, ReviewsAreOrderly, Held, Free
<1>0. /\ Others(v)
      /\ review'[v] = [request |-> r, to |-> "approved", done |-> TRUE]
      /\ applied'[r] = applied[r] + 1
      /\ \A q \in Requests \ {r} : applied'[q] = applied[q]
  BY <1>1 DEF ReviewInv, TypeOK, Others
<1>2. ReviewsAreOrderly'
  <2>1. ASSUME NEW w \in Reviews PROVE (Held(w) /\ AppliedIfDone(w))'
    <3>1. Held(w) /\ AppliedIfDone(w)
      BY DEF ReviewInv, ReviewsAreOrderly
    <3>2. CASE w = v
      BY <1>0, <1>1, <3>2 DEF Held, AppliedIfDone, Decisions
    <3>3. CASE w # v
      <4>1. applied'[review[w].request] > 0 \/ ~ review[w].done
        BY <1>0, <1>1, <3>1 DEF AppliedIfDone, ReviewInv, TypeOK
      <4> QED BY <1>0, <3>1, <3>3, <4>1 DEF Held, AppliedIfDone, Others
    <3> QED BY <3>2, <3>3
  <2>2. ASSUME NEW q \in Requests \ disturbed' PROVE Alone(q)'
    BY <1>0 DEF ReviewInv, ReviewsAreOrderly, Alone, Open, Others
  <2> QED BY <2>1, <2>2 DEF ReviewsAreOrderly
<1>3. ApprovedWasApplied'
  BY <1>1 DEF ReviewInv, TypeOK, ApprovedWasApplied
<1>4. DecidedOnce'
  <2> SUFFICES ASSUME NEW q \in Requests \ disturbed
               PROVE  /\ applied'[q] = IF request[q].status = "approved" \/ Applying(q)' THEN 1 ELSE 0
                      /\ audit[q] = IF request[q].status \in Decisions
                                    THEN <<request[q].status>> ELSE <<>>
    BY DEF DecidedOnce
  <2>1. CASE q = r
    <3>1. request[q].status = "pending" /\ ~ Applying(q)
      BY <2>1, <1>1 DEF ReviewInv, ReviewsAreOrderly, Alone, Open, Applying
    <3>2. Applying(q)'
      BY <2>1, <1>0 DEF Applying
    <3>3. applied[q] = 0 /\ audit[q] = <<>>
      BY <3>1 DEF ReviewInv, DecidedOnce, Decisions
    <3>4. applied'[q] = 1
      BY <2>1, <3>3, <1>0
    <3> QED BY <3>1, <3>2, <3>3, <3>4 DEF Decisions
  <2>2. CASE q # r
    <3>1. Applying(q)' <=> Applying(q)
      BY <2>2, <1>0, ApplyingChange DEF Open
    <3> QED BY <2>2, <3>1, <1>0 DEF ReviewInv, DecidedOnce
  <2> QED BY <2>1, <2>2
<1> QED BY <1>2, <1>3, <1>4 DEF ReviewInv

LEMMA FailKeepsReviews ==
  ASSUME ReviewInv, NEW v \in Reviews, FailApply(v)
  PROVE  ReviewInv'
<1> USE DEF FailApply
<1>1. TypeOK'
  BY DEF ReviewInv, TypeOK, Free
<1>0. review'[v] = Free /\ Others(v)
  BY ReviewWritten DEF ReviewInv
<1>2. ReviewsAreOrderly'
  BY <1>0, EndKeepsOrder
<1>3. ApprovedWasApplied'
  BY DEF ReviewInv, ApprovedWasApplied
<1>4. \A q : Applying(q)' <=> Applying(q)
  BY <1>0, ApplyingChange DEF Free
<1>5. DecidedOnce'
  BY <1>4 DEF ReviewInv, DecidedOnce
<1> QED BY <1>1, <1>2, <1>3, <1>5 DEF ReviewInv

LEMMA RecordKeepsReviews ==
  ASSUME ReviewInv, NEW v \in Reviews, Record(v)
  PROVE  ReviewInv'
<1> DEFINE r == review[v].request
           to == review[v].to
<1> USE DEF Record
<1>1. r \in Requests /\ to \in Decisions /\ audit[r] \in Seq(Decisions)
  BY DEF ReviewInv, TypeOK, ReviewsAreOrderly, Held
<1>0. /\ review'[v] = Free /\ Others(v)
      /\ request'[r].status = to /\ audit'[r] = Append(audit[r], to)
      /\ \A q \in Requests \ {r} : request'[q] = request[q] /\ audit'[q] = audit[q]
  <2>1. review'[v] = Free /\ Others(v)
    BY ReviewWritten DEF ReviewInv
  <2>2. request'[r].status = to /\ \A q \in Requests \ {r} : request'[q] = request[q]
    BY <1>1 DEF ReviewInv, TypeOK
  <2>3. audit'[r] = Append(audit[r], to) /\ \A q \in Requests \ {r} : audit'[q] = audit[q]
    BY <1>1 DEF ReviewInv, TypeOK
  <2> QED BY <2>1, <2>2, <2>3
<1>2. TypeOK'
  <2> DEFINE R == [status : Status, action : Actions \cup {"none"},
                   entity : Entities \cup {NoEntity}]
  <2>1. request' \in [Requests -> R]
    <3>1. request \in [Requests -> R]
      BY DEF ReviewInv, TypeOK
    <3>2. [request[r] EXCEPT !.status = to] \in R
      BY <3>1, <1>1 DEF Status
    <3>3. request' = [request EXCEPT ![r] = [request[r] EXCEPT !.status = to]]
      OBVIOUS
    <3> HIDE DEF R, r, to
    <3> QED BY <3>1, <3>2, <3>3
  <2>2. audit' \in [Requests -> Seq(Decisions)]
    BY <1>1 DEF ReviewInv, TypeOK
  <2>3. review' \in [Reviews -> [request : Requests \cup {NoRequest},
                                to : Decisions \cup {"none"}, done : BOOLEAN]]
    BY DEF ReviewInv, TypeOK, Free
  <2> QED BY <2>1, <2>2, <2>3 DEF ReviewInv, TypeOK
<1>3. ReviewsAreOrderly'
  BY <1>0, EndKeepsOrder DEF Open
<1>4. ApprovedWasApplied'
  BY <1>0, <1>1 DEF ReviewInv, ReviewsAreOrderly, AppliedIfDone, ApprovedWasApplied, Ready
<1>5. DecidedOnce'
  <2> SUFFICES ASSUME NEW q \in Requests \ disturbed
               PROVE  /\ applied[q] = IF request'[q].status = "approved" \/ Applying(q)' THEN 1 ELSE 0
                      /\ audit'[q] = IF request'[q].status \in Decisions
                                     THEN <<request'[q].status>> ELSE <<>>
    BY DEF DecidedOnce
  <2>1. CASE q = r
    <3>1. request[q].status = "pending" /\ \A w \in Reviews : Open(w, q) => w = v
      BY <2>1, <1>1 DEF ReviewInv, ReviewsAreOrderly, Alone, Open
    <3>2. ~ Applying(q)'
      BY <2>1, <3>1, <1>0 DEF Applying, Open, Others, Free
    <3>3. Applying(q) <=> to = "approved"
      BY <2>1, <3>1, <1>1 DEF ReviewInv, ReviewsAreOrderly, AppliedIfDone, Applying, Open, Ready
    <3>4. audit[q] = <<>> /\ applied[q] = IF to = "approved" THEN 1 ELSE 0
      BY <3>1, <3>3 DEF ReviewInv, DecidedOnce, Decisions
    <3>5. request'[q].status = to /\ audit'[q] = <<to>>
      BY <2>1, <1>0, <1>1, <3>4
    <3> QED BY <3>2, <3>4, <3>5, <1>1
  <2>2. CASE q # r
    <3>1. Applying(q)' <=> Applying(q)
      BY <2>2, <1>0, ApplyingChange DEF Open, Free
    <3> QED BY <2>2, <3>1, <1>0 DEF ReviewInv, DecidedOnce
  <2> QED BY <2>1, <2>2
<1> QED BY <1>2, <1>3, <1>4, <1>5 DEF ReviewInv

LEMMA DeathKeepsReviews ==
  ASSUME ReviewInv, NEW v \in Reviews, Die(v)
  PROVE  ReviewInv'
<1> USE DEF Die
<1>1. TypeOK'
  BY DEF ReviewInv, TypeOK, ReviewsAreOrderly, AppliedIfDone, Free
<1>0. review'[v] = Free /\ Others(v)
  BY ReviewWritten DEF ReviewInv
<1>2. ReviewsAreOrderly'
  BY <1>0, EndKeepsOrder
<1>3. ApprovedWasApplied'
  BY DEF ReviewInv, ApprovedWasApplied
<1>4. \A q \in Requests \ disturbed' : Applying(q)' <=> Applying(q)
  BY <1>0, ApplyingChange DEF Open, Free
<1>5. DecidedOnce'
  BY <1>4 DEF ReviewInv, DecidedOnce
<1> QED BY <1>1, <1>2, <1>3, <1>5 DEF ReviewInv

(* An applier writes one entity, or none.                                   *)
LEMMA AppliersKeepTypes ==
  ASSUME TypeOK, NEW action, NEW e, NEW by \in Requests \cup {"edit"}, Applies(action, e, by)
  PROVE  entity' \in [Entities -> Requests \cup {Unused, Deleted, "seed", "edit"}]
BY DEF TypeOK, Applies

LEMMA NextKeepsReviews == ReviewInv /\ [Next]_vars => ReviewInv'
<1> SUFFICES ASSUME ReviewInv, [Next]_vars PROVE ReviewInv'
  OBVIOUS
<1>1. ASSUME NEW new \in Modes, SetMode(new) PROVE ReviewInv'
  <2>1. TypeOK'
    BY <1>1 DEF SetMode, ReviewInv, TypeOK
  <2> QED BY <1>1, <2>1, EditsKeepReviews DEF SetMode
<1>2. ASSUME NEW k \in Makers, NEW c \in Changes, PassThrough(k, c) PROVE ReviewInv'
  <2>1. TypeOK'
    BY <1>2, ChangeRequestsAssumption DEF PassThrough, ReviewInv, TypeOK
  <2> QED BY <1>2, <2>1, EditsKeepReviews DEF PassThrough
<1>3. ASSUME NEW k \in Makers, Edit(k) PROVE ReviewInv'
  <2>1. entity' \in [Entities -> Requests \cup {Unused, Deleted, "seed", "edit"}]
    BY <1>3, AppliersKeepTypes DEF Edit, ReviewInv, TypeOK
  <2>2. TypeOK'
    BY <1>3, <2>1 DEF Edit, ReviewInv, TypeOK
  <2> QED BY <1>3, <2>2, EditsKeepReviews DEF Edit
<1>4. ASSUME NEW v \in Reviews, Apply(v) PROVE ReviewInv'
  <2>1. review[v].request \in Requests
    BY <1>4 DEF Apply, ReviewInv, ReviewsAreOrderly, Held, Free
  <2>2. entity' \in [Entities -> Requests \cup {Unused, Deleted, "seed", "edit"}]
    BY <1>4, <2>1, AppliersKeepTypes DEF Apply, ReviewInv
  <2>3. TypeOK'
    <3>1. applied' \in [Requests -> Nat]
      BY <1>4, <2>1 DEF Apply, ReviewInv, TypeOK
    <3>2. review' \in [Reviews -> [request : Requests \cup {NoRequest},
                                  to : Decisions \cup {"none"}, done : BOOLEAN]]
      BY <1>4 DEF Apply, ReviewInv, TypeOK
    <3> QED BY <1>4, <2>2, <3>1, <3>2 DEF Apply, ReviewInv, TypeOK
  <2> QED BY <1>4, <2>3, ApplyKeepsReviews
<1>5. CASE UNCHANGED vars
  <2>1. TypeOK'
    BY <1>5 DEF vars, ReviewInv, TypeOK
  <2> QED BY <1>5, <2>1, EditsKeepReviews DEF vars
<1> QED BY <1>1, <1>2, <1>3, <1>4, <1>5, SubmitKeepsReviews, StartKeepsReviews,
          FailKeepsReviews, RecordKeepsReviews, DeathKeepsReviews DEF Next

(* However many reviews overlap or die, the bookkeeping of reviews holds.   *)
THEOREM ReviewsStayOrderly == Spec => []ReviewInv
BY InitReviews, NextKeepsReviews, PTL DEF Spec

(* A request shown as approved took effect.                                 *)
THEOREM ApprovalsTakeEffect == Spec => []ApprovedWasApplied
<1>1. ReviewInv => ApprovedWasApplied
  BY DEF ReviewInv
<1> QED BY <1>1, ReviewsStayOrderly, PTL

(* Without overlap or death, a request is decided once and its change is    *)
(* applied exactly when it is approved.                                     *)
THEOREM RequestsAreDecidedOnce == Spec => []DecidedOnce
<1>1. ReviewInv => DecidedOnce
  BY DEF ReviewInv
<1> QED BY <1>1, ReviewsStayOrderly, PTL
-----------------------------------------------------------------------------
(* Referral codes.                                                          *)
Issued(c) == referral[c].status \in {"pending", "rewarded"}

\* A code belongs to the member it was issued to, and is pending or rewarded.
RowsAreIssued ==
  \A c \in Codes :
    \/ referral[c] = NoReferral
    \/ /\ Issued(c) /\ referral[c].referrer \in Members
       /\ referral[c].status = "rewarded" => referral[c].referee \in Members

\* A redemption under way is of another member's code.
CallKnows(t) ==
  /\ call[t].pc = "issuing" => call[t].member \in Members
  /\ t \in Redeeming =>
       /\ call[t].code \in Codes /\ call[t].member \in Members
       /\ Issued(call[t].code)
       /\ referral[call[t].code].referrer # call[t].member

CallsKnow == \A t \in Calls : CallKnows(t)

PaidIsRewarded ==
  /\ recent \subseteq Rewarded
  /\ \A p \in overlapped : Issued(p[1])
  /\ \A p \in Paid : p[1] \in Rewarded

(* What history remembers: of two related redemptions under way, both; and  *)
(* whoever redeems a code that has been paid meanwhile, with whom it was    *)
(* paid to.                                                                 *)
OverlapsAreKnown ==
  /\ \A t, u \in Redeeming :
       t # u /\ Related(RedemptionOf(t), RedemptionOf(u)) =>
         RedemptionOf(t) \in overlapped /\ RedemptionOf(u) \in overlapped
  /\ \A t \in Redeeming, p \in Paid :
       p[1] = call[t].code => p \in overlapped /\ RedemptionOf(t) \in overlapped

\* The row of an undisturbed redemption is not overwritten.
RefereesAreNamed == \A p \in Paid \ overlapped : referral[p[1]].referee = p[2]

Clean(r) == \A p \in overlapped : Referrer(p) # r

\* What CheckRules found still holds when the reward is paid.
CheckedKeeps(t) ==
  call[t].pc = "checked" =>
    /\ RedemptionOf(t) \notin overlapped =>
         \A p \in Paid \ overlapped :
           p[2] # call[t].member /\ ~ Reciprocal(p, RedemptionOf(t))
    /\ Clean(Referrer(RedemptionOf(t))) => BelowCap(Referrer(RedemptionOf(t)))

CheckedKeepRules == \A t \in Redeeming : CheckedKeeps(t)

ReferralsInv ==
  /\ ReferralsTypeOK
  /\ RowsAreIssued
  /\ CallsKnow
  /\ PaidIsRewarded
  /\ OverlapsAreKnown
  /\ RefereesAreNamed
  /\ CheckedKeepRules
  /\ RedemptionsArePaidOnce
  /\ RulesHoldOneAtATime
-----------------------------------------------------------------------------
LEMMA PaidKeys ==
  ASSUME ReferralsTypeOK
  PROVE  /\ \A c, m : <<c, m>> \in Paid <=> <<m, c>> \in keys
         /\ \A p \in Paid : p \in Codes \X Members /\ p = <<p[1], p[2]>>
         /\ \A p \in overlapped : p[1] \in Codes /\ p[2] \in Members /\ p = <<p[1], p[2]>>
<1>1. \A k \in keys : k = <<k[1], k[2]>> /\ k[1] \in Members /\ k[2] \in Codes
  BY DEF ReferralsTypeOK
<1>2. \A p : p \in Paid <=> \E k \in keys : p = <<k[2], k[1]>>
  BY DEF Paid
<1>3. \A c, m : <<c, m>> \in Paid <=> <<m, c>> \in keys
  BY <1>1, <1>2
<1>4. \A p \in Paid : p \in Codes \X Members /\ p = <<p[1], p[2]>>
  BY <1>1, <1>2
<1> QED BY <1>3, <1>4 DEF ReferralsTypeOK

RecentOf(r) == {c \in recent : referral[c].referrer = r}
PaidTo(m) == {p \in Paid : Referrer(p) = m}
PaidBy(m) == {p \in Paid : p[2] = m}

LEMMA FiniteBooks ==
  ASSUME ReferralsTypeOK
  PROVE  /\ \A r : IsFiniteSet(RecentOf(r)) /\ Cardinality(RecentOf(r)) \in Nat
         /\ \A m : /\ IsFiniteSet(PaidTo(m)) /\ Cardinality(PaidTo(m)) \in Nat
                   /\ IsFiniteSet(PaidBy(m)) /\ Cardinality(PaidBy(m)) \in Nat
<1>1. ASSUME NEW r PROVE IsFiniteSet(RecentOf(r))
  <2>1. RecentOf(r) \subseteq Codes
    BY DEF ReferralsTypeOK, RecentOf
  <2> QED BY <2>1, FS_Subset, ReferralsAssumption
<1>2. IsFiniteSet(Codes \X Members)
  BY FS_Product, ReferralsAssumption
<1>3. ASSUME NEW m PROVE IsFiniteSet(PaidTo(m)) /\ IsFiniteSet(PaidBy(m))
  <2>1. PaidTo(m) \subseteq Codes \X Members /\ PaidBy(m) \subseteq Codes \X Members
    BY PaidKeys DEF PaidTo, PaidBy
  <2> QED BY <1>2, <2>1, FS_Subset
<1> QED BY <1>1, <1>3, FS_CardinalityType

LEMMA FewerRecent ==
  ASSUME ReferralsTypeOK, recent' \subseteq recent, UNCHANGED referral, NEW r
  PROVE  /\ Cardinality(RecentOf(r)') \in Nat
         /\ Cardinality(RecentOf(r)') <= Cardinality(RecentOf(r))
<1>1. RecentOf(r)' \subseteq RecentOf(r)
  BY DEF RecentOf
<1> QED BY <1>1, FiniteBooks, FS_Subset, FS_CardinalityType

LEMMA InitRefers == ReferralsInit => ReferralsInv
<1> SUFFICES ASSUME ReferralsInit PROVE ReferralsInv
  OBVIOUS
<1> USE DEF ReferralsInit, NoReferral, Idle
<1>1. Paid = {} /\ Redeeming = {} /\ Rewarded = {}
  BY DEF Paid, Redeeming, Rewarded
<1>2. ReferralsTypeOK
  BY DEF ReferralsTypeOK
<1>3. RowsAreIssued /\ CallsKnow
  BY <1>1 DEF RowsAreIssued, CallsKnow, CallKnows
<1>4. PaidIsRewarded /\ OverlapsAreKnown /\ RefereesAreNamed /\ CheckedKeepRules
  BY <1>1 DEF PaidIsRewarded, OverlapsAreKnown, RefereesAreNamed, CheckedKeepRules, CheckedKeeps
<1>5. RedemptionsArePaidOnce
  <2>1. \A m \in Members : {p \in Paid : Referrer(p) = m} = {} /\ {p \in Paid : p[2] = m} = {}
    BY <1>1
  <2> QED BY <1>1, <2>1, FS_EmptySet, ReferralsAssumption DEF RedemptionsArePaidOnce
<1>6. RulesHoldOneAtATime
  <2>1. \A r \in Members : {c \in recent : referral[c].referrer = r} = {}
    OBVIOUS
  <2> QED BY <1>1, <2>1, FS_EmptySet, ReferralsAssumption DEF RulesHoldOneAtATime
<1> QED BY <1>2, <1>3, <1>4, <1>5, <1>6 DEF ReferralsInv
(* Steps that write no row but let rewards grow old, and end calls or begin *)
(* to issue a code.                                                         *)
LEMMA QuietKeepsRules ==
  ASSUME ReferralsInv, ReferralsTypeOK', UNCHANGED <<referral, points, keys, overlapped>>,
         recent' \subseteq recent,
         \A t \in Calls : \/ call'[t] = call[t]
                          \/ call'[t].pc = "idle"
                          \/ call'[t].pc = "issuing" /\ call'[t].member \in Members
  PROVE  ReferralsInv'
<1>1. Paid' = Paid /\ Rewarded' = Rewarded
  BY DEF Paid, Rewarded
<1>2. \A p : Referrer(p)' = Referrer(p)
  BY DEF Referrer
<1>3. \A t \in Redeeming' : t \in Redeeming /\ call'[t] = call[t] /\ RedemptionOf(t)' = RedemptionOf(t)
  BY DEF Redeeming, RedemptionOf
<1>4. RowsAreIssued' /\ CallsKnow'
  <2>1. RowsAreIssued'
    BY DEF ReferralsInv, RowsAreIssued, Issued
  <2>2. CallsKnow'
    BY <1>3 DEF ReferralsInv, CallsKnow, CallKnows, Issued
  <2> QED BY <2>1, <2>2
<1>5. PaidIsRewarded'
  BY <1>1 DEF ReferralsInv, PaidIsRewarded, Issued
<1>6. OverlapsAreKnown'
  BY <1>1, <1>2, <1>3 DEF ReferralsInv, OverlapsAreKnown, Related, Reciprocal
<1>7. RefereesAreNamed'
  BY <1>1 DEF ReferralsInv, RefereesAreNamed
<1>8. CheckedKeepRules'
  <2> SUFFICES ASSUME NEW t \in Redeeming', call'[t].pc = "checked"
               PROVE  /\ RedemptionOf(t)' \notin overlapped =>
                           \A p \in Paid \ overlapped :
                             p[2] # call[t].member /\ ~ Reciprocal(p, RedemptionOf(t))
                      /\ Clean(Referrer(RedemptionOf(t))) => BelowCap(Referrer(RedemptionOf(t)))'
    BY <1>1, <1>2, <1>3 DEF CheckedKeepRules, CheckedKeeps, Clean, Reciprocal
  <2>1. t \in Redeeming /\ call[t].pc = "checked" /\ RedemptionOf(t)' = RedemptionOf(t)
    BY <1>3
  <2>2. /\ RedemptionOf(t) \notin overlapped =>
             \A p \in Paid \ overlapped : p[2] # call[t].member /\ ~ Reciprocal(p, RedemptionOf(t))
        /\ Clean(Referrer(RedemptionOf(t))) => BelowCap(Referrer(RedemptionOf(t)))
    BY <2>1 DEF ReferralsInv, CheckedKeepRules, CheckedKeeps
  <2>3. ASSUME NEW r PROVE BelowCap(r) => BelowCap(r)'
    <3>1. /\ BelowCap(r) <=> Cardinality(RecentOf(r)) < MonthlyCap
          /\ BelowCap(r)' <=> Cardinality(RecentOf(r)') < MonthlyCap
      BY DEF BelowCap, RecentOf
    <3>2. /\ Cardinality(RecentOf(r)') <= Cardinality(RecentOf(r))
          /\ Cardinality(RecentOf(r)') \in Nat /\ Cardinality(RecentOf(r)) \in Nat
      BY FewerRecent, FiniteBooks DEF ReferralsInv
    <3> QED BY <3>1, <3>2, ReferralsAssumption
  <2> QED BY <1>2, <2>1, <2>2, <2>3
<1>9. RedemptionsArePaidOnce'
  BY <1>1, <1>2 DEF ReferralsInv, RedemptionsArePaidOnce
<1>10. RulesHoldOneAtATime'
  <2>1. \A r : Cardinality(RecentOf(r)') \in Nat /\ Cardinality(RecentOf(r)') <= Cardinality(RecentOf(r))
              /\ Cardinality(RecentOf(r)) \in Nat
    BY FewerRecent, FiniteBooks DEF ReferralsInv
  <2>2. \A r \in Members : Clean(r) => Cardinality(RecentOf(r)) <= MonthlyCap
    BY DEF ReferralsInv, RulesHoldOneAtATime, RecentOf, Clean
  <2>3. \A r \in Members : Clean(r)' => Cardinality(RecentOf(r)') <= MonthlyCap
    BY <1>2, <2>1, <2>2, ReferralsAssumption DEF Clean
  <2>4. \A p, q \in Paid' \ overlapped' :
          p # q => p[1] # q[1] /\ p[2] # q[2] /\ ~ Reciprocal(p, q)'
    BY <1>1, <1>2 DEF ReferralsInv, RulesHoldOneAtATime, Reciprocal
  <2> QED BY <2>3, <2>4 DEF RulesHoldOneAtATime, RecentOf, Clean
<1> QED BY <1>4, <1>5, <1>6, <1>7, <1>8, <1>9, <1>10 DEF ReferralsInv

(* A check that passes: the four rules hold of what has been committed.     *)
LEMMA CheckKeepsRules ==
  ASSUME ReferralsInv, NEW t \in Calls, CheckRules(t)
  PROVE  ReferralsInv'
<1> DEFINE m == call[t].member
           r == referral[call[t].code].referrer
           passes == /\ NotYetReferee(m) /\ NotReciprocal(m, r)
                     /\ m \in joined /\ BelowCap(r)
<1>1. /\ call' = [call EXCEPT ![t] = IF passes THEN [@ EXCEPT !.pc = "checked"] ELSE Idle]
      /\ call[t].pc = "found"
      /\ UNCHANGED <<referral, recent, joined, points, keys, overlapped>>
  BY DEF CheckRules
<1>2. ReferralsTypeOK
  BY DEF ReferralsInv
<1>3. ReferralsTypeOK'
  BY <1>1, <1>2 DEF ReferralsTypeOK, Idle
<1>4. CASE ~ passes
  <2> SUFFICES \A u \in Calls : \/ call'[u] = call[u]
                                \/ call'[u].pc = "idle"
                                \/ call'[u].pc = "issuing" /\ call'[u].member \in Members
    BY <1>1, <1>3, QuietKeepsRules
  <2> HIDE DEF passes
  <2>1. call' = [call EXCEPT ![t] = Idle]
    BY <1>1, <1>4
  <2>2. \A u \in Calls : call'[u] = IF u = t THEN Idle ELSE call[u]
    BY <1>2, <2>1 DEF ReferralsTypeOK
  <2>3. Idle.pc = "idle"
    BY DEF Idle
  <2> QED BY <2>2, <2>3
<1>5. CASE passes
  <2>1. /\ \A u \in Calls \ {t} : call'[u] = call[u]
        /\ call'[t].pc = "checked" /\ call'[t].code = call[t].code /\ call'[t].member = m
    BY <1>1, <1>2, <1>5 DEF ReferralsTypeOK
  <2>2. Redeeming' = Redeeming /\ t \in Redeeming
    BY <1>1, <2>1 DEF Redeeming
  <2>3. \A u \in Calls : /\ RedemptionOf(u)' = RedemptionOf(u)
                        /\ call'[u].code = call[u].code /\ call'[u].member = call[u].member
    BY <2>1 DEF RedemptionOf
  <2>4. Paid' = Paid /\ Rewarded' = Rewarded /\ \A p : Referrer(p)' = Referrer(p)
    BY <1>1 DEF Paid, Rewarded, Referrer
  <2>5. RowsAreIssued' /\ PaidIsRewarded' /\ RefereesAreNamed'
    BY <1>1, <2>4 DEF ReferralsInv, RowsAreIssued, PaidIsRewarded, RefereesAreNamed, Issued
  <2>6. CallsKnow'
    BY <1>1, <2>1, <2>2, <2>3 DEF ReferralsInv, CallsKnow, CallKnows, Issued
  <2>7. OverlapsAreKnown'
    <3>1. \A p, q : Related(p, q)' <=> Related(p, q)
      BY <2>4 DEF Related, Reciprocal
    <3>2. \A u \in Redeeming : u \in Calls
      BY DEF Redeeming
    <3> QED BY <1>1, <2>2, <2>3, <2>4, <3>1, <3>2 DEF ReferralsInv, OverlapsAreKnown
  <2>8. CheckedKeepRules'
    <3>1. \A p, q : Reciprocal(p, q)' <=> Reciprocal(p, q)
      BY <2>4 DEF Reciprocal
    <3>2. \A x : (BelowCap(x)' <=> BelowCap(x)) /\ (Clean(x)' <=> Clean(x))
      BY <1>1, <2>4 DEF BelowCap, Clean
    <3>3. RedemptionOf(t) = <<call[t].code, m>> /\ Referrer(RedemptionOf(t)) = r
      BY DEF RedemptionOf, Referrer
    <3>4. ASSUME NEW p \in Paid \ overlapped PROVE p[2] # m /\ ~ Reciprocal(p, RedemptionOf(t))
      <4>1. p[1] \in Rewarded /\ referral[p[1]].referee = p[2]
        BY DEF ReferralsInv, PaidIsRewarded, RefereesAreNamed
      <4>2. p[1] \in Codes
        BY <4>1 DEF Rewarded
      <4>3. p[2] # m
        BY <1>5, <4>1 DEF NotYetReferee
      <4>4. ~ (Referrer(p) = m /\ r = p[2])
        BY <1>5, <4>1, <4>2 DEF NotReciprocal, Referrer
      <4> QED BY <3>3, <4>3, <4>4 DEF Reciprocal
    <3>5. ASSUME NEW u \in Redeeming, u # t, call'[u].pc = "checked"
          PROVE  /\ RedemptionOf(u) \notin overlapped =>
                      \A p \in Paid \ overlapped :
                        p[2] # call[u].member /\ ~ Reciprocal(p, RedemptionOf(u))
                 /\ Clean(Referrer(RedemptionOf(u))) => BelowCap(Referrer(RedemptionOf(u)))
      <4>1. call[u].pc = "checked"
        BY <2>1, <3>5 DEF Redeeming
      <4> QED BY <4>1 DEF ReferralsInv, CheckedKeepRules, CheckedKeeps
    <3>6. \A u \in Redeeming : u \in Calls
      BY DEF Redeeming
    <3> HIDE DEF m, r
    <3> QED BY <1>1, <1>5, <2>2, <2>3, <2>4, <3>1, <3>2, <3>3, <3>4, <3>5, <3>6 DEF CheckedKeepRules, CheckedKeeps, m
  <2>9. RedemptionsArePaidOnce' /\ RulesHoldOneAtATime'
    BY <1>1, <2>4 DEF ReferralsInv, RedemptionsArePaidOnce, RulesHoldOneAtATime, Reciprocal
  <2> QED BY <1>3, <2>5, <2>6, <2>7, <2>8, <2>9 DEF ReferralsInv
<1> QED BY <1>4, <1>5

(* A new code: nothing that is under way or was paid is about it.           *)
LEMMA IssueKeepsRules ==
  ASSUME ReferralsInv, NEW t \in Calls, NEW c \in Codes, IssueCode(t, c)
  PROVE  ReferralsInv'
<1>1. /\ call[t].pc = "issuing" /\ referral[c].status = "none"
      /\ call[t].member \in Members
      /\ UNCHANGED <<recent, joined, points, keys, overlapped>>
  BY DEF IssueCode, ReferralsInv, CallsKnow, CallKnows
<1>2. ReferralsTypeOK
  BY DEF ReferralsInv
<1>3. /\ referral'[c] = [status |-> "pending", referrer |-> call[t].member, referee |-> None]
      /\ \A d \in Codes \ {c} : referral'[d] = referral[d]
      /\ \A u \in Calls \ {t} : call'[u] = call[u]
      /\ call'[t] = Idle
  BY <1>2 DEF ReferralsTypeOK, IssueCode
<1>4. ReferralsTypeOK'
  BY <1>1, <1>2 DEF ReferralsTypeOK, IssueCode, Idle
<1>5. Paid' = Paid
  BY <1>1 DEF Paid
<1>6. \A d \in Codes : Issued(d) => d # c /\ referral'[d] = referral[d] /\ Issued(d)'
  BY <1>1, <1>3 DEF Issued
<1>7. Rewarded' = Rewarded
  BY <1>1, <1>3 DEF Rewarded
<1>8. Redeeming' = Redeeming /\ t \notin Redeeming
  BY <1>1, <1>3 DEF Redeeming, Idle
<1>9. \A u \in Redeeming : /\ u \in Calls /\ call'[u] = call[u] /\ RedemptionOf(u)' = RedemptionOf(u)
                           /\ call[u].code \in Codes /\ Issued(call[u].code)
                           /\ Referrer(RedemptionOf(u))' = Referrer(RedemptionOf(u))
  <2> SUFFICES ASSUME NEW u \in Redeeming
               PROVE  /\ u \in Calls /\ call'[u] = call[u] /\ RedemptionOf(u)' = RedemptionOf(u)
                      /\ call[u].code \in Codes /\ Issued(call[u].code)
                      /\ Referrer(RedemptionOf(u))' = Referrer(RedemptionOf(u))
    OBVIOUS
  <2>1. u \in Calls /\ u # t /\ call'[u] = call[u]
    BY <1>3, <1>8 DEF Redeeming
  <2>2. call[u].code \in Codes /\ Issued(call[u].code)
    BY <2>1 DEF ReferralsInv, CallsKnow, CallKnows
  <2> QED BY <1>6, <2>1, <2>2 DEF RedemptionOf, Referrer
<1>10. \A p \in Paid \cup overlapped : /\ p[1] \in Codes /\ Issued(p[1])
                                       /\ referral'[p[1]] = referral[p[1]]
                                       /\ Referrer(p)' = Referrer(p)
  <2> SUFFICES ASSUME NEW p \in Paid \cup overlapped
               PROVE  p[1] \in Codes /\ Issued(p[1]) /\ Referrer(p)' = Referrer(p)
    BY <1>6
  <2>1. p[1] \in Codes
    BY <1>2, PaidKeys
  <2>2. Issued(p[1])
    BY DEF ReferralsInv, PaidIsRewarded, Rewarded, Issued
  <2> QED BY <1>6, <2>1, <2>2 DEF Referrer
<1>11. RowsAreIssued'
  <2> SUFFICES ASSUME NEW d \in Codes
               PROVE  \/ referral'[d] = NoReferral
                      \/ /\ Issued(d)' /\ referral'[d].referrer \in Members
                         /\ referral'[d].status = "rewarded" => referral'[d].referee \in Members
    BY DEF RowsAreIssued, NoReferral
  <2>1. CASE d = c
    BY <1>1, <1>3, <2>1 DEF Issued
  <2>2. CASE d # c
    BY <1>3, <2>2 DEF ReferralsInv, RowsAreIssued, Issued
  <2> QED BY <2>1, <2>2
<1>12. CallsKnow'
  <2> SUFFICES ASSUME NEW u \in Calls PROVE CallKnows(u)'
    BY DEF CallsKnow
  <2>1. CASE u = t
    BY <1>3, <1>8, <2>1 DEF Idle, CallKnows
  <2>2. CASE u # t
    <3>1. call'[u] = call[u] /\ CallKnows(u)
      BY <1>3, <2>2 DEF ReferralsInv, CallsKnow
    <3> QED BY <1>6, <1>8, <3>1 DEF CallKnows
  <2> QED BY <2>1, <2>2
<1>13. PaidIsRewarded' /\ RefereesAreNamed'
  BY <1>1, <1>5, <1>7, <1>10 DEF ReferralsInv, PaidIsRewarded, RefereesAreNamed, Issued
<1>14. OverlapsAreKnown'
  BY <1>1, <1>5, <1>8, <1>9 DEF ReferralsInv, OverlapsAreKnown, Related, Reciprocal
<1>15. \A r : RecentOf(r)' = RecentOf(r) /\ (Clean(r)' <=> Clean(r)) /\ (BelowCap(r)' <=> BelowCap(r))
  <2> TAKE r
  <2>1. \A d \in recent : d \in Codes /\ Issued(d)
    BY <1>2 DEF ReferralsInv, PaidIsRewarded, Rewarded, Issued, ReferralsTypeOK
  <2>2. RecentOf(r)' = RecentOf(r)
    BY <1>1, <1>6, <2>1 DEF RecentOf
  <2>3. Clean(r)' <=> Clean(r)
    BY <1>1, <1>10 DEF Clean
  <2>4. BelowCap(r)' <=> BelowCap(r)
    BY <2>2 DEF BelowCap, RecentOf
  <2> QED BY <2>2, <2>3, <2>4
<1>16. CheckedKeepRules'
  <2> SUFFICES ASSUME NEW u \in Redeeming, call[u].pc = "checked"
               PROVE  /\ RedemptionOf(u) \notin overlapped =>
                           \A p \in Paid \ overlapped :
                             p[2] # call[u].member /\ ~ Reciprocal(p, RedemptionOf(u))'
                      /\ Clean(Referrer(RedemptionOf(u))) => BelowCap(Referrer(RedemptionOf(u)))
    BY <1>1, <1>5, <1>8, <1>9, <1>15 DEF CheckedKeepRules, CheckedKeeps, Reciprocal
  <2>1. \A p \in Paid : Reciprocal(p, RedemptionOf(u))' <=> Reciprocal(p, RedemptionOf(u))
    BY <1>9, <1>10 DEF Reciprocal
  <2> QED BY <2>1 DEF ReferralsInv, CheckedKeepRules, CheckedKeeps
<1>17. RedemptionsArePaidOnce'
  <2>1. \A m : {p \in Paid : Referrer(p)' = m} = {p \in Paid : Referrer(p) = m}
    BY <1>10
  <2>2. \A d \in Rewarded : referral'[d] = referral[d]
    BY <1>6 DEF Rewarded, Issued
  <2> QED BY <1>1, <1>5, <1>7, <2>1, <2>2 DEF ReferralsInv, RedemptionsArePaidOnce
<1>18. RulesHoldOneAtATime'
  <2>1. \A p, q \in Paid \ overlapped : Reciprocal(p, q)' <=> Reciprocal(p, q)
    BY <1>10 DEF Reciprocal
  <2>2. \A r \in Members : Clean(r) => Cardinality(RecentOf(r)) <= MonthlyCap
    BY DEF ReferralsInv, RulesHoldOneAtATime, RecentOf, Clean
  <2>3. \A r \in Members : Clean(r)' => Cardinality(RecentOf(r)') <= MonthlyCap
    BY <1>15, <2>2
  <2>4. \A p, q \in Paid' \ overlapped' :
          p # q => p[1] # q[1] /\ p[2] # q[2] /\ ~ Reciprocal(p, q)'
    BY <1>1, <1>5, <2>1 DEF ReferralsInv, RulesHoldOneAtATime
  <2> QED BY <2>3, <2>4 DEF RulesHoldOneAtATime, RecentOf, Clean
<1> QED BY <1>4, <1>11, <1>12, <1>13, <1>14, <1>16, <1>17, <1>18 DEF ReferralsInv

LEMMA RelatedIsMutual == \A p, q : Related(p, q) => Related(q, p)
BY DEF Related, Reciprocal

(* A redemption that begins is remembered with those under way it is        *)
(* related to.                                                              *)
LEMMA FindKeepsRules ==
  ASSUME ReferralsInv, NEW t \in Calls, NEW c \in Codes, NEW m \in Members, FindReferral(t, c, m)
  PROVE  ReferralsInv'
<1> DEFINE me == <<c, m>>
           overlapping == {q \in {RedemptionOf(u) : u \in Redeeming} : Related(me, q)}
<1>1. /\ call[t] = Idle /\ referral[c].status = "pending" /\ referral[c].referrer # m
      /\ UNCHANGED <<referral, recent, joined, points, keys>>
      /\ overlapped' = overlapped \cup overlapping \cup (IF overlapping = {} THEN {} ELSE {me})
  BY DEF FindReferral
<1>2. ReferralsTypeOK
  BY DEF ReferralsInv
<1>3. /\ call'[t] = [pc |-> "found", code |-> c, member |-> m]
      /\ \A u \in Calls \ {t} : call'[u] = call[u]
  BY <1>2 DEF ReferralsTypeOK, FindReferral
<1>4. /\ Paid' = Paid /\ Rewarded' = Rewarded
      /\ \A p : Referrer(p)' = Referrer(p)
      /\ \A p, q : (Related(p, q)' <=> Related(p, q)) /\ (Reciprocal(p, q)' <=> Reciprocal(p, q))
  BY <1>1 DEF Paid, Rewarded, Referrer, Related, Reciprocal
<1>5. /\ t \notin Redeeming /\ Redeeming' = Redeeming \cup {t}
      /\ RedemptionOf(t)' = me
      /\ \A u \in Redeeming : /\ u \in Calls /\ u # t /\ call'[u] = call[u]
                              /\ RedemptionOf(u)' = RedemptionOf(u)
  <2>1. t \notin Redeeming
    BY <1>1 DEF Redeeming, Idle
  <2>2. Redeeming' = Redeeming \cup {t}
    BY <1>3 DEF Redeeming
  <2>3. RedemptionOf(t)' = me
    BY <1>3 DEF RedemptionOf
  <2>4. \A u \in Redeeming : u \in Calls /\ u # t /\ call'[u] = call[u]
    BY <1>3, <2>1 DEF Redeeming
  <2> QED BY <2>1, <2>2, <2>3, <2>4 DEF RedemptionOf
<1>6. \A u \in Redeeming : RedemptionOf(u) \in Codes \X Members /\ Issued(RedemptionOf(u)[1])
  BY <1>5 DEF RedemptionOf, ReferralsInv, CallsKnow, CallKnows
<1>7. /\ overlapped \subseteq overlapped'
      /\ \A q \in overlapped' : q \in overlapped \/ (q \in Codes \X Members /\ Issued(q[1]))
  <2>1. Issued(c)
    BY <1>1 DEF Issued
  <2> QED BY <1>1, <1>6, <2>1
<1>8. ReferralsTypeOK'
  <2>1. call' \in [Calls -> [pc : {"idle", "issuing", "found", "checked"},
                             code : Codes \cup {None}, member : Members \cup {None}]]
    BY <1>2 DEF ReferralsTypeOK, FindReferral
  <2>2. overlapped' \subseteq Codes \X Members
    BY <1>2, <1>7 DEF ReferralsTypeOK
  <2> QED BY <1>1, <1>2, <2>1, <2>2 DEF ReferralsTypeOK
<1>9. RowsAreIssued'
  BY <1>1 DEF ReferralsInv, RowsAreIssued, Issued
<1>10. CallsKnow'
  <2> SUFFICES ASSUME NEW u \in Calls PROVE CallKnows(u)'
    BY DEF CallsKnow
  <2>1. CASE u = t
    BY <1>1, <1>3, <2>1 DEF CallKnows, Issued
  <2>2. CASE u # t
    <3>1. call'[u] = call[u] /\ CallKnows(u)
      BY <1>3, <2>2 DEF ReferralsInv, CallsKnow
    <3> QED BY <1>1, <1>5, <2>2, <3>1 DEF CallKnows, Issued
  <2> QED BY <2>1, <2>2
<1>11. PaidIsRewarded' /\ RefereesAreNamed'
  <2>1. PaidIsRewarded'
    BY <1>1, <1>4, <1>7 DEF ReferralsInv, PaidIsRewarded, Issued
  <2>2. RefereesAreNamed'
    BY <1>1, <1>4, <1>7 DEF ReferralsInv, RefereesAreNamed
  <2> QED BY <2>1, <2>2
<1>12. \A u \in Redeeming : Related(me, RedemptionOf(u)) =>
         me \in overlapped' /\ RedemptionOf(u) \in overlapped'
  BY <1>1
<1>13. OverlapsAreKnown'
  <2>1. ASSUME NEW u \in Redeeming', NEW w \in Redeeming', u # w,
               Related(RedemptionOf(u), RedemptionOf(w))'
        PROVE  RedemptionOf(u)' \in overlapped' /\ RedemptionOf(w)' \in overlapped'
    <3>1. Related(RedemptionOf(u)', RedemptionOf(w)')
      BY <1>1, <2>1 DEF Related, Reciprocal, Referrer
    <3>2. CASE u = t
      <4>1. w \in Redeeming /\ Related(me, RedemptionOf(w))
        BY <1>5, <2>1, <3>1, <3>2
      <4> QED BY <1>5, <1>12, <3>2, <4>1
    <3>3. CASE w = t
      <4>1. u \in Redeeming /\ Related(me, RedemptionOf(u))
        BY <1>5, <2>1, <3>1, <3>3, RelatedIsMutual
      <4> QED BY <1>5, <1>12, <3>3, <4>1
    <3>4. CASE u # t /\ w # t
      <4>1. u \in Redeeming /\ w \in Redeeming /\ Related(RedemptionOf(u), RedemptionOf(w))
        BY <1>5, <2>1, <3>1, <3>4
      <4>2. RedemptionOf(u) \in overlapped /\ RedemptionOf(w) \in overlapped
        BY <2>1, <4>1 DEF ReferralsInv, OverlapsAreKnown
      <4> QED BY <1>5, <1>7, <4>1, <4>2
    <3> QED BY <3>2, <3>3, <3>4
  <2>2. ASSUME NEW u \in Redeeming', NEW p \in Paid', p[1] = call'[u].code
        PROVE  p \in overlapped' /\ RedemptionOf(u)' \in overlapped'
    <3>1. u # t
      BY <1>1, <1>3, <1>4, <2>2 DEF ReferralsInv, PaidIsRewarded, Rewarded
    <3>2. u \in Redeeming /\ p \in Paid /\ p[1] = call[u].code
      BY <1>4, <1>5, <2>2, <3>1
    <3> QED BY <1>5, <1>7, <3>2 DEF ReferralsInv, OverlapsAreKnown
  <2> QED BY <2>1, <2>2 DEF OverlapsAreKnown
<1>14. \A r : /\ RecentOf(r)' = RecentOf(r) /\ (BelowCap(r)' <=> BelowCap(r))
              /\ Clean(r)' => Clean(r)
  BY <1>1, <1>4, <1>7 DEF RecentOf, BelowCap, Clean
<1>15. CheckedKeepRules'
  <2> SUFFICES ASSUME NEW u \in Redeeming', call'[u].pc = "checked" PROVE CheckedKeeps(u)'
    BY DEF CheckedKeepRules, CheckedKeeps
  <2>1. u \in Redeeming /\ call[u].pc = "checked" /\ call'[u] = call[u]
        /\ RedemptionOf(u)' = RedemptionOf(u)
    BY <1>3, <1>5
  <2>2. Referrer(RedemptionOf(u))' = Referrer(RedemptionOf(u))
    BY <1>1, <2>1 DEF Referrer
  <2>3. CheckedKeeps(u)
    BY <2>1 DEF ReferralsInv, CheckedKeepRules
  <2>4. RedemptionOf(u)' \notin overlapped' =>
          \A p \in Paid' \ overlapped' : p[2] # call'[u].member /\ ~ Reciprocal(p, RedemptionOf(u))'
    BY <1>4, <1>7, <2>1, <2>2, <2>3 DEF CheckedKeeps, Reciprocal
  <2>5. Clean(Referrer(RedemptionOf(u)))' => BelowCap(Referrer(RedemptionOf(u)))'
    <3> DEFINE r == Referrer(RedemptionOf(u))
    <3>1. (Clean(r)' => Clean(r)) /\ (BelowCap(r)' <=> BelowCap(r))
      BY <1>1, <1>4, <1>7, <2>2 DEF Clean, BelowCap
    <3> QED BY <2>1, <2>3, <3>1 DEF CheckedKeeps
  <2> QED BY <2>4, <2>5 DEF CheckedKeeps
<1>16. RedemptionsArePaidOnce'
  BY <1>1, <1>4 DEF ReferralsInv, RedemptionsArePaidOnce
<1>17. RulesHoldOneAtATime'
  <2>1. \A p, q \in Paid' \ overlapped' :
          p # q => p[1] # q[1] /\ p[2] # q[2] /\ ~ Reciprocal(p, q)'
    BY <1>4, <1>7 DEF ReferralsInv, RulesHoldOneAtATime
  <2>2. \A r \in Members : Clean(r)' => Cardinality(RecentOf(r)') <= MonthlyCap
    BY <1>14 DEF ReferralsInv, RulesHoldOneAtATime, RecentOf, Clean
  <2> QED BY <2>1, <2>2 DEF RulesHoldOneAtATime, RecentOf, Clean
<1> QED BY <1>8, <1>9, <1>10, <1>11, <1>13, <1>15, <1>16, <1>17 DEF ReferralsInv

(* What a reward does to the books: one more redemption is paid, and the    *)
(* row of its code names its referee.                                       *)
Moves(t, c, m) ==
  /\ Issued(c) /\ referral[c].referrer \in Members \ {m}
  /\ RedemptionOf(t) = <<c, m>> /\ call[t].code = c /\ call[t].member = m
  /\ t \in Redeeming /\ call[t].pc = "checked"
  /\ referral'[c] = [status |-> "rewarded", referrer |-> referral[c].referrer, referee |-> m]
  /\ \A d \in Codes \ {c} : referral'[d] = referral[d]
  /\ \A d \in Codes : referral'[d].referrer = referral[d].referrer
  /\ keys' = keys \cup {<<m, c>>} /\ recent' = recent \cup {c}
  /\ Paid' = Paid \cup {<<c, m>>} /\ Rewarded' = Rewarded \cup {c}
  /\ UNCHANGED <<joined, overlapped>>
  /\ Redeeming' = Redeeming \ {t} /\ call'[t] = Idle
  /\ \A u \in Calls \ {t} : call'[u] = call[u] /\ RedemptionOf(u)' = RedemptionOf(u)

LEMMA RewardMoves ==
  ASSUME ReferralsInv, NEW t \in Calls, Reward(t)
  PROVE  \E c \in Codes, m \in Members : Moves(t, c, m)
<1>1. ReferralsTypeOK /\ call[t].pc = "checked"
  BY DEF ReferralsInv, Reward
<1>2. t \in Redeeming
  BY <1>1 DEF Redeeming
<1>3. PICK c \in Codes, m \in Members :
        /\ call[t].code = c /\ call[t].member = m
        /\ Issued(c) /\ referral[c].referrer # m /\ RedemptionOf(t) = <<c, m>>
  BY <1>2 DEF ReferralsInv, CallsKnow, CallKnows, RedemptionOf
<1>4. referral[c].referrer \in Members
  BY <1>3 DEF ReferralsInv, RowsAreIssued, Issued, NoReferral
<1>5. /\ keys' = keys \cup {<<m, c>>} /\ recent' = recent \cup {c}
      /\ referral' = [referral EXCEPT ![c] =
           [status |-> "rewarded", referrer |-> referral[c].referrer, referee |-> m]]
      /\ call' = [call EXCEPT ![t] = Idle]
      /\ UNCHANGED <<joined, overlapped>>
  BY <1>3 DEF Reward
<1>6. /\ referral'[c] = [status |-> "rewarded", referrer |-> referral[c].referrer, referee |-> m]
      /\ \A d \in Codes \ {c} : referral'[d] = referral[d]
  BY <1>1, <1>3, <1>5 DEF ReferralsTypeOK
<1>7. call'[t] = Idle /\ \A u \in Calls \ {t} : call'[u] = call[u]
  BY <1>1, <1>5 DEF ReferralsTypeOK
<1>8. Paid' = Paid \cup {<<c, m>>}
  <2>1. \A p : p \in Paid' <=> \E k \in keys' : p = <<k[2], k[1]>>
    BY DEF Paid
  <2>2. \A p : p \in Paid <=> \E k \in keys : p = <<k[2], k[1]>>
    BY DEF Paid
  <2>3. \A p, k : k = <<m, c>> => (p = <<k[2], k[1]>> <=> p = <<c, m>>)
    OBVIOUS
  <2>4. \A p : p \in Paid' <=> p \in Paid \/ p = <<c, m>>
    BY <1>5, <2>1, <2>2, <2>3, Zenon
  <2> QED BY <2>4
<1>9. Rewarded' = Rewarded \cup {c}
  BY <1>3, <1>6 DEF Rewarded
<1>10. Redeeming' = Redeeming \ {t}
  BY <1>7 DEF Redeeming, Idle
<1>11. \A u \in Calls \ {t} : RedemptionOf(u)' = RedemptionOf(u)
  BY <1>7 DEF RedemptionOf
<1>12. \A d \in Codes : referral'[d].referrer = referral[d].referrer
  BY <1>6
<1>13. Moves(t, c, m)
  BY <1>1, <1>2, <1>3, <1>4, <1>5, <1>6, <1>7, <1>8, <1>9, <1>10, <1>11, <1>12 DEF Moves
<1> QED BY <1>13

(* A redemption that is new to the ledger is paid, to both; one that is not *)
(* is answered from its keys.                                               *)
LEMMA RewardPaysOnce ==
  ASSUME ReferralsInv, NEW t \in Calls, Reward(t)
  PROVE  points' \in [Members -> Nat] /\ RedemptionsArePaidOnce'
<1>1. PICK c \in Codes, m \in Members : Moves(t, c, m)
  BY RewardMoves
<1>a. /\ call[t].code = c /\ call[t].member = m
      /\ referral[c].referrer \in Members \ {m}
      /\ referral'[c].referee = m
      /\ \A d \in Codes \ {c} : referral'[d] = referral[d]
      /\ \A d \in Codes : referral'[d].referrer = referral[d].referrer
      /\ Paid' = Paid \cup {<<c, m>>} /\ Rewarded' = Rewarded \cup {c}
  BY <1>1 DEF Moves
<1> DEFINE r == referral[c].referrer
           me == <<c, m>>
<1>2. ReferralsTypeOK /\ {ReferrerReward, RefereeReward} \subseteq Nat
  BY ReferralsAssumption DEF ReferralsInv
<1> DEFINE earned == [points EXCEPT ![r] = @ + ReferrerReward]
<1>3. points' = IF Fresh(m, c) THEN [earned EXCEPT ![m] = @ + RefereeReward] ELSE points
  BY <1>a DEF Reward
<1>4. Fresh(m, c) <=> me \notin Paid
  BY <1>2, PaidKeys DEF Fresh
<1>5. \A p \in Paid' : Referrer(p)' = Referrer(p)
  BY <1>a, <1>2, PaidKeys DEF Referrer
<1>6. Referrer(me) = r /\ Referrer(me)' = r
  BY <1>a DEF Referrer
<1>7. \A x \in Members : points[x] = ReferrerReward * Cardinality(PaidTo(x))
                                     + RefereeReward * Cardinality(PaidBy(x))
  BY DEF ReferralsInv, RedemptionsArePaidOnce, PaidTo, PaidBy
<1>8. \A d \in Rewarded' : <<d, referral'[d].referee>> \in Paid'
  <2>1. \A d \in Rewarded : <<d, referral[d].referee>> \in Paid
    BY DEF ReferralsInv, RedemptionsArePaidOnce
  <2>2. Rewarded \subseteq Codes
    BY DEF Rewarded
  <2> QED BY <1>a, <2>1, <2>2
<1>9. SUFFICES /\ points' \in [Members -> Nat]
               /\ \A x \in Members : points'[x] = ReferrerReward * Cardinality(PaidTo(x)')
                                                  + RefereeReward * Cardinality(PaidBy(x)')
  BY <1>8 DEF RedemptionsArePaidOnce, PaidTo, PaidBy
<1> HIDE DEF r, earned
<1>10. CASE ~ Fresh(m, c)
  <2>1. Paid' = Paid /\ points' = points
    BY <1>a, <1>3, <1>4, <1>10
  <2>2. \A x : PaidTo(x)' = PaidTo(x) /\ PaidBy(x)' = PaidBy(x)
    BY <1>5, <2>1 DEF PaidTo, PaidBy
  <2> QED BY <1>2, <1>7, <2>1, <2>2 DEF ReferralsTypeOK
<1>11. CASE Fresh(m, c)
  <2>1. me \notin Paid
    BY <1>4, <1>11
  <2>2. \A x : /\ PaidTo(x)' = IF x = r THEN PaidTo(x) \cup {me} ELSE PaidTo(x)
               /\ PaidBy(x)' = IF x = m THEN PaidBy(x) \cup {me} ELSE PaidBy(x)
    BY <1>a, <1>5, <1>6 DEF PaidTo, PaidBy
  <2>3. \A x : /\ IsFiniteSet(PaidTo(x)) /\ Cardinality(PaidTo(x)) \in Nat /\ me \notin PaidTo(x)
               /\ IsFiniteSet(PaidBy(x)) /\ Cardinality(PaidBy(x)) \in Nat /\ me \notin PaidBy(x)
    BY <1>2, <2>1, FiniteBooks DEF PaidTo, PaidBy
  <2>4. \A x : /\ Cardinality(PaidTo(x)') = Cardinality(PaidTo(x)) + IF x = r THEN 1 ELSE 0
               /\ Cardinality(PaidBy(x)') = Cardinality(PaidBy(x)) + IF x = m THEN 1 ELSE 0
    <3> SUFFICES ASSUME NEW x
                 PROVE  /\ Cardinality(PaidTo(x)') = Cardinality(PaidTo(x)) + IF x = r THEN 1 ELSE 0
                        /\ Cardinality(PaidBy(x)') = Cardinality(PaidBy(x)) + IF x = m THEN 1 ELSE 0
      OBVIOUS
    <3> HIDE DEF me
    <3>1. Cardinality(PaidTo(x)') = Cardinality(PaidTo(x)) + IF x = r THEN 1 ELSE 0
      <4>1. CASE x = r
        <5>1. Cardinality(PaidTo(x) \cup {me}) = Cardinality(PaidTo(x)) + 1
          BY <2>3, FS_AddElement
        <5> QED BY <2>2, <4>1, <5>1
      <4>2. CASE x # r
        BY <2>2, <2>3, <4>2
      <4> QED BY <4>1, <4>2
    <3>2. Cardinality(PaidBy(x)') = Cardinality(PaidBy(x)) + IF x = m THEN 1 ELSE 0
      <4>1. CASE x = m
        <5>1. Cardinality(PaidBy(x) \cup {me}) = Cardinality(PaidBy(x)) + 1
          BY <2>3, FS_AddElement
        <5> QED BY <2>2, <4>1, <5>1
      <4>2. CASE x # m
        BY <2>2, <2>3, <4>2
      <4> QED BY <4>1, <4>2
    <3> QED BY <3>1, <3>2
  <2>5. /\ points' \in [Members -> Nat]
        /\ \A x \in Members : points'[x] = points[x] + (IF x = r THEN ReferrerReward ELSE 0)
                                                  + (IF x = m THEN RefereeReward ELSE 0)
    <3>1. points \in [Members -> Nat] /\ r \in Members /\ r # m
      BY <1>a, <1>2 DEF ReferralsTypeOK, r
    <3>2. ReferrerReward \in Nat /\ RefereeReward \in Nat
      BY <1>2
    <3>3. /\ earned \in [Members -> Nat]
          /\ \A x \in Members : earned[x] = points[x] + IF x = r THEN ReferrerReward ELSE 0
      BY <3>1, <3>2 DEF earned
    <3>4. points' = [earned EXCEPT ![m] = @ + RefereeReward]
      BY <1>3, <1>11
    <3>5. \A x \in Members : points'[x] = earned[x] + IF x = m THEN RefereeReward ELSE 0
      BY <3>3, <3>4
    <3>6. points' \in [Members -> Nat]
      BY <3>2, <3>3, <3>4
    <3>7. ASSUME NEW x \in Members
          PROVE  points'[x] = points[x] + (IF x = r THEN ReferrerReward ELSE 0)
                                        + (IF x = m THEN RefereeReward ELSE 0)
      <4>1. points[x] \in Nat
        BY <3>1
      <4> QED BY <3>1, <3>2, <3>3, <3>5, <4>1
    <3> QED BY <3>6, <3>7
  <2>7. ASSUME NEW x \in Members
        PROVE  points'[x] = ReferrerReward * Cardinality(PaidTo(x)')
                            + RefereeReward * Cardinality(PaidBy(x)')
    <3> DEFINE a == Cardinality(PaidTo(x))
               b == Cardinality(PaidBy(x))
    <3>1. a \in Nat /\ b \in Nat /\ points[x] = ReferrerReward * a + RefereeReward * b
      BY <1>7, <2>3
    <3>2. /\ Cardinality(PaidTo(x)') = a + IF x = r THEN 1 ELSE 0
          /\ Cardinality(PaidBy(x)') = b + IF x = m THEN 1 ELSE 0
      BY <2>4
    <3> HIDE DEF a, b
    <3>3. /\ ReferrerReward * (a + 1) = ReferrerReward * a + ReferrerReward
          /\ RefereeReward * (b + 1) = RefereeReward * b + RefereeReward
          /\ ReferrerReward * a \in Nat /\ RefereeReward * b \in Nat
      BY <1>2, <3>1
    <3>4. CASE x = r
      BY <1>a, <1>2, <2>5, <3>1, <3>2, <3>3, <3>4
    <3>5. CASE x = m
      BY <1>a, <1>2, <2>5, <3>1, <3>2, <3>3, <3>5
    <3>6. CASE x # r /\ x # m
      BY <1>a, <1>2, <2>5, <3>1, <3>2, <3>3, <3>6
    <3> QED BY <3>4, <3>5, <3>6
  <2> QED BY <2>5, <2>7
<1> QED BY <1>10, <1>11
(* A reward is paid on rules checked earlier: what was paid since to a      *)
(* related redemption overlapped with this one, and history says so.        *)
LEMMA RewardKeepsRules ==
  ASSUME ReferralsInv, NEW t \in Calls, Reward(t)
  PROVE  ReferralsInv'
<1>1. PICK c \in Codes, m \in Members : Moves(t, c, m)
  BY RewardMoves
<1> DEFINE me == <<c, m>>
           r == referral[c].referrer
<1>2. ReferralsTypeOK /\ Rewarded \subseteq Codes
  BY DEF ReferralsInv, Rewarded
<1>3. /\ me[1] = c /\ me[2] = m /\ RedemptionOf(t) = me /\ t \in Redeeming
      /\ call[t].code = c /\ call[t].member = m /\ call[t].pc = "checked" /\ call'[t] = Idle
      /\ Paid' = Paid \cup {me} /\ Rewarded' = Rewarded \cup {c}
      /\ keys' = keys \cup {<<m, c>>} /\ recent' = recent \cup {c}
      /\ UNCHANGED <<joined, overlapped>>
      /\ r \in Members \ {m} /\ Issued(c)
      /\ Referrer(me) = r
  BY <1>1 DEF Moves, Referrer
<1>4. /\ referral'[c] = [status |-> "rewarded", referrer |-> r, referee |-> m]
      /\ \A d \in Codes \ {c} : referral'[d] = referral[d]
      /\ \A d \in Codes : referral'[d].referrer = referral[d].referrer
      /\ \A d \in Codes : Issued(d) => Issued(d)'
  BY <1>1 DEF Moves, Issued
<1>5. /\ Redeeming' = Redeeming \ {t}
      /\ \A u \in Redeeming' : /\ u \in Redeeming /\ u \in Calls /\ u # t /\ call'[u] = call[u]
                               /\ RedemptionOf(u)' = RedemptionOf(u)
                               /\ RedemptionOf(u)[1] = call[u].code
                               /\ RedemptionOf(u)[2] = call[u].member
                               /\ call[u].code \in Codes
  <2>1. \A u \in Redeeming : u \in Calls /\ call[u].code \in Codes
    BY DEF ReferralsInv, CallsKnow, CallKnows, Redeeming
  <2> QED BY <1>1, <2>1 DEF Moves, RedemptionOf
<1>6. /\ \A p \in Paid' \cup overlapped : p[1] \in Codes /\ p = <<p[1], p[2]>>
      /\ \A p : p[1] \in Codes => Referrer(p)' = Referrer(p)
  BY <1>2, <1>3, <1>4, PaidKeys DEF Referrer
<1>7. \A p, q : p[1] \in Codes /\ q[1] \in Codes =>
        (Related(p, q)' <=> Related(p, q)) /\ (Reciprocal(p, q)' <=> Reciprocal(p, q))
  BY <1>6 DEF Related, Reciprocal
<1>8. \A u \in Redeeming' : Related(me, RedemptionOf(u)) =>
        me \in overlapped /\ RedemptionOf(u) \in overlapped
  BY <1>3, <1>5 DEF ReferralsInv, OverlapsAreKnown
<1>9. \A p \in Paid : p[1] = c => p \in overlapped /\ me \in overlapped
  BY <1>3 DEF ReferralsInv, OverlapsAreKnown
<1>10. ReferralsTypeOK'
  <2>1. points' \in [Members -> Nat]
    BY RewardPaysOnce
  <2>2. referral' \in [Codes -> [status : {"none", "pending", "rewarded"},
                                 referrer : Members \cup {None}, referee : Members \cup {None}]]
    BY <1>2, <1>3 DEF ReferralsTypeOK, Reward
  <2>3. call' \in [Calls -> [pc : {"idle", "issuing", "found", "checked"},
                             code : Codes \cup {None}, member : Members \cup {None}]]
    BY <1>2 DEF ReferralsTypeOK, Reward, Idle
  <2> QED BY <1>2, <1>3, <2>1, <2>2, <2>3 DEF ReferralsTypeOK
<1>11. RowsAreIssued'
  <2> SUFFICES ASSUME NEW d \in Codes
               PROVE  \/ referral'[d] = NoReferral
                      \/ /\ Issued(d)' /\ referral'[d].referrer \in Members
                         /\ referral'[d].status = "rewarded" => referral'[d].referee \in Members
    BY DEF RowsAreIssued
  <2>1. CASE d = c
    BY <1>3, <1>4, <2>1
  <2>2. CASE d # c
    BY <1>4, <2>2 DEF ReferralsInv, RowsAreIssued
  <2> QED BY <2>1, <2>2
<1>12. CallsKnow'
  <2> SUFFICES ASSUME NEW u \in Calls PROVE CallKnows(u)'
    BY DEF CallsKnow
  <2>1. CASE u = t
    BY <1>3, <1>5, <2>1 DEF CallKnows, Idle
  <2>2. CASE u # t
    <3>1. call'[u] = call[u] /\ CallKnows(u) /\ (u \in Redeeming' <=> u \in Redeeming)
      BY <1>1, <1>5, <2>2 DEF ReferralsInv, CallsKnow, Moves
    <3> QED BY <1>4, <3>1 DEF CallKnows
  <2> QED BY <2>1, <2>2
<1>13. PaidIsRewarded'
  <2>1. recent' \subseteq Rewarded'
    BY <1>3 DEF ReferralsInv, PaidIsRewarded
  <2>2. \A p \in overlapped' : Issued(p[1])'
    BY <1>3, <1>4, <1>6 DEF ReferralsInv, PaidIsRewarded
  <2>3. \A p \in Paid' : p[1] \in Rewarded'
    BY <1>3 DEF ReferralsInv, PaidIsRewarded
  <2> QED BY <2>1, <2>2, <2>3 DEF PaidIsRewarded
<1>14. OverlapsAreKnown'
  <2>1. ASSUME NEW u \in Redeeming', NEW w \in Redeeming', u # w,
               Related(RedemptionOf(u), RedemptionOf(w))'
        PROVE  RedemptionOf(u)' \in overlapped' /\ RedemptionOf(w)' \in overlapped'
    <3>1. Related(RedemptionOf(u), RedemptionOf(w))
      BY <1>4, <1>5, <2>1 DEF Related, Reciprocal, Referrer
    <3> QED BY <1>3, <1>5, <2>1, <3>1 DEF ReferralsInv, OverlapsAreKnown
  <2>2. ASSUME NEW u \in Redeeming', NEW p \in Paid', p[1] = call'[u].code
        PROVE  p \in overlapped' /\ RedemptionOf(u)' \in overlapped'
    <3>1. CASE p \in Paid
      BY <1>3, <1>5, <2>2, <3>1 DEF ReferralsInv, OverlapsAreKnown
    <3>2. CASE p = me
      <4>1. Related(me, RedemptionOf(u))
        BY <1>3, <1>5, <2>2, <3>2 DEF Related
      <4> QED BY <1>3, <1>5, <1>8, <3>2, <4>1
    <3> QED BY <1>3, <3>1, <3>2
  <2> QED BY <2>1, <2>2 DEF OverlapsAreKnown
<1>15. RefereesAreNamed'
  <2> SUFFICES ASSUME NEW p \in Paid', p \notin overlapped PROVE referral'[p[1]].referee = p[2]
    BY <1>3 DEF RefereesAreNamed
  <2>1. CASE p = me
    BY <1>3, <1>4, <2>1
  <2>2. CASE p # me
    <3>1. p \in Paid /\ p[1] # c
      BY <1>3, <1>9, <2>2
    <3> QED BY <1>4, <1>6, <3>1 DEF ReferralsInv, RefereesAreNamed
  <2> QED BY <2>1, <2>2
<1>16. \A x : (Clean(x)' <=> Clean(x)) /\ RecentOf(x)' = IF x = r THEN RecentOf(x) \cup {c} ELSE RecentOf(x)
  <2>1. recent \subseteq Codes
    BY <1>2 DEF ReferralsTypeOK
  <2> QED BY <1>3, <1>4, <1>6, <2>1 DEF Clean, RecentOf
<1>17. CheckedKeepRules'
  <2> SUFFICES ASSUME NEW u \in Redeeming', call'[u].pc = "checked" PROVE CheckedKeeps(u)'
    BY DEF CheckedKeepRules, CheckedKeeps
  <2> DEFINE mine == RedemptionOf(u)
  <2>1. /\ CheckedKeeps(u) /\ call[u].pc = "checked" /\ call'[u] = call[u] /\ mine' = mine
        /\ mine[1] \in Codes /\ mine[2] = call[u].member
    BY <1>5 DEF ReferralsInv, CheckedKeepRules
  <2>2. Referrer(mine)' = Referrer(mine)
    BY <1>4, <1>5, <2>1 DEF Referrer
  <2>3. ASSUME mine \notin overlapped, NEW p \in Paid', p \notin overlapped
        PROVE  p[2] # call[u].member /\ ~ Reciprocal(p, mine)'
    <3>1. Reciprocal(p, mine)' <=> Reciprocal(p, mine)
      BY <1>6, <2>1, <2>2 DEF Reciprocal
    <3>2. CASE p \in Paid
      BY <2>1, <2>3, <3>1, <3>2 DEF CheckedKeeps
    <3>3. CASE p = me
      <4>1. ~ Related(me, mine)
        BY <1>8, <2>3
      <4> QED BY <2>1, <3>1, <3>3, <4>1 DEF Related
    <3> QED BY <1>3, <3>2, <3>3
  <2>4. ASSUME Clean(Referrer(mine)) PROVE BelowCap(Referrer(mine))'
    <3>1. Referrer(mine) # r
      <4> SUFFICES ASSUME Referrer(mine) = r PROVE FALSE
        OBVIOUS
      <4>1. Related(me, mine)
        BY <1>3 DEF Related
      <4>2. me \in overlapped
        BY <1>8, <4>1
      <4> QED BY <1>3, <2>4, <4>2 DEF Clean
    <3>2. BelowCap(Referrer(mine))
      BY <2>1, <2>4 DEF CheckedKeeps
    <3>3. RecentOf(Referrer(mine))' = RecentOf(Referrer(mine))
      BY <1>4, <1>16, <2>2, <3>1 DEF RecentOf
    <3> QED BY <3>2, <3>3 DEF BelowCap, RecentOf
  <2>5. Clean(Referrer(mine))' => Clean(Referrer(mine))
    BY <1>16, <2>2 DEF Clean
  <2> QED BY <1>3, <2>1, <2>3, <2>4, <2>5 DEF CheckedKeeps
<1>18. RulesHoldOneAtATime'
  <2>1. ASSUME NEW q \in Paid, q \notin overlapped, me \notin overlapped
        PROVE  q[1] # c /\ q[2] # m /\ ~ Reciprocal(q, me) /\ ~ Reciprocal(me, q)
    <3>1. CheckedKeeps(t)
      BY <1>3 DEF ReferralsInv, CheckedKeepRules
    <3>2. q[2] # m /\ ~ Reciprocal(q, me)
      BY <1>3, <2>1, <3>1 DEF CheckedKeeps
    <3> QED BY <1>9, <2>1, <3>2 DEF Reciprocal
  <2>2. ASSUME NEW p \in Paid', NEW q \in Paid', p \notin overlapped, q \notin overlapped, p # q
        PROVE  p[1] # q[1] /\ p[2] # q[2] /\ ~ Reciprocal(p, q)'
    <3>1. Reciprocal(p, q)' <=> Reciprocal(p, q)
      BY <1>6, <1>7
    <3>2. CASE p \in Paid /\ q \in Paid
      BY <2>2, <3>1, <3>2 DEF ReferralsInv, RulesHoldOneAtATime
    <3>3. CASE p = me
      <4>1. q \in Paid
        BY <1>3, <2>2, <3>3
      <4> QED BY <1>3, <2>1, <2>2, <3>1, <3>3, <4>1
    <3>4. CASE q = me
      <4>1. p \in Paid
        BY <1>3, <2>2, <3>4
      <4> QED BY <1>3, <2>1, <2>2, <3>1, <3>4, <4>1
    <3> QED BY <1>3, <3>2, <3>3, <3>4
  <2>3. ASSUME NEW x \in Members, Clean(x)
        PROVE  Cardinality(RecentOf(x)') <= MonthlyCap
    <3>1. IsFiniteSet(RecentOf(x)) /\ Cardinality(RecentOf(x)) \in Nat /\ MonthlyCap \in Nat
      BY <1>2, FiniteBooks, ReferralsAssumption
    <3>2. CASE x = r
      <4>1. Cardinality(RecentOf(x)) < MonthlyCap
        BY <1>3, <2>3, <3>2 DEF ReferralsInv, CheckedKeepRules, CheckedKeeps, BelowCap, RecentOf
      <4>2. RecentOf(x)' = RecentOf(x) \cup {c}
        BY <1>16, <3>2
      <4>3. /\ Cardinality(RecentOf(x) \cup {c}) \in Nat
            /\ Cardinality(RecentOf(x) \cup {c}) <= Cardinality(RecentOf(x)) + 1
        <5>1. CASE c \in RecentOf(x)
          <6>1. RecentOf(x) \cup {c} = RecentOf(x)
            BY <5>1
          <6> QED BY <3>1, <6>1
        <5>2. CASE c \notin RecentOf(x)
          <6>1. Cardinality(RecentOf(x) \cup {c}) = Cardinality(RecentOf(x)) + 1
            BY <3>1, <5>2, FS_AddElement
          <6> QED BY <3>1, <6>1
        <5> QED BY <5>1, <5>2
      <4> QED BY <3>1, <4>1, <4>2, <4>3
    <3>3. CASE x # r
      BY <1>16, <2>3, <3>3 DEF ReferralsInv, RulesHoldOneAtATime, RecentOf, Clean
    <3> QED BY <3>2, <3>3
  <2>4. \A x \in Members : Clean(x)' => Cardinality(RecentOf(x)') <= MonthlyCap
    BY <1>16, <2>3
  <2> QED BY <1>3, <2>2, <2>4 DEF RulesHoldOneAtATime, RecentOf, Clean
<1>19. RedemptionsArePaidOnce'
  BY RewardPaysOnce
<1> QED BY <1>10, <1>11, <1>12, <1>13, <1>14, <1>15, <1>17, <1>18, <1>19 DEF ReferralsInv

LEMMA NextKeepsRules == ReferralsInv /\ [ReferralsNext]_referralVars => ReferralsInv'
<1> SUFFICES ASSUME ReferralsInv, [ReferralsNext]_referralVars PROVE ReferralsInv'
  OBVIOUS
<1>1. ReferralsTypeOK
  BY DEF ReferralsInv
<1>2. ASSUME NEW t \in Calls, NEW m \in Members, FindCode(t, m) PROVE ReferralsInv'
  <2>1. ReferralsTypeOK'
    BY <1>1, <1>2 DEF FindCode, ReferralsTypeOK
  <2>2. \A u \in Calls : call'[u] = IF u = t THEN [pc |-> "issuing", code |-> None, member |-> m]
                                     ELSE call[u]
    BY <1>1, <1>2 DEF FindCode, ReferralsTypeOK
  <2> QED BY <1>2, <2>1, <2>2, QuietKeepsRules DEF FindCode
<1>3. ASSUME NEW t \in Calls, GiveUp(t) PROVE ReferralsInv'
  <2>1. ReferralsTypeOK'
    BY <1>1, <1>3 DEF GiveUp, ReferralsTypeOK, Idle
  <2>2. \A u \in Calls : call'[u] = call[u] \/ call'[u].pc = "idle"
    BY <1>1, <1>3 DEF GiveUp, ReferralsTypeOK, Idle
  <2> QED BY <1>3, <2>1, <2>2, QuietKeepsRules DEF GiveUp
<1>4. ASSUME NEW m \in Members, NoLongerNew(m) PROVE ReferralsInv'
  <2>1. ReferralsTypeOK'
    BY <1>1, <1>4 DEF NoLongerNew, ReferralsTypeOK
  <2> QED BY <1>4, <2>1, QuietKeepsRules DEF NoLongerNew
<1>5. ASSUME NEW c \in Codes, NoLongerRecent(c) PROVE ReferralsInv'
  <2>1. ReferralsTypeOK'
    BY <1>1, <1>5 DEF NoLongerRecent, ReferralsTypeOK
  <2> QED BY <1>5, <2>1, QuietKeepsRules DEF NoLongerRecent
<1>6. CASE UNCHANGED referralVars
  <2>1. ReferralsTypeOK'
    BY <1>1, <1>6 DEF referralVars, ReferralsTypeOK
  <2> QED BY <1>6, <2>1, QuietKeepsRules DEF referralVars
<1> QED BY <1>2, <1>3, <1>4, <1>5, <1>6, CheckKeepsRules, IssueKeepsRules, FindKeepsRules,
           RewardKeepsRules DEF ReferralsNext

(* The invariant of referral codes, for any number of members, codes and    *)
(* redemptions under way, and any rewards and cap.                          *)
THEOREM ReferralsAreSafe == ReferralsSpec => []ReferralsInv
<1>1. ReferralsInv /\ [ReferralsNext]_referralVars => ReferralsInv'
  BY NextKeepsRules
<1> QED BY <1>1, InitRefers, PTL DEF ReferralsSpec

(* A redemption is paid once to both members, whatever overlaps it.         *)
THEOREM RedemptionsAreAlwaysPaidOnce == ReferralsSpec => []RedemptionsArePaidOnce
<1>1. ReferralsInv => RedemptionsArePaidOnce
  BY DEF ReferralsInv
<1> QED BY <1>1, ReferralsAreSafe, PTL

(* Only redemptions that overlapped a related one can break a rule of       *)
(* redeem, even when a later redemption has overwritten the row.            *)
THEOREM RulesAlwaysHoldOneAtATime == ReferralsSpec => []RulesHoldOneAtATime
<1>1. ReferralsInv => RulesHoldOneAtATime
  BY DEF ReferralsInv
<1> QED BY <1>1, ReferralsAreSafe, PTL
=============================================================================
