---------------------------- MODULE OutboxRelay ----------------------------
(***************************************************************************)
(* From a committed change to the messages it causes: the table outbox,    *)
(* its two readers (webhook.service.ts relayOutbox, which fans a row out   *)
(* into webhook_delivery rows, and the customer alerts of                  *)
(* txn-alert.service.ts, which claim rows through claim_txn_alerts), and   *)
(* the delivery of webhooks with retries.                                  *)
(*                                                                         *)
(* Every API instance runs every job on a timer (worker-runner.service.ts), *)
(* one pass of a job at a time, and a pass of the webhooks job relays, then *)
(* delivers.  It reads first and writes later: relayOutbox within one      *)
(* transaction, deliverPending in one transaction per delivery with an     *)
(* HTTP request in between.                                                *)
(***************************************************************************)
EXTENDS Integers, FiniteSets

CONSTANTS Events,       \* rows that may ever be emitted
          PointsEvents, \* those whose aggregate is 'points'
          Endpoints,    \* the brand's enabled endpoints, subscribed to every event
          Instances,    \* API instances
          Steady,       \* those that keep running
          MaxAttempts,  \* MAX_ATTEMPTS of webhook.service.ts
          MaxEvents,    \* bound on the rows emitted
          NoDelivery

ASSUME RelayAssumption ==
  /\ PointsEvents \subseteq Events
  /\ Steady \subseteq Instances
  /\ MaxAttempts \in Nat \ {0}

\* A delivery row: what instance i made of event e for endpoint p.
Deliveries == Events \X Endpoints \X Instances

VARIABLES
  outbox,     \* the table outbox: absent, waiting (published_at IS NULL) or published
  aged,       \* rows older than SETTLE_SECONDS
  alerts,     \* how often each event was claimed for a customer message
  relaying,   \* each instance: how far its relayOutbox is, and the rows it read
  delivery,   \* the table webhook_delivery: status and attempts
  delivering, \* each instance: what its deliverPending read and has not sent yet
  posts       \* requests the endpoint accepted for a delivery: none, one, or 2 for more

relayVars == <<outbox, aged, alerts, relaying, delivery, delivering, posts>>

Absent == [status |-> "absent", attempts |-> 0]

NotRelaying == [pc |-> "idle", rows |-> {}]

NotSending ==
  [pc |-> "idle", now |-> NoDelivery, batch |-> {}, attempts |-> [d \in Deliveries |-> 0]]

RelayInit ==
  /\ outbox = [e \in Events |-> "absent"]
  /\ aged = {}
  /\ alerts = [e \in Events |-> 0]
  /\ relaying = [i \in Instances |-> NotRelaying]
  /\ delivery = [d \in Deliveries |-> Absent]
  /\ delivering = [i \in Instances |-> NotSending]
  /\ posts = [d \in Deliveries |-> 0]
-----------------------------------------------------------------------------
(* emit, with the transaction of the change.                                *)
Emit(e) ==
  /\ outbox[e] = "absent"
  /\ Cardinality({x \in Events : outbox[x] # "absent"}) < MaxEvents
  /\ outbox' = [outbox EXCEPT ![e] = "waiting"]
  /\ UNCHANGED <<aged, alerts, relaying, delivery, delivering, posts>>

(* SETTLE_SECONDS pass; the claim leaves younger rows to the webhook relay.  *)
Age(e) ==
  /\ outbox[e] # "absent" /\ e \notin aged
  /\ aged' = aged \cup {e}
  /\ UNCHANGED <<outbox, alerts, relaying, delivery, delivering, posts>>

\* Mutant of ClaimAlerts: published rows are claimed again.
ClaimAlertsAgain(batch) ==
  /\ batch # {}
  /\ \A e \in batch : e \in PointsEvents /\ e \in aged
  /\ outbox' = [e \in Events |-> IF e \in batch THEN "published" ELSE outbox[e]]
  /\ alerts' = [e \in Events |-> IF e \in batch THEN alerts[e] + 1 ELSE alerts[e]]
  /\ UNCHANGED <<aged, relaying, delivery, delivering, posts>>

(* claim_txn_alerts: one UPDATE takes and publishes a batch of the aged     *)
(* points events, skipping rows another transaction holds.                  *)
ClaimAlerts(batch) ==
  /\ batch # {}
  /\ \A e \in batch : e \in PointsEvents /\ e \in aged /\ outbox[e] = "waiting"
  /\ outbox' = [e \in Events |-> IF e \in batch THEN "published" ELSE outbox[e]]
  /\ alerts' = [e \in Events |-> IF e \in batch THEN alerts[e] + 1 ELSE alerts[e]]
  /\ UNCHANGED <<aged, relaying, delivery, delivering, posts>>

Unpublished == {e \in Events : outbox[e] = "waiting"}

(* relayOutbox: findMany of the unpublished rows, without a lock.           *)
ReadOutbox(i) ==
  /\ relaying[i].pc = "idle"
  /\ delivering[i].pc = "idle"
  /\ relaying' = [relaying EXCEPT ![i] = [pc |-> "read", rows |-> Unpublished]]
  /\ UNCHANGED <<outbox, aged, alerts, delivery, delivering, posts>>

(* Its commit: a delivery per endpoint for every row read, and the rows     *)
(* published by id.                                                         *)
FanOut(i) ==
  LET rows == relaying[i].rows
  IN /\ relaying[i].pc = "read"
     /\ delivery' = [d \in Deliveries |->
          IF d[1] \in rows /\ d[3] = i
          THEN [status |-> "pending", attempts |-> 0] ELSE delivery[d]]
     /\ outbox' = [e \in Events |-> IF e \in rows THEN "published" ELSE outbox[e]]
     /\ relaying' = [relaying EXCEPT ![i] = [pc |-> "relayed", rows |-> {}]]
     /\ UNCHANGED <<aged, alerts, delivering, posts>>

\* Mutants of Due: a delivery that failed is not retried; one that succeeded is.
DueOnce(d) == delivery[d].status = "pending" /\ delivery[d].attempts < MaxAttempts
DueAlways(d) == delivery[d].status # "absent" /\ delivery[d].attempts < MaxAttempts

Due(d) == delivery[d].status \in {"pending", "failed"} /\ delivery[d].attempts < MaxAttempts

(* deliverPending: findMany of what is due, with the attempts made so far.  *)
ReadDue(i) ==
  LET batch == {d \in Deliveries : Due(d)}
  IN /\ relaying[i].pc = "relayed"
     /\ relaying' = [relaying EXCEPT ![i] = NotRelaying]
     /\ delivering' = [delivering EXCEPT ![i] =
          IF batch = {} THEN NotSending
          ELSE [pc |-> "reading", now |-> NoDelivery, batch |-> batch,
                attempts |-> [d \in Deliveries |-> IF Due(d) THEN delivery[d].attempts ELSE 0]]]
     /\ UNCHANGED <<outbox, aged, alerts, delivery, posts>>

\* The loop takes the next delivery of the batch, as it was read.
Send(i, d) ==
  /\ delivering[i].pc = "reading"
  /\ d \in delivering[i].batch
  /\ delivering' = [delivering EXCEPT ![i].pc = "sending", ![i].now = d]
  /\ UNCHANGED <<outbox, aged, alerts, relaying, delivery, posts>>

\* The answer is written over whatever the row says by now.
Record(i, status) ==
  LET d    == delivering[i].now
      left == delivering[i].batch \ {d}
  IN /\ delivery' = [delivery EXCEPT ![d] =
          [status |-> status, attempts |-> delivering[i].attempts[d] + 1]]
     /\ delivering' = [delivering EXCEPT ![i] =
          IF left = {} THEN NotSending
          ELSE [pc |-> "reading", now |-> NoDelivery, batch |-> left,
                attempts |-> delivering[i].attempts]]

(* The endpoint accepts the request.                                        *)
Post(i) ==
  /\ delivering[i].pc = "sending"
  /\ posts' = [posts EXCEPT ![delivering[i].now] = IF @ < 2 THEN @ + 1 ELSE 2]
  /\ delivering' = [delivering EXCEPT ![i].pc = "accepted"]
  /\ UNCHANGED <<outbox, aged, alerts, relaying, delivery>>

RecordDelivered(i) ==
  /\ delivering[i].pc = "accepted"
  /\ Record(i, "delivered")
  /\ UNCHANGED <<outbox, aged, alerts, relaying, posts>>

\* Mutant of RecordFailed: one attempt too many before dead.
RecordFailedLate(i) ==
  /\ delivering[i].pc \in {"sending", "accepted"}
  /\ LET tries == delivering[i].attempts[delivering[i].now] + 1
     IN Record(i, IF tries > MaxAttempts THEN "dead" ELSE "failed")
  /\ UNCHANGED <<outbox, aged, alerts, relaying, posts>>

\* Also the catch of a delivered that could not be written.
RecordFailed(i) ==
  /\ delivering[i].pc \in {"sending", "accepted"}
  /\ LET tries == delivering[i].attempts[delivering[i].now] + 1
     IN Record(i, IF tries >= MaxAttempts THEN "dead" ELSE "failed")
  /\ UNCHANGED <<outbox, aged, alerts, relaying, posts>>

(* The pass throws, or its process stops: the open transaction rolls back.  *)
PassDies(i) ==
  /\ relaying[i].pc # "idle" \/ delivering[i].pc # "idle"
  /\ relaying' = [relaying EXCEPT ![i] = NotRelaying]
  /\ delivering' = [delivering EXCEPT ![i] = NotSending]
  /\ UNCHANGED <<outbox, aged, alerts, delivery, posts>>

EventStep ==
  \/ \E e \in Events : Emit(e) \/ Age(e)
  \/ \E batch \in SUBSET PointsEvents : ClaimAlerts(batch)

PassStep ==
  \E i \in Instances :
    \/ ReadOutbox(i)
    \/ FanOut(i)
    \/ ReadDue(i)
    \/ \E d \in Deliveries : Send(i, d)
    \/ Post(i)
    \/ RecordDelivered(i)
    \/ RecordFailed(i)
    \/ PassDies(i)

RelayNext == EventStep \/ PassStep

RelaySpec == RelayInit /\ [][RelayNext]_relayVars

(* The timers of a steady instance keep ticking, and not every pass of it   *)
(* dies: of those that come so far it commits some fan-outs, makes some     *)
(* requests and records some answers.  Nothing is asked of the other        *)
(* instances, which may stop in the middle of a pass for good.              *)
RelayFairSpec ==
  /\ RelaySpec
  /\ \A i \in Steady :
       /\ WF_relayVars(ReadOutbox(i))
       /\ SF_relayVars(FanOut(i))
       /\ SF_relayVars(ReadDue(i))
       /\ SF_relayVars(\E d \in Deliveries : Send(i, d))
       /\ SF_relayVars(RecordDelivered(i) \/ RecordFailed(i))
-----------------------------------------------------------------------------
(* Every variable holds what its table or instance can hold.                *)
RelayTypeOK ==
  /\ outbox \in [Events -> {"absent", "waiting", "published"}]
  /\ aged \subseteq Events
  /\ alerts \in [Events -> Nat]
  /\ relaying \in [Instances -> [pc : {"idle", "read", "relayed"}, rows : SUBSET Events]]
  /\ delivery \in [Deliveries ->
       [status : {"absent", "pending", "failed", "delivered", "dead"}, attempts : Nat]]
  /\ delivering \in [Instances ->
       [pc : {"idle", "reading", "sending", "accepted"}, now : Deliveries \cup {NoDelivery},
        batch : SUBSET Deliveries, attempts : [Deliveries -> Nat]]]
  /\ \A i \in Instances :
       delivering[i].pc \in {"sending", "accepted"} => delivering[i].now \in delivering[i].batch
  /\ posts \in [Deliveries -> 0..2]

Rows(e, p) == {d \in Deliveries : d[1] = e /\ d[2] = p /\ delivery[d].status # "absent"}

(* "Two API instances polling together take different rows and nobody is    *)
(* messaged twice": the claim and both relays leave each points event with  *)
(* at most one alert, and an alerted row is never unpublished again.        *)
AlertedOnce ==
  \A e \in Events : alerts[e] <= 1 /\ (alerts[e] = 1 => outbox[e] = "published")

(* A delivery reported as delivered was accepted by its endpoint, and one   *)
(* reported as dead was tried MAX_ATTEMPTS times and no more.               *)
OutcomesAreTrue ==
  \A d \in Deliveries :
    /\ delivery[d].status = "delivered" => posts[d] > 0
    /\ delivery[d].status = "dead" <=>
         (delivery[d].attempts = MaxAttempts /\ delivery[d].status # "delivered")
    /\ delivery[d].attempts <= MaxAttempts

(* "At-least-once publication with no lost events", for every event.        *)
PublishedReachesEndpoints ==
  \A e \in Events, p \in Endpoints : outbox[e] = "published" => Rows(e, p) # {}

\* No instance has a delivery in hand any more, and it needs no other attempt.
Closed(d) ==
  /\ delivery[d].status \in {"delivered", "dead"}
  /\ \A i \in Instances : d \notin delivering[i].batch

(* A delivery that succeeded or was given up, and that no instance still    *)
(* has in hand, is never read, sent or rewritten again, whichever instances *)
(* relay and retry.  While one has, it is: of two instances that read the   *)
(* same row, the later answer is written over the earlier, so delivered may *)
(* still become failed and be sent once more.                               *)
ClosedStaysClosed ==
  [][\A d \in Deliveries :
       Closed(d) => Closed(d)' /\ delivery'[d] = delivery[d] /\ posts'[d] = posts[d]]_relayVars

(* "Retried, and dead-lettered after MAX_ATTEMPTS": the deliveries of an    *)
(* event that only webhooks read all end as delivered or dead, although     *)
(* passes die and endpoints may never answer.                               *)
EveryDeliveryEnds ==
  \A e \in Events \ PointsEvents, p \in Endpoints :
    outbox[e] = "waiting" ~>
      /\ Rows(e, p) # {}
      /\ \A d \in Rows(e, p) : delivery[d].status \in {"delivered", "dead"}
=============================================================================
