--------------------------- MODULE ChangeRequests ---------------------------
(***************************************************************************)
(* Maker-checker governance of one brand and one kind of entity: the       *)
(* interceptor in front of the brand's own edits, the change requests it   *)
(* queues, and their review by several consoles at once.                   *)
(*                                                                         *)
(* A review is three database transactions: the request is read, the       *)
(* change is applied by the applier of the entity, the decision is         *)
(* recorded.  A payload is abstracted to the request that proposed it.     *)
(***************************************************************************)
EXTENDS Integers, Sequences

CONSTANTS Requests,   \* the change requests that may be submitted
          Entities,   \* ids of entities, in use or not yet
          Existing,   \* those in use at the start
          Changes,    \* what the brand's staff wants done
          Makers,     \* edits of the brand's staff that run at once
          Reviews,    \* reviews that run at once
          MaxDeaths   \* bound on reviews that die between two transactions

NoEntity == "no entity"
NoRequest == "no request"

Change == {[action |-> "create", entity |-> NoEntity]}
          \cup [action : {"update", "delete"}, entity : Entities]

ASSUME ChangeRequestsAssumption ==
  /\ Existing \subseteq Entities
  /\ Changes \subseteq Change
  /\ NoRequest \notin Requests
  /\ MaxDeaths \in Nat

Modes == {"autonomous", "approval_required", "superadmin_managed"}
Actions == {"create", "update", "delete"}
Decisions == {"approved", "rejected", "withdrawn"}

Unused == "unused"      \* an id nothing has been created under yet
Deleted == "deleted"

VARIABLES
  mode,       \* the effective governance mode
  entity,     \* what each entity was last written by
  request,    \* change_request
  audit,      \* the decisions in the audit trail of each request
  applied,    \* how often the change of each request has been applied
  maker,      \* the brand's edits that have passed resolveMode
  review,     \* the reviews that have read their request as pending
  disturbed,  \* requests with overlapping reviews, or one that died half-way
  deaths

vars == <<mode, entity, request, audit, applied, maker, review, disturbed, deaths>>

Live(e) == entity[e] \notin {Unused, Deleted}

NoChange == [action |-> "none", entity |-> NoEntity]
Asks(status, c) == [status |-> status, action |-> c.action, entity |-> c.entity]
Free == [request |-> NoRequest, to |-> "none", done |-> FALSE]

Init ==
  /\ mode \in Modes
  /\ entity = [e \in Entities |-> IF e \in Existing THEN "seed" ELSE Unused]
  /\ request = [r \in Requests |-> Asks("none", NoChange)]
  /\ audit = [r \in Requests |-> <<>>]
  /\ applied = [r \in Requests |-> 0]
  /\ maker = [k \in Makers |-> NoChange]
  /\ review = [v \in Reviews |-> Free]
  /\ disturbed = {}
  /\ deaths = 0
-----------------------------------------------------------------------------
\* setBrandGovernance.
SetMode(new) ==
  /\ mode' = new
  /\ UNCHANGED <<entity, request, audit, applied, maker, review, disturbed, deaths>>

\* What an applier, and the console itself, does to the entities: a create
\* takes a new id, an update or a delete of what is not there is refused.
Applies(action, e, by) ==
  CASE action = "create" ->
         \E new \in Entities : entity[new] = Unused /\ entity' = [entity EXCEPT ![new] = by]
    [] action = "update" -> Live(e) /\ entity' = [entity EXCEPT ![e] = by]
    [] OTHER -> Live(e) /\ entity' = [entity EXCEPT ![e] = Deleted]

\* resolveMode answers "autonomous": the edit goes on, in a transaction of its
\* own.
PassThrough(k, c) ==
  /\ maker[k] = NoChange
  /\ mode = "autonomous"
  /\ maker' = [maker EXCEPT ![k] = c]
  /\ UNCHANGED <<mode, entity, request, audit, applied, review, disturbed, deaths>>

Edit(k) ==
  /\ maker[k] # NoChange
  /\ Applies(maker[k].action, maker[k].entity, "edit") \/ UNCHANGED entity
  /\ maker' = [maker EXCEPT ![k] = NoChange]
  /\ UNCHANGED <<mode, request, audit, applied, review, disturbed, deaths>>

\* submit: by the interceptor when approval is required, or by the route for
\* change requests in any mode.  The entity must be there to be snapshot.
Submit(r, c) ==
  /\ request[r].status = "none"
  /\ c.action # "create" => Live(c.entity)
  /\ request' = [request EXCEPT ![r] = Asks("pending", c)]
  /\ UNCHANGED <<mode, entity, audit, applied, maker, review, disturbed, deaths>>
-----------------------------------------------------------------------------
\* Mutant of Reviewable: a request can be decided again.
ReviewableAgain(r) == request[r].status # "none"

\* "request is already approved": the status is checked when it is read.
Reviewable(r) == request[r].status = "pending"

\* approve, reject and withdraw read the request.
StartReview(v, r, to) ==
  /\ review[v] = Free
  /\ Reviewable(r)
  /\ review' = [review EXCEPT ![v] = [request |-> r, to |-> to, done |-> FALSE]]
  /\ disturbed' = IF \E w \in Reviews : review[w].request = r THEN disturbed \cup {r} ELSE disturbed
  /\ UNCHANGED <<mode, entity, request, audit, applied, maker, deaths>>

\* approve applies the change; nothing looks at the request again.
Apply(v) ==
  LET r == review[v].request IN
  /\ review[v].to = "approved" /\ ~ review[v].done
  /\ Applies(request[r].action, request[r].entity, r)
  /\ applied' = [applied EXCEPT ![r] = @ + 1]
  /\ review' = [review EXCEPT ![v].done = TRUE]
  /\ UNCHANGED <<mode, request, audit, maker, disturbed, deaths>>

\* The applier refuses (the entity is gone, the payload is not valid): approve
\* fails and the request stays as it is.
FailApply(v) ==
  /\ review[v].to = "approved" /\ ~ review[v].done
  /\ review' = [review EXCEPT ![v] = Free]
  /\ UNCHANGED <<mode, entity, request, audit, applied, maker, disturbed, deaths>>

\* Mutant of Ready: the approval is recorded before the change is applied.
ReadyAtOnce(v) == TRUE

Ready(v) == review[v].to = "approved" => review[v].done

\* The decision is written by id, whatever the status is by now, with its audit
\* record and its event.
Record(v) ==
  LET r == review[v].request IN
  /\ review[v] # Free
  /\ Ready(v)
  /\ request' = [request EXCEPT ![r].status = review[v].to]
  /\ audit' = [audit EXCEPT ![r] = Append(@, review[v].to)]
  /\ review' = [review EXCEPT ![v] = Free]
  /\ UNCHANGED <<mode, entity, applied, maker, disturbed, deaths>>

\* The process dies, or the recording transaction fails.
Die(v) ==
  /\ review[v] # Free
  /\ deaths < MaxDeaths
  /\ deaths' = deaths + 1
  /\ review' = [review EXCEPT ![v] = Free]
  /\ disturbed' = IF review[v].done THEN disturbed \cup {review[v].request} ELSE disturbed
  /\ UNCHANGED <<mode, entity, request, audit, applied, maker>>

Next ==
  \/ \E new \in Modes \ {mode} : SetMode(new)
  \/ \E k \in Makers : (\E c \in Changes : PassThrough(k, c)) \/ Edit(k)
  \/ \E r \in Requests, c \in Changes : Submit(r, c)
  \/ \E v \in Reviews :
       \/ \E r \in Requests, to \in Decisions : StartReview(v, r, to)
       \/ Apply(v) \/ FailApply(v) \/ Record(v) \/ Die(v)

Spec == Init /\ [][Next]_vars
-----------------------------------------------------------------------------
Status == {"none", "pending"} \cup Decisions

(* Every variable holds what its column can hold.                           *)
TypeOK ==
  /\ mode \in Modes
  /\ entity \in [Entities -> Requests \cup {Unused, Deleted, "seed", "edit"}]
  /\ request \in [Requests -> [status : Status, action : Actions \cup {"none"},
                              entity : Entities \cup {NoEntity}]]
  /\ audit \in [Requests -> Seq(Decisions)]
  /\ applied \in [Requests -> Nat]
  /\ maker \in [Makers -> Change \cup {NoChange}]
  /\ review \in [Reviews -> [request : Requests \cup {NoRequest},
                            to : Decisions \cup {"none"}, done : BOOLEAN]]
  /\ disturbed \subseteq Requests
  /\ deaths \in Nat

(* A request shown as approved took effect: whichever reviews overlap or    *)
(* die, an approval is recorded only after the change has been applied.     *)
ApprovedWasApplied == \A r \in Requests : request[r].status = "approved" => applied[r] > 0

Applying(r) == \E v \in Reviews : review[v].request = r /\ review[v].done

(* "On APPROVE: apply proposed_payload"; "On REJECT: do not apply": the     *)
(* change of a request is applied once if it is approved, never otherwise,  *)
(* and its trail holds that one decision - unless reviews of it overlapped  *)
(* or one died between its transactions.  Reviews of other requests for the *)
(* same entity, changes of mode and edits do not matter.                    *)
DecidedOnce ==
  \A r \in Requests \ disturbed :
    /\ applied[r] = IF request[r].status = "approved" \/ Applying(r) THEN 1 ELSE 0
    /\ audit[r] = IF request[r].status \in Decisions THEN <<request[r].status>> ELSE <<>>
=============================================================================
