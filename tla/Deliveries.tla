---------------------------- MODULE Deliveries -----------------------------
(***************************************************************************)
(* Outgoing webhooks: WebhooksService (the endpoints), WebhookDispatcher   *)
(* (one delivery row for each endpoint an event concerns) and              *)
(* WebhookDeliveryWorker (posts the rows that are due, again and again     *)
(* until one is accepted or too many were not).                            *)
(*                                                                         *)
(* processDue reads all due rows, then takes them one by one: it posts     *)
(* each from the copy it read and saves that copy.  Nothing stops two      *)
(* calls of it from holding the same row.                                  *)
(***************************************************************************)
EXTENDS Integers

CONSTANTS
    Endpoints, Events,
    Workers,            \* calls of processDue at a time
    MaxAttempts,        \* maxAttempts of the worker
    MaxFaults           \* bound: crashes and database failures

ASSUME MaxAttemptsAssumption == MaxAttempts \in Nat \ {0}
ASSUME MaxFaultsAssumption == MaxFaults \in Nat

Deliveries == Events \X Endpoints

VARIABLES
    endpoint,           \* the rows of webhook_endpoints
    dispatch,           \* for each event, its dispatch to the endpoints
    row,                \* the rows of webhook_delivery_attempts
    worker,             \* calls of processDue with their copies of rows
    posts,              \* external: requests sent, counted up to PostsCounted
    accepted,           \* external: deliveries it has answered with 2xx
    shared,             \* ghost: deliveries that two workers held at a time
    uncounted,          \* ghost: requests whose outcome was not saved
    faults

ghosts == <<shared, uncounted>>
vars == <<endpoint, dispatch, row, worker, posts, accepted, ghosts, faults>>

\* Bound: enough to see one request too many.
PostsCounted == MaxAttempts + MaxFaults + 1

NoRow == [status |-> "none", attempt |-> 0, due |-> FALSE]

RowStatuses == {"none", "pending", "succeeded", "failed", "dead_letter"}

\* "new" has not been created yet, "removed" will not come back: ids are fresh.
EndpointRow == [at : {"new", "present", "removed"}, wanted : BOOLEAN]

IdleWorker == [at |-> "idle"]

Init ==
    /\ endpoint = [p \in Endpoints |-> [at |-> "new", wanted |-> FALSE]]
    /\ dispatch = [e \in Events |-> [at |-> "new", todo |-> {}]]
    /\ row = [k \in Deliveries |-> NoRow]
    /\ worker = [w \in Workers |-> IdleWorker]
    /\ posts = [k \in Deliveries |-> 0]
    /\ accepted = [k \in Deliveries |-> FALSE]
    /\ shared = {}
    /\ uncounted = [k \in Deliveries |-> 0]
    /\ faults = 0

-----------------------------------------------------------------------------
(***************************************************************************)
(* Endpoints.  "wanted" stands for enabled and subscribed to the events.   *)
(***************************************************************************)

Create(p) ==
    /\ endpoint[p].at = "new"
    /\ \E wanted \in BOOLEAN :
           endpoint' = [endpoint EXCEPT ![p] = [at |-> "present", wanted |-> wanted]]
    /\ UNCHANGED <<dispatch, row, worker, posts, accepted, ghosts, faults>>

\* It matters only to events not yet dispatched.
Update(p) ==
    /\ endpoint[p].at = "present"
    /\ \E e \in Events : dispatch[e].at = "new"
    /\ endpoint' = [endpoint EXCEPT ![p].wanted = ~@]
    /\ UNCHANGED <<dispatch, row, worker, posts, accepted, ghosts, faults>>

\* Its deliveries go with it: the foreign key cascades.  What was sent to it is
\* no longer counted.
Remove(p) ==
    /\ endpoint[p].at = "present"
    /\ endpoint' = [endpoint EXCEPT ![p].at = "removed"]
    /\ row' = [k \in Deliveries |-> IF k[2] = p THEN NoRow ELSE row[k]]
    /\ posts' = [k \in Deliveries |-> IF k[2] = p THEN 0 ELSE posts[k]]
    /\ accepted' = [k \in Deliveries |-> k[2] # p /\ accepted[k]]
    /\ UNCHANGED <<dispatch, worker, ghosts, faults>>

-----------------------------------------------------------------------------
(***************************************************************************)
(* The dispatcher, a listener on the event bus.                            *)
(***************************************************************************)

\* findEnabledForEvent.
Dispatch(e) ==
    /\ dispatch[e].at = "new"
    /\ dispatch' = [dispatch EXCEPT ![e] =
           [at |-> "enqueue",
            todo |-> {p \in Endpoints : endpoint[p].at = "present"
                                            /\ endpoint[p].wanted}]]
    /\ UNCHANGED <<endpoint, row, worker, posts, accepted, ghosts, faults>>

\* One insert for each endpoint found.  If that is gone the foreign key refuses
\* it and the dispatch ends there; the bus isolates the failure.
Enqueue(e) ==
    /\ dispatch[e].at = "enqueue"
    /\ IF dispatch[e].todo = {}
       THEN /\ dispatch' = [dispatch EXCEPT ![e].at = "ended"]
            /\ UNCHANGED row
       ELSE \E p \in dispatch[e].todo :
                IF endpoint[p].at = "present"
                THEN /\ row' = [row EXCEPT ![<<e, p>>] =
                            [status |-> "pending", attempt |-> 1, due |-> TRUE]]
                     /\ dispatch' = [dispatch EXCEPT ![e].todo = @ \ {p}]
                ELSE /\ dispatch' = [dispatch EXCEPT ![e].at = "cut"]
                     /\ UNCHANGED row
    /\ UNCHANGED <<endpoint, worker, posts, accepted, ghosts, faults>>

-----------------------------------------------------------------------------
(***************************************************************************)
(* The worker.  The repository leaves it to its host to call processDue,   *)
(* as often and at as many places as it likes; with autoDeliver the        *)
(* dispatcher does.  A request may never end: the client sets no timeout.  *)
(***************************************************************************)

Due == {k \in Deliveries : row[k].status \in {"pending", "failed"} /\ row[k].due}

\* nextAttemptAt passes.
Tick(k) ==
    /\ row[k].status = "failed" /\ ~row[k].due
    /\ row' = [row EXCEPT ![k].due = TRUE]
    /\ UNCHANGED <<endpoint, dispatch, worker, posts, accepted, ghosts, faults>>

InHand(call, k) == call.at \in {"post", "accepted", "refused"} /\ call.key = k

\* A call of processDue has a copy of the row that it may still save.
Holds(call, k) == InHand(call, k) \/ (call.at # "idle" /\ k \in DOMAIN call.batch)

\* The due rows are read.
Poll(w) ==
    /\ worker[w] = IdleWorker
    /\ Due # {}
    /\ worker' = [worker EXCEPT ![w] =
           [at |-> "take", batch |-> [k \in Due |-> row[k].attempt]]]
    /\ shared' = shared \cup {k \in Due : \E v \in Workers : Holds(worker[v], k)}
    /\ UNCHANGED <<endpoint, dispatch, row, posts, accepted, uncounted, faults>>

\* The next one; its endpoint is read.  If that is gone the row is too: saving
\* it as dead_letter would insert it, the foreign key refuses that, and the
\* exception ends the whole call.
Take(w) ==
    /\ worker[w].at = "take"
    /\ LET batch == worker[w].batch
       IN  IF DOMAIN batch = {}
           THEN worker' = [worker EXCEPT ![w] = IdleWorker]
           ELSE \E k \in DOMAIN batch :
                    worker' = [worker EXCEPT ![w] =
                        IF endpoint[k[2]].at = "present"
                        THEN [at |-> "post", key |-> k, attempt |-> batch[k],
                              batch |-> [d \in DOMAIN batch \ {k} |-> batch[d]]]
                        ELSE IdleWorker]
    /\ UNCHANGED <<endpoint, dispatch, row, posts, accepted, ghosts, faults>>

\* The endpoint of the row in hand is still there, and the row with it.
Present(w) == endpoint[worker[w].key[2]].at = "present"

\* Wrong on purpose: a request without an answer counts as accepted.
PostUnanswered(w) ==
    /\ worker[w].at = "post"
    /\ \E answer \in BOOLEAN :
           /\ worker' = [worker EXCEPT ![w].at = "accepted"]
           /\ posts' = [posts EXCEPT ![worker[w].key] =
                  IF @ < PostsCounted /\ Present(w) THEN @ + 1 ELSE @]
           /\ accepted' = [accepted EXCEPT
                  ![worker[w].key] = @ \/ (answer /\ Present(w))]
    /\ UNCHANGED <<endpoint, dispatch, row, ghosts, faults>>

\* The endpoint (external) is sent the event: it accepts with a 2xx, or answers
\* otherwise or not at all, having got the request or not.
Post(w) ==
    /\ worker[w].at = "post"
    /\ \E answer \in BOOLEAN :
           /\ worker' = [worker EXCEPT
                  ![w].at = IF answer THEN "accepted" ELSE "refused"]
           /\ posts' = [posts EXCEPT ![worker[w].key] =
                  IF @ < PostsCounted /\ Present(w) THEN @ + 1 ELSE @]
           /\ accepted' = [accepted EXCEPT
                  ![worker[w].key] = @ \/ (answer /\ Present(w))]
    /\ UNCHANGED <<endpoint, dispatch, row, ghosts, faults>>

Saved(w, new) ==
    /\ row' = [row EXCEPT ![worker[w].key] = new]
    /\ worker' = [worker EXCEPT ![w] =
           [at |-> "take", batch |-> worker[w].batch]]

\* The exception leaves processDue; the rest of the batch waits for a later one.
Abandoned(w) ==
    /\ worker' = [worker EXCEPT ![w] = IdleWorker]
    /\ UNCHANGED row

\* The row is saved as succeeded.  A failure of that save lands in the catch
\* meant for the request, and the delivery is treated as refused.
SaveAccepted(w) ==
    /\ worker[w].at = "accepted"
    /\ \/ /\ Present(w)
          /\ Saved(w, [status |-> "succeeded", due |-> FALSE,
                       attempt |-> worker[w].attempt])
          /\ UNCHANGED faults
       \/ /\ IF Present(w) THEN faults < MaxFaults /\ faults' = faults + 1
                           ELSE UNCHANGED faults
          /\ worker' = [worker EXCEPT ![w].at = "refused"]
          /\ UNCHANGED row
    /\ UNCHANGED <<endpoint, dispatch, posts, accepted, ghosts>>

\* Wrong on purpose: the retry that is about to be counted is already too many.
RefusedHasty(w) ==
    LET attempt == worker[w].attempt
    IN  IF attempt + 1 >= MaxAttempts
        THEN [status |-> "dead_letter", attempt |-> attempt, due |-> FALSE]
        ELSE [status |-> "failed", attempt |-> attempt + 1, due |-> FALSE]

\* Wrong on purpose: the counter stays where it is.
RefusedUncounted(w) ==
    LET attempt == worker[w].attempt
    IN  IF attempt >= MaxAttempts
        THEN [status |-> "dead_letter", attempt |-> attempt, due |-> FALSE]
        ELSE [status |-> "failed", attempt |-> attempt, due |-> FALSE]

\* What scheduleRetryOrDeadLetter makes of the copy: a later attempt, or none.
Refused(w) ==
    LET attempt == worker[w].attempt
    IN  IF attempt >= MaxAttempts
        THEN [status |-> "dead_letter", attempt |-> attempt, due |-> FALSE]
        ELSE [status |-> "failed", attempt |-> attempt + 1, due |-> FALSE]

\* Wrong on purpose: a row that is gone is inserted again.
SaveRefusedAnyway(w) ==
    /\ worker[w].at = "refused"
    /\ Saved(w, Refused(w))
    /\ UNCHANGED <<endpoint, dispatch, posts, accepted, ghosts, faults>>

SaveRefused(w) ==
    /\ worker[w].at = "refused"
    /\ \/ Present(w) /\ Saved(w, Refused(w)) /\ UNCHANGED <<uncounted, faults>>
       \/ ~Present(w) /\ Abandoned(w) /\ UNCHANGED <<uncounted, faults>>
       \/ /\ Present(w) /\ faults < MaxFaults /\ faults' = faults + 1
          /\ Abandoned(w)
          /\ uncounted' = [uncounted EXCEPT ![worker[w].key] = @ + 1]
    /\ UNCHANGED <<endpoint, dispatch, posts, accepted, shared>>

\* A request was sent whose outcome is not yet saved.
Outstanding(k) == \E w \in Workers : InHand(worker[w], k) /\ worker[w].at # "post"

\* The process dies: calls of processDue and dispatches are cut off.
Crash ==
    /\ faults < MaxFaults
    /\ faults' = faults + 1
    /\ worker' = [w \in Workers |-> IdleWorker]
    /\ dispatch' = [e \in Events |->
           IF dispatch[e].at = "enqueue" THEN [at |-> "cut", todo |-> {}]
           ELSE dispatch[e]]
    /\ uncounted' = [k \in Deliveries |->
           IF Outstanding(k) THEN uncounted[k] + 1 ELSE uncounted[k]]
    /\ UNCHANGED <<endpoint, row, posts, accepted, shared>>

WorkerStep(w) ==
    Poll(w) \/ Take(w) \/ Post(w) \/ SaveAccepted(w) \/ SaveRefused(w)

Next ==
    \/ \E p \in Endpoints : Create(p) \/ Update(p) \/ Remove(p)
    \/ \E e \in Events : Dispatch(e) \/ Enqueue(e)
    \/ \E w \in Workers : WorkerStep(w)
    \/ \E k \in Deliveries : Tick(k)
    \/ Crash

\* No fairness: nothing here calls processDue, and nothing ends a request.
Spec == Init /\ [][Next]_vars

-----------------------------------------------------------------------------
(***************************************************************************)
(* Properties                                                              *)
(***************************************************************************)

\* A row says succeeded only if its endpoint has accepted the event, whatever
\* two workers with copies of it write over each other.
SucceededMeansAccepted ==
    \A k \in Deliveries : row[k].status = "succeeded" => accepted[k]

\* A delivery is given up only after MaxAttempts requests, also when crashes and
\* stale copies set its counter back.
GivenUpAfterMaxAttempts ==
    \A k \in Deliveries : row[k].status = "dead_letter" => posts[k] >= MaxAttempts

\* A worker that holds a copy of a row does not bring it back after its endpoint
\* was removed, and a dispatch that has found the endpoint does not either.
RemovedStaysRemoved ==
    \A k \in Deliveries : endpoint[k[2]].at = "removed" => row[k] = NoRow

\* Of a delivery that no two workers have held at a time, no more requests are sent
\* than MaxAttempts, and one for each whose outcome a crash or a failed save has
\* lost: every refusal saved moves the attempt on, and what was accepted, given up or
\* taken by a worker is not sent by a later one.
RequestsAreCounted ==
    \A k \in Deliveries : k \notin shared => posts[k] <= MaxAttempts + uncounted[k]
=============================================================================
