-------------------------- MODULE DeliveriesProofs --------------------------
(***************************************************************************)
(* The safety properties of Deliveries for every set of endpoints, events  *)
(* and workers, every number of attempts and any number of faults.         *)
(*                                                                         *)
(* A worker writes what it makes of a copy over whatever the row has       *)
(* become, so what the properties say of rows has to hold of the copies    *)
(* too: an attempt n was preceded by n - 1 requests, and a copy about to   *)
(* be saved as succeeded was accepted.  It does while the endpoint is      *)
(* there.  Once it is removed it does not come back, and nothing of a copy *)
(* is saved any more.                                                      *)
(***************************************************************************)
EXTENDS Deliveries, TLAPS

Attempts == 1 .. MaxAttempts

Row == [status : RowStatuses, attempt : {0} \cup Attempts, due : BOOLEAN]

DispatchRow == [at : {"new", "enqueue", "cut", "ended"}, todo : SUBSET Endpoints]

Copies == UNION {[S -> Attempts] : S \in SUBSET Deliveries}

Taking == [at : {"take"}, batch : Copies]

Handling ==
    [at : {"post", "accepted", "refused"}, key : Deliveries, attempt : Attempts,
     batch : Copies]

Call == {IdleWorker} \cup Taking \cup Handling

DeliveriesTypeOK ==
    /\ endpoint \in [Endpoints -> EndpointRow]
    /\ dispatch \in [Events -> DispatchRow]
    /\ row \in [Deliveries -> Row]
    /\ worker \in [Workers -> Call]
    /\ posts \in [Deliveries -> Nat]
    /\ accepted \in [Deliveries -> BOOLEAN]

IsPresent(k) == endpoint[k[2]].at = "present"

\* What a row says of the requests that were sent.
RowHonest(k, r) ==
    /\ r.status = "succeeded" => accepted[k]
    /\ r.status = "dead_letter" => posts[k] >= MaxAttempts
    /\ r.status \in {"pending", "failed"} =>
           r.attempt \in Attempts /\ posts[k] >= r.attempt - 1

\* A copy is of a row that once was there, and its attempt was preceded by
\* others as long as the row is.
CopyHonest(k, attempt) ==
    /\ endpoint[k[2]].at # "new"
    /\ IsPresent(k) => posts[k] >= attempt - 1

CallHonest(call) ==
    /\ call \in Taking \cup Handling =>
           \A k \in DOMAIN call.batch : CopyHonest(k, call.batch[k])
    /\ call \in Handling =>
           /\ CopyHonest(call.key, call.attempt)
           /\ call.at \in {"accepted", "refused"} /\ IsPresent(call.key) =>
                  posts[call.key] >= call.attempt
           /\ call.at = "accepted" /\ IsPresent(call.key) => accepted[call.key]

RowsHonest ==
    \A k \in Deliveries :
        /\ RowHonest(k, row[k])
        /\ ~IsPresent(k) => row[k] = NoRow

DeliveriesInv ==
    /\ DeliveriesTypeOK
    /\ RowsHonest
    /\ \A w \in Workers : CallHonest(worker[w])
-----------------------------------------------------------------------------
(***************************************************************************)
(* Copies and calls                                                        *)
(***************************************************************************)

LEMMA CopiesAre ==
    ASSUME NEW batch \in Copies
    PROVE  /\ DOMAIN batch \subseteq Deliveries
           /\ batch \in [DOMAIN batch -> Attempts]
  BY DEF Copies

LEMMA CopiesOf ==
    ASSUME NEW S \in SUBSET Deliveries, NEW f \in [S -> Attempts]
    PROVE  f \in Copies
  BY DEF Copies

\* A call's kind is read off its place.
LEMMA CallKinds ==
    ASSUME NEW call \in Call
    PROVE  /\ call.at = "take" => call \in Taking
           /\ call.at \in {"post", "accepted", "refused"} => call \in Handling
  BY DEF Call, IdleWorker, Taking, Handling

LEMMA EndpointsOfDeliveries ==
    ASSUME DeliveriesTypeOK, NEW k \in Deliveries
    PROVE  k[2] \in Endpoints /\ endpoint[k[2]] \in EndpointRow
  BY DEF DeliveriesTypeOK, Deliveries

\* What no step does: an endpoint becomes new, or comes back; requests and
\* answers are forgotten while the endpoint is there.
Onward ==
    \A k \in Deliveries : endpoint[k[2]].at # "new" =>
        /\ endpoint'[k[2]].at # "new"
        /\ endpoint'[k[2]].at = "present" =>
               /\ IsPresent(k)
               /\ posts'[k] >= posts[k]
               /\ accepted[k] => accepted'[k]

\* A copy that is honest stays so...
LEMMA CopyStays ==
    ASSUME DeliveriesTypeOK, DeliveriesTypeOK', Onward,
           NEW k \in Deliveries, NEW n \in Attempts, CopyHonest(k, n)
    PROVE  CopyHonest(k, n)'
<1>1. posts[k] \in Nat /\ posts'[k] \in Nat /\ n \in Nat
  BY MaxAttemptsAssumption DEF DeliveriesTypeOK, Attempts
<1>2. QED
  BY <1>1 DEF Onward, CopyHonest, IsPresent

\* ...and so does a call.
LEMMA CallStays ==
    ASSUME DeliveriesTypeOK, DeliveriesTypeOK', Onward,
           NEW call \in Call, CallHonest(call)
    PROVE  CallHonest(call)'
<1>1. ASSUME call \in Taking \cup Handling, NEW k \in DOMAIN call.batch
      PROVE  CopyHonest(k, call.batch[k])'
  <2>1. call.batch \in Copies
    BY <1>1 DEF Taking, Handling
  <2>2. k \in Deliveries /\ call.batch[k] \in Attempts
    BY <1>1, <2>1, CopiesAre
  <2>3. CopyHonest(k, call.batch[k])
    BY <1>1 DEF CallHonest
  <2>4. QED
    BY <2>2, <2>3, CopyStays
<1>2. ASSUME call \in Handling
      PROVE  /\ CopyHonest(call.key, call.attempt)'
             /\ call.at \in {"accepted", "refused"} /\ IsPresent(call.key)' =>
                    posts'[call.key] >= call.attempt
             /\ call.at = "accepted" /\ IsPresent(call.key)' => accepted'[call.key]
  <2>1. call.key \in Deliveries /\ call.attempt \in Attempts
    BY <1>2 DEF Handling
  <2>2. CopyHonest(call.key, call.attempt)
    BY <1>2 DEF CallHonest
  <2>3. CopyHonest(call.key, call.attempt)'
    BY <2>1, <2>2, CopyStays
  <2>4. posts[call.key] \in Nat /\ posts'[call.key] \in Nat /\ call.attempt \in Nat
    BY <2>1, MaxAttemptsAssumption DEF DeliveriesTypeOK, Attempts
  <2>5. QED
    BY <1>2, <2>1, <2>2, <2>3, <2>4 DEF CallHonest, Onward, CopyHonest, IsPresent
<1>3. QED
  BY <1>1, <1>2 DEF CallHonest

LEMMA IdleIsHonest == CallHonest(IdleWorker)'
  BY DEF CallHonest, IdleWorker, Taking, Handling

\* A step that leaves the workers alone...
LEMMA QuietKeepsInv ==
    ASSUME DeliveriesInv, DeliveriesTypeOK', Onward, RowsHonest', UNCHANGED worker
    PROVE  DeliveriesInv'
<1>1. ASSUME NEW w \in Workers PROVE CallHonest(worker[w])'
  <2>1. worker[w] \in Call /\ CallHonest(worker[w])
    BY DEF DeliveriesInv, DeliveriesTypeOK
  <2>2. worker'[w] = worker[w]
    OBVIOUS
  <2>3. QED
    BY <2>1, <2>2, CallStays DEF DeliveriesInv
<1>2. QED
  BY <1>1 DEF DeliveriesInv

\* ...and one that takes one of them to an honest call.
LEMMA CallMoves ==
    ASSUME DeliveriesInv, DeliveriesTypeOK', Onward, RowsHonest',
           NEW w \in Workers, NEW call \in Call, CallHonest(call)',
           worker' = [worker EXCEPT ![w] = call]
    PROVE  DeliveriesInv'
<1>1. ASSUME NEW v \in Workers PROVE CallHonest(worker[v])'
  <2>1. CASE v = w
    <3>1. worker'[v] = call
      BY <2>1 DEF DeliveriesInv, DeliveriesTypeOK
    <3>2. QED
      BY <3>1
  <2>2. CASE v # w
    <3>1. worker'[v] = worker[v]
      BY <2>2 DEF DeliveriesInv, DeliveriesTypeOK
    <3>2. worker[v] \in Call /\ CallHonest(worker[v])
      BY DEF DeliveriesInv, DeliveriesTypeOK
    <3>3. CallHonest(worker[v])'
      BY <3>1, <3>2, CallStays DEF DeliveriesInv
    <3>4. QED
      BY <3>3
  <2>3. QED
    BY <2>1, <2>2
<1>2. QED
  BY <1>1 DEF DeliveriesInv

LEMMA CallGoesOn ==
    ASSUME DeliveriesInv, DeliveriesTypeOK', Onward, RowsHonest',
           NEW w \in Workers, NEW call \in Call, CallHonest(call),
           worker' = [worker EXCEPT ![w] = call]
    PROVE  DeliveriesInv'
<1>1. CallHonest(call)'
  BY CallStays DEF DeliveriesInv
<1>2. QED
  BY <1>1, CallMoves

LEMMA InitInv == Init => DeliveriesInv
<1> SUFFICES ASSUME Init PROVE DeliveriesInv
  OBVIOUS
<1>1. DeliveriesTypeOK
  BY MaxAttemptsAssumption DEF Init, DeliveriesTypeOK, EndpointRow, DispatchRow, Row,
     RowStatuses, NoRow, Call, IdleWorker
<1>2. RowsHonest
  BY DEF Init, RowsHonest, RowHonest, NoRow
<1>3. \A w \in Workers : CallHonest(worker[w])
  BY DEF Init, CallHonest, IdleWorker, Taking, Handling
<1>4. QED
  BY <1>1, <1>2, <1>3 DEF DeliveriesInv
-----------------------------------------------------------------------------
(***************************************************************************)
(* The steps                                                               *)
(***************************************************************************)

\* Steps that change neither endpoints nor what was sent to them.
LEMMA SameEndpoints ==
    ASSUME DeliveriesTypeOK, UNCHANGED <<endpoint, posts, accepted>>
    PROVE  Onward
<1>1. \A k \in Deliveries : posts[k] \in Nat
  BY DEF DeliveriesTypeOK
<1>2. QED
  BY <1>1 DEF Onward, IsPresent

LEMMA CreateKeepsInv ==
    ASSUME DeliveriesInv, NEW p \in Endpoints, Create(p)
    PROVE  DeliveriesInv'
<1>1. /\ endpoint[p].at = "new"
      /\ endpoint' \in [Endpoints -> EndpointRow]
      /\ endpoint'[p].at = "present"
      /\ \A q \in Endpoints \ {p} : endpoint'[q] = endpoint[q]
  BY DEF Create, DeliveriesInv, DeliveriesTypeOK, EndpointRow
<1>2. UNCHANGED <<dispatch, row, worker, posts, accepted>>
  BY DEF Create
<1>3. DeliveriesTypeOK /\ DeliveriesTypeOK'
  BY <1>1, <1>2 DEF DeliveriesInv, DeliveriesTypeOK
<1>4. Onward
  <2>1. \A k \in Deliveries : posts[k] \in Nat
    BY <1>3 DEF DeliveriesTypeOK
  <2>2. QED
    BY <1>1, <1>2, <1>3, <2>1, EndpointsOfDeliveries DEF Onward, IsPresent
<1>5. RowsHonest'
  <2>1. RowsHonest
    BY DEF DeliveriesInv
  <2>2. QED
    BY <1>1, <1>2, <1>3, <2>1, EndpointsOfDeliveries DEF RowsHonest, RowHonest, IsPresent
<1>6. QED
  BY <1>2, <1>3, <1>4, <1>5, QuietKeepsInv

LEMMA UpdateKeepsInv ==
    ASSUME DeliveriesInv, NEW p \in Endpoints, Update(p)
    PROVE  DeliveriesInv'
<1>1. /\ endpoint' \in [Endpoints -> EndpointRow]
      /\ \A q \in Endpoints : endpoint'[q].at = endpoint[q].at
  BY DEF Update, DeliveriesInv, DeliveriesTypeOK, EndpointRow
<1>2. UNCHANGED <<dispatch, row, worker, posts, accepted>>
  BY DEF Update
<1>3. DeliveriesTypeOK /\ DeliveriesTypeOK'
  BY <1>1, <1>2 DEF DeliveriesInv, DeliveriesTypeOK
<1>4. Onward
  <2>1. \A k \in Deliveries : posts[k] \in Nat
    BY <1>3 DEF DeliveriesTypeOK
  <2>2. QED
    BY <1>1, <1>2, <1>3, <2>1, EndpointsOfDeliveries DEF Onward, IsPresent
<1>5. RowsHonest'
  BY <1>1, <1>2, <1>3, EndpointsOfDeliveries
     DEF DeliveriesInv, RowsHonest, RowHonest, IsPresent
<1>6. QED
  BY <1>2, <1>3, <1>4, <1>5, QuietKeepsInv

LEMMA RemoveKeepsInv ==
    ASSUME DeliveriesInv, NEW p \in Endpoints, Remove(p)
    PROVE  DeliveriesInv'
<1>1. /\ endpoint' \in [Endpoints -> EndpointRow]
      /\ endpoint'[p].at = "removed"
      /\ \A q \in Endpoints \ {p} : endpoint'[q] = endpoint[q]
  BY DEF Remove, DeliveriesInv, DeliveriesTypeOK, EndpointRow
<1>2. /\ row' = [k \in Deliveries |-> IF k[2] = p THEN NoRow ELSE row[k]]
      /\ posts' = [k \in Deliveries |-> IF k[2] = p THEN 0 ELSE posts[k]]
      /\ accepted' = [k \in Deliveries |-> k[2] # p /\ accepted[k]]
      /\ UNCHANGED <<dispatch, worker>>
  BY DEF Remove
<1>3. DeliveriesTypeOK
  BY DEF DeliveriesInv
<1>4. DeliveriesTypeOK'
  <2>1. NoRow \in Row
    BY DEF NoRow, Row, RowStatuses
  <2>2. row' \in [Deliveries -> Row] /\ posts' \in [Deliveries -> Nat]
    BY <1>2, <1>3, <2>1 DEF DeliveriesTypeOK
  <2>3. accepted' \in [Deliveries -> BOOLEAN]
    BY <1>2, Zenon
  <2>4. QED
    BY <1>1, <1>2, <1>3, <2>2, <2>3 DEF DeliveriesTypeOK
<1>5. \A k \in Deliveries : k[2] # p =>
          row'[k] = row[k] /\ posts'[k] = posts[k] /\ accepted'[k] = accepted[k]
  BY <1>2, <1>3 DEF DeliveriesTypeOK
<1>6. Onward
  <2>1. \A k \in Deliveries : posts[k] \in Nat
    BY <1>3 DEF DeliveriesTypeOK
  <2>2. QED
    BY <1>1, <1>5, <1>3, <2>1, EndpointsOfDeliveries DEF Onward, IsPresent
<1>7. RowsHonest'
  <2>1. ASSUME NEW k \in Deliveries
        PROVE  RowHonest(k, row[k])' /\ (~IsPresent(k)' => row'[k] = NoRow)
    <3>1. RowHonest(k, row[k]) /\ (~IsPresent(k) => row[k] = NoRow)
      BY DEF DeliveriesInv, RowsHonest
    <3>2. CASE k[2] = p
      BY <1>2, <3>2 DEF RowHonest, NoRow
    <3>3. CASE k[2] # p
      BY <1>1, <1>3, <1>5, <3>1, <3>3, EndpointsOfDeliveries DEF RowHonest, IsPresent
    <3>4. QED
      BY <3>2, <3>3
  <2>2. QED
    BY <2>1 DEF RowsHonest
<1>8. QED
  BY <1>2, <1>4, <1>6, <1>7, QuietKeepsInv

\* A step that writes one row while its endpoint is there.
LEMMA RowWritten ==
    ASSUME DeliveriesInv, UNCHANGED <<endpoint, posts, accepted>>,
           NEW k \in Deliveries, NEW r, RowHonest(k, r), IsPresent(k),
           row' = [row EXCEPT ![k] = r]
    PROVE  RowsHonest'
<1>1. ASSUME NEW d \in Deliveries
      PROVE  RowHonest(d, row[d])' /\ (~IsPresent(d)' => row'[d] = NoRow)
  <2>1. RowHonest(d, row[d]) /\ (~IsPresent(d) => row[d] = NoRow)
    BY DEF DeliveriesInv, RowsHonest
  <2>2. IsPresent(d)' <=> IsPresent(d)
    BY DEF IsPresent
  <2>3. CASE d = k
    <3>1. row'[d] = r
      BY <2>3 DEF DeliveriesInv, DeliveriesTypeOK
    <3>2. QED
      BY <2>2, <2>3, <3>1 DEF RowHonest
  <2>4. CASE d # k
    <3>1. row'[d] = row[d]
      BY <2>4 DEF DeliveriesInv, DeliveriesTypeOK
    <3>2. QED
      BY <2>1, <2>2, <3>1 DEF RowHonest
  <2>5. QED
    BY <2>3, <2>4
<1>2. QED
  BY <1>1 DEF RowsHonest

LEMMA DispatchKeepsInv ==
    ASSUME DeliveriesInv, NEW e \in Events, Dispatch(e)
    PROVE  DeliveriesInv'
<1>1. UNCHANGED <<endpoint, row, worker, posts, accepted>>
  BY DEF Dispatch
<1>2. dispatch' \in [Events -> DispatchRow]
  BY DEF Dispatch, DeliveriesInv, DeliveriesTypeOK, DispatchRow
<1>3. DeliveriesTypeOK /\ DeliveriesTypeOK'
  BY <1>1, <1>2 DEF DeliveriesInv, DeliveriesTypeOK
<1>4. Onward
  BY <1>1, <1>3, SameEndpoints
<1>5. RowsHonest'
  BY <1>1 DEF DeliveriesInv, RowsHonest, RowHonest, IsPresent
<1>6. QED
  BY <1>1, <1>3, <1>4, <1>5, QuietKeepsInv

LEMMA EnqueueKeepsInv ==
    ASSUME DeliveriesInv, NEW e \in Events, Enqueue(e)
    PROVE  DeliveriesInv'
<1>1. UNCHANGED <<endpoint, worker, posts, accepted>>
  BY DEF Enqueue
<1>2. DeliveriesTypeOK /\ dispatch[e] \in DispatchRow
  BY DEF DeliveriesInv, DeliveriesTypeOK
<1>3. dispatch' \in [Events -> DispatchRow]
  <2>1. [dispatch[e] EXCEPT !.at = "ended"] \in DispatchRow
    BY <1>2 DEF DispatchRow
  <2>2. [dispatch[e] EXCEPT !.at = "cut"] \in DispatchRow
    BY <1>2 DEF DispatchRow
  <2>3. \A p : [dispatch[e] EXCEPT !.todo = @ \ {p}] \in DispatchRow
    BY <1>2 DEF DispatchRow
  <2>4. \E d \in DispatchRow : dispatch' = [dispatch EXCEPT ![e] = d]
    BY <2>1, <2>2, <2>3 DEF Enqueue
  <2>5. QED
    BY <1>2, <2>4 DEF DeliveriesTypeOK
<1>4. row' \in [Deliveries -> Row] /\ RowsHonest'
  <2>1. CASE UNCHANGED row
    BY <1>1, <1>2, <2>1 DEF DeliveriesInv, DeliveriesTypeOK, RowsHonest, RowHonest, IsPresent
  <2>2. ASSUME NEW p \in dispatch[e].todo, endpoint[p].at = "present",
               row' = [row EXCEPT ![<<e, p>>] =
                          [status |-> "pending", attempt |-> 1, due |-> TRUE]]
        PROVE  row' \in [Deliveries -> Row] /\ RowsHonest'
    <3> DEFINE r == [status |-> "pending", attempt |-> 1, due |-> TRUE]
    <3>1. <<e, p>> \in Deliveries
      BY <1>2 DEF DispatchRow, Deliveries
    <3>2. r \in Row
      BY MaxAttemptsAssumption DEF Row, RowStatuses, Attempts
    <3>3. row' \in [Deliveries -> Row]
      BY <1>2, <2>2, <3>1, <3>2 DEF DeliveriesTypeOK
    <3>4. posts[<<e, p>>] \in Nat
      BY <1>2, <3>1 DEF DeliveriesTypeOK
    <3>5. RowHonest(<<e, p>>, r)
      BY <3>4, MaxAttemptsAssumption DEF RowHonest, Attempts
    <3>6. IsPresent(<<e, p>>)
      BY <2>2 DEF IsPresent
    <3>7. RowsHonest'
      BY <1>1, <2>2, <3>1, <3>5, <3>6, RowWritten
    <3>8. QED
      BY <3>3, <3>7
  <2>3. QED
    BY <2>1, <2>2 DEF Enqueue
<1>5. DeliveriesTypeOK'
  BY <1>1, <1>2, <1>3, <1>4 DEF DeliveriesTypeOK
<1>6. Onward
  BY <1>1, <1>2, SameEndpoints
<1>7. QED
  BY <1>1, <1>4, <1>5, <1>6, QuietKeepsInv

LEMMA TickKeepsInv ==
    ASSUME DeliveriesInv, NEW k \in Deliveries, Tick(k)
    PROVE  DeliveriesInv'
<1>1. UNCHANGED <<endpoint, dispatch, worker, posts, accepted>>
  BY DEF Tick
<1>2. DeliveriesTypeOK /\ row[k] \in Row
  BY DEF DeliveriesInv, DeliveriesTypeOK
<1> DEFINE r == [row[k] EXCEPT !.due = TRUE]
<1>3. r \in Row /\ r.status = row[k].status /\ r.attempt = row[k].attempt
  BY <1>2 DEF Row
<1>4. row' = [row EXCEPT ![k] = r]
  BY DEF Tick
<1> HIDE DEF r
<1>5. DeliveriesTypeOK'
  BY <1>1, <1>2, <1>3, <1>4 DEF DeliveriesTypeOK
<1>6. RowHonest(k, r)
  BY <1>3 DEF DeliveriesInv, RowsHonest, RowHonest
<1>7. IsPresent(k)
  BY DEF DeliveriesInv, RowsHonest, NoRow, Tick
<1>8. RowsHonest'
  BY <1>1, <1>4, <1>6, <1>7, RowWritten
<1>9. QED
  BY <1>1, <1>2, <1>5, <1>8, SameEndpoints, QuietKeepsInv

\* A step of a worker that changes nothing else, and ends in an honest call.
LEMMA WorkerMoves ==
    ASSUME DeliveriesInv, UNCHANGED <<endpoint, dispatch, row, posts, accepted>>,
           NEW w \in Workers, NEW call \in Call, CallHonest(call),
           worker' = [worker EXCEPT ![w] = call]
    PROVE  DeliveriesInv'
<1>1. DeliveriesTypeOK /\ DeliveriesTypeOK'
  BY DEF DeliveriesInv, DeliveriesTypeOK
<1>2. RowsHonest'
  BY DEF DeliveriesInv, RowsHonest, RowHonest, IsPresent
<1>3. Onward
  BY <1>1, SameEndpoints
<1>4. QED
  BY <1>1, <1>2, <1>3, CallGoesOn

LEMMA IdleIsHonestNow == CallHonest(IdleWorker) /\ IdleWorker \in Call
  BY DEF CallHonest, IdleWorker, Taking, Handling, Call

LEMMA PollKeepsInv ==
    ASSUME DeliveriesInv, NEW w \in Workers, Poll(w)
    PROVE  DeliveriesInv'
<1> DEFINE copies == [k \in Due |-> row[k].attempt]
           call == [at |-> "take", batch |-> copies]
<1>1. UNCHANGED <<endpoint, dispatch, row, posts, accepted>>
  BY DEF Poll
<1>3. ASSUME NEW k \in Due PROVE row[k].attempt \in Attempts /\ CopyHonest(k, row[k].attempt)
  <2>1. k \in Deliveries /\ row[k].status \in {"pending", "failed"}
    BY DEF Due
  <2>2. RowHonest(k, row[k]) /\ IsPresent(k)
    BY <2>1 DEF DeliveriesInv, RowsHonest, NoRow
  <2>3. QED
    BY <2>1, <2>2 DEF RowHonest, CopyHonest, IsPresent
<1>4. copies \in Copies
  <2>1. Due \in SUBSET Deliveries
    BY DEF Due
  <2>2. copies \in [Due -> Attempts]
    BY <1>3
  <2>3. QED
    BY <2>1, <2>2, CopiesOf
<1>5. call \in Taking
  BY <1>4 DEF Taking
<1>6. CallHonest(call)
  <2>1. call \notin Handling
    BY DEF Handling
  <2>2. QED
    BY <1>3, <2>1 DEF CallHonest
<1>7. worker' = [worker EXCEPT ![w] = call]
  BY DEF Poll
<1>8. call \in Call
  BY <1>5 DEF Call
<1> HIDE DEF call
<1>9. QED
  BY <1>1, <1>6, <1>7, <1>8, WorkerMoves

LEMMA TakeKeepsInv ==
    ASSUME DeliveriesInv, NEW w \in Workers, Take(w)
    PROVE  DeliveriesInv'
<1> DEFINE batch == worker[w].batch
<1>1. UNCHANGED <<endpoint, dispatch, row, posts, accepted>>
  BY DEF Take
<1>2. worker[w] \in Taking /\ CallHonest(worker[w])
  BY CallKinds DEF DeliveriesInv, DeliveriesTypeOK, Take
<1>3. batch \in Copies
  BY <1>2 DEF Taking
<1>4. ASSUME worker' = [worker EXCEPT ![w] = IdleWorker] PROVE DeliveriesInv'
  BY <1>1, <1>4, IdleIsHonestNow, WorkerMoves
<1>5. ASSUME NEW k \in DOMAIN batch, endpoint[k[2]].at = "present",
             worker' = [worker EXCEPT ![w] =
                 [at |-> "post", key |-> k, attempt |-> batch[k],
                  batch |-> [d \in DOMAIN batch \ {k} |-> batch[d]]]]
      PROVE  DeliveriesInv'
  <2> DEFINE rest == [d \in DOMAIN batch \ {k} |-> batch[d]]
             call == [at |-> "post", key |-> k, attempt |-> batch[k], batch |-> rest]
  <2>1. rest \in Copies
    <3>1. DOMAIN batch \ {k} \in SUBSET Deliveries
      BY <1>3, CopiesAre
    <3>2. rest \in [DOMAIN batch \ {k} -> Attempts]
      BY <1>3, CopiesAre
    <3>3. QED
      BY <3>1, <3>2, CopiesOf
  <2>2. call \in Handling
    BY <1>3, <1>5, <2>1, CopiesAre DEF Handling
  <2>3. \A d \in DOMAIN batch : CopyHonest(d, batch[d])
    BY <1>2 DEF CallHonest
  <2>4. CallHonest(call)
    BY <2>3 DEF CallHonest
  <2>5. call \in Call
    BY <2>2 DEF Call
  <2>6. worker' = [worker EXCEPT ![w] = call]
    BY <1>5
  <2> HIDE DEF call
  <2>7. QED
    BY <1>1, <2>4, <2>5, <2>6, WorkerMoves
<1>6. QED
  BY <1>4, <1>5 DEF Take

LEMMA CountedEnough == PostsCounted \in Nat /\ PostsCounted > MaxAttempts
  BY MaxAttemptsAssumption, MaxFaultsAssumption DEF PostsCounted

LEMMA PostKeepsInv ==
    ASSUME DeliveriesInv, NEW w \in Workers, Post(w)
    PROVE  DeliveriesInv'
<1>1. UNCHANGED <<endpoint, dispatch, row>>
  BY DEF Post
<1>2. DeliveriesTypeOK /\ worker[w] \in Handling /\ CallHonest(worker[w])
  BY CallKinds DEF DeliveriesInv, DeliveriesTypeOK, Post
<1>3. PICK k : k = worker[w].key
  OBVIOUS
<1>4. k \in Deliveries /\ worker[w].attempt \in Attempts /\ CopyHonest(k, worker[w].attempt)
  BY <1>2, <1>3 DEF Handling, CallHonest
<1>5. PICK answer \in BOOLEAN :
          /\ worker' = [worker EXCEPT ![w].at = IF answer THEN "accepted" ELSE "refused"]
          /\ posts' = [posts EXCEPT ![k] = IF @ < PostsCounted /\ Present(w) THEN @ + 1 ELSE @]
          /\ accepted' = [accepted EXCEPT ![k] = @ \/ (answer /\ Present(w))]
  BY <1>3 DEF Post
<1>6. PICK call : call = [worker[w] EXCEPT !.at = IF answer THEN "accepted" ELSE "refused"]
  OBVIOUS
<1>7. /\ call \in Handling
      /\ call.at = (IF answer THEN "accepted" ELSE "refused")
      /\ call.key = k /\ call.attempt = worker[w].attempt /\ call.batch = worker[w].batch
  BY <1>2, <1>3, <1>6 DEF Handling
<1>8. worker' = [worker EXCEPT ![w] = call]
  BY <1>5, <1>6
<1>9. call \in Call
  BY <1>7 DEF Call
<1>10. posts \in [Deliveries -> Nat] /\ accepted \in [Deliveries -> BOOLEAN]
  BY <1>2 DEF DeliveriesTypeOK
<1>11. /\ posts' \in [Deliveries -> Nat]
       /\ \A d \in Deliveries : posts[d] <= posts'[d]
  BY <1>4, <1>5, <1>10, CountedEnough
<1>12. /\ accepted' \in [Deliveries -> BOOLEAN]
       /\ \A d \in Deliveries : accepted[d] => accepted'[d]
       /\ answer /\ Present(w) => accepted'[k]
  <2>1. accepted'[k] = (accepted[k] \/ (answer /\ Present(w)))
    BY <1>4, <1>5, <1>10
  <2>2. accepted' = [accepted EXCEPT ![k] = accepted[k] \/ (answer /\ Present(w))]
    BY <1>5
  <2>3. \A d \in Deliveries : d # k => accepted'[d] = accepted[d]
    BY <2>2, <1>10, Zenon
  <2>4. accepted' \in [Deliveries -> BOOLEAN]
    BY <2>2, <1>10, Zenon
  <2>5. QED
    BY <2>1, <2>3, <2>4, Zenon
<1>13. DeliveriesTypeOK'
  BY <1>1, <1>2, <1>8, <1>9, <1>11, <1>12 DEF DeliveriesTypeOK
<1>14. Onward
  <2>1. \A d \in Deliveries : posts'[d] >= posts[d]
    BY <1>10, <1>11
  <2>2. \A d \in Deliveries : accepted[d] => accepted'[d]
    BY <1>12, Zenon
  <2>3. endpoint' = endpoint
    BY <1>1
  <2>4. QED
    BY <2>1, <2>2, <2>3, Zenon DEF Onward, IsPresent
<1>15. CallHonest(call)'
  <2>1. ASSUME NEW d \in DOMAIN call.batch PROVE CopyHonest(d, call.batch[d])'
    <3>1. d \in Deliveries /\ call.batch[d] \in Attempts
      BY <1>7, CopiesAre DEF Handling
    <3>2. CopyHonest(d, call.batch[d])
      BY <1>2, <1>7 DEF CallHonest
    <3>3. QED
      BY <1>2, <1>13, <1>14, <3>1, <3>2, CopyStays
  <2>2. CopyHonest(call.key, call.attempt)'
    BY <1>2, <1>4, <1>7, <1>13, <1>14, CopyStays
  <2>3. IsPresent(k)' => posts'[k] >= call.attempt
    <3>1. posts[k] \in Nat /\ posts'[k] \in Nat /\ call.attempt \in 1 .. MaxAttempts
      BY <1>4, <1>7, <1>10, <1>11 DEF Attempts
    <3>2. SUFFICES ASSUME IsPresent(k)' PROVE posts'[k] >= call.attempt
      OBVIOUS
    <3>3. Present(w)
      BY <1>1, <1>3, <3>2 DEF IsPresent, Present
    <3>4. posts[k] >= call.attempt - 1
      BY <1>1, <1>4, <1>7, <3>2 DEF CopyHonest, IsPresent
    <3>5. posts' = [posts EXCEPT ![k] = IF @ < PostsCounted THEN @ + 1 ELSE @]
      BY <1>5, <3>3
    <3>6. posts'[k] = IF posts[k] < PostsCounted THEN posts[k] + 1 ELSE posts[k]
      BY <1>4, <1>10, <3>5
    <3>7. QED
      BY <3>1, <3>4, <3>6, MaxAttemptsAssumption, CountedEnough
  <2>4. call.at = "accepted" /\ IsPresent(k)' => accepted'[k]
    BY <1>1, <1>7, <1>3, <1>12 DEF IsPresent, Present
  <2>5. QED
    BY <1>7, <2>1, <2>2, <2>3, <2>4 DEF CallHonest
<1>16. RowsHonest'
  <2>1. ASSUME NEW d \in Deliveries
        PROVE  RowHonest(d, row[d])' /\ (~IsPresent(d)' => row'[d] = NoRow)
    <3>1. RowHonest(d, row[d]) /\ (~IsPresent(d) => row[d] = NoRow)
      BY DEF DeliveriesInv, RowsHonest
    <3>2. posts[d] \in Nat /\ posts'[d] \in Nat
      BY <1>10, <1>11
    <3>3. row[d].attempt \in Attempts => row[d].attempt \in Nat
      BY MaxAttemptsAssumption DEF Attempts
    <3>4. row[d].status = "succeeded" => accepted'[d]
      BY <1>12, <3>1, Zenon DEF RowHonest
    <3>5. /\ row[d].status = "dead_letter" => posts'[d] >= MaxAttempts
          /\ row[d].status \in {"pending", "failed"} =>
                 row[d].attempt \in Attempts /\ posts'[d] >= row[d].attempt - 1
      BY <1>11, <3>1, <3>2, <3>3, MaxAttemptsAssumption DEF RowHonest
    <3>6. QED
      BY <1>1, <3>1, <3>4, <3>5 DEF RowHonest, IsPresent
  <2>2. QED
    BY <2>1 DEF RowsHonest
<1>17. QED
  BY <1>8, <1>9, <1>13, <1>14, <1>15, <1>16, CallMoves

\* A worker saves what it makes of the copy in hand, and goes on with its batch.
LEMMA SavedKeepsInv ==
    ASSUME DeliveriesInv, UNCHANGED <<endpoint, dispatch, posts, accepted>>,
           NEW w \in Workers, worker[w] \in Handling, Present(w),
           NEW new \in Row, RowHonest(worker[w].key, new), Saved(w, new)
    PROVE  DeliveriesInv'
<1> DEFINE call == [at |-> "take", batch |-> worker[w].batch]
<1>1. DeliveriesTypeOK /\ CallHonest(worker[w]) /\ worker[w].key \in Deliveries
  BY DEF DeliveriesInv, Handling
<1>2. row' = [row EXCEPT ![worker[w].key] = new] /\ worker' = [worker EXCEPT ![w] = call]
  BY DEF Saved
<1>3. call \in Taking
  BY DEF Taking, Handling
<1>4. CallHonest(call)
  <2>1. call \notin Handling
    BY DEF Handling
  <2>2. QED
    BY <1>1, <2>1 DEF CallHonest
<1>5. call \in Call
  BY <1>3 DEF Call
<1> HIDE DEF call
<1>6. DeliveriesTypeOK'
  BY <1>1, <1>2, <1>5 DEF DeliveriesTypeOK
<1>7. IsPresent(worker[w].key)
  BY DEF Present, IsPresent
<1>8. RowsHonest'
  BY <1>1, <1>2, <1>7, RowWritten
<1>9. Onward
  BY <1>1, SameEndpoints
<1>10. QED
  BY <1>2, <1>4, <1>5, <1>6, <1>8, <1>9, CallGoesOn

LEMMA SaveAcceptedKeepsInv ==
    ASSUME DeliveriesInv, NEW w \in Workers, SaveAccepted(w)
    PROVE  DeliveriesInv'
<1>1. UNCHANGED <<endpoint, dispatch, posts, accepted>>
  BY DEF SaveAccepted
<1>2. worker[w] \in Handling /\ CallHonest(worker[w])
  BY CallKinds DEF DeliveriesInv, DeliveriesTypeOK, SaveAccepted
<1>3. worker[w].at = "accepted"
  BY DEF SaveAccepted
<1>4. ASSUME Present(w),
             Saved(w, [status |-> "succeeded", due |-> FALSE, attempt |-> worker[w].attempt])
      PROVE  DeliveriesInv'
  <2> DEFINE new == [status |-> "succeeded", due |-> FALSE, attempt |-> worker[w].attempt]
  <2>1. new \in Row
    BY <1>2 DEF Row, RowStatuses, Handling
  <2>2. accepted[worker[w].key]
    BY <1>2, <1>3, <1>4 DEF CallHonest, Present, IsPresent
  <2>3. RowHonest(worker[w].key, new)
    BY <2>2 DEF RowHonest
  <2>4. QED
    BY <1>1, <1>2, <1>4, <2>1, <2>3, SavedKeepsInv
<1>5. ASSUME worker' = [worker EXCEPT ![w].at = "refused"], UNCHANGED row
      PROVE  DeliveriesInv'
  <2> DEFINE call == [worker[w] EXCEPT !.at = "refused"]
  <2>1. /\ call \in Handling /\ call.at = "refused" /\ call.key = worker[w].key
        /\ call.attempt = worker[w].attempt /\ call.batch = worker[w].batch
    BY <1>2 DEF Handling
  <2>2. worker' = [worker EXCEPT ![w] = call]
    BY <1>5
  <2> HIDE DEF call
  <2>3. CallHonest(call)
    BY <1>2, <1>3, <2>1 DEF CallHonest
  <2>4. call \in Call
    BY <2>1 DEF Call
  <2>5. QED
    BY <1>1, <1>5, <2>2, <2>3, <2>4, WorkerMoves
<1>6. QED
  BY <1>4, <1>5 DEF SaveAccepted

LEMMA SaveRefusedKeepsInv ==
    ASSUME DeliveriesInv, NEW w \in Workers, SaveRefused(w)
    PROVE  DeliveriesInv'
<1>1. UNCHANGED <<endpoint, dispatch, posts, accepted>>
  BY DEF SaveRefused
<1>2. worker[w] \in Handling /\ CallHonest(worker[w])
  BY CallKinds DEF DeliveriesInv, DeliveriesTypeOK, SaveRefused
<1>3. ASSUME Present(w), Saved(w, Refused(w)) PROVE DeliveriesInv'
  <2>1. worker[w].attempt \in 1 .. MaxAttempts /\ worker[w].key \in Deliveries
    BY <1>2 DEF Handling, Attempts
  <2>2. posts[worker[w].key] \in Nat
    BY <2>1 DEF DeliveriesInv, DeliveriesTypeOK
  <2>3. posts[worker[w].key] >= worker[w].attempt
    BY <1>2, <1>3 DEF CallHonest, Present, IsPresent, SaveRefused
  <2>4. Refused(w) \in Row
    BY <2>1, MaxAttemptsAssumption DEF Refused, Row, RowStatuses, Attempts
  <2>5. RowHonest(worker[w].key, Refused(w))
    BY <2>1, <2>2, <2>3, MaxAttemptsAssumption DEF Refused, RowHonest, Attempts
  <2>6. QED
    BY <1>1, <1>2, <1>3, <2>4, <2>5, SavedKeepsInv
<1>4. ASSUME Abandoned(w) PROVE DeliveriesInv'
  BY <1>1, <1>4, IdleIsHonestNow, WorkerMoves DEF Abandoned
<1>5. QED
  BY <1>3, <1>4 DEF SaveRefused

LEMMA CrashKeepsInv == DeliveriesInv /\ Crash => DeliveriesInv'
<1> SUFFICES ASSUME DeliveriesInv, Crash PROVE DeliveriesInv'
  OBVIOUS
<1>1. UNCHANGED <<endpoint, row, posts, accepted>>
  BY DEF Crash
<1>2. DeliveriesTypeOK
  BY DEF DeliveriesInv
<1>3. dispatch' \in [Events -> DispatchRow]
  BY <1>2 DEF Crash, DeliveriesTypeOK, DispatchRow
<1>4. worker' = [w \in Workers |-> IdleWorker]
  BY DEF Crash
<1>5. DeliveriesTypeOK'
  BY <1>1, <1>2, <1>3, <1>4, IdleIsHonestNow DEF DeliveriesTypeOK
<1>6. RowsHonest'
  BY <1>1 DEF DeliveriesInv, RowsHonest, RowHonest, IsPresent
<1>7. ASSUME NEW w \in Workers PROVE CallHonest(worker[w])'
  <2>1. worker'[w] = IdleWorker
    BY <1>4
  <2>2. QED
    BY <2>1, IdleIsHonest
<1>8. QED
  BY <1>5, <1>6, <1>7 DEF DeliveriesInv

LEMMA NextKeepsInv == DeliveriesInv /\ [Next]_vars => DeliveriesInv'
<1> SUFFICES ASSUME DeliveriesInv, [Next]_vars PROVE DeliveriesInv'
  OBVIOUS
<1>1. ASSUME NEW p \in Endpoints, Create(p) \/ Update(p) \/ Remove(p)
      PROVE  DeliveriesInv'
  BY <1>1, CreateKeepsInv, UpdateKeepsInv, RemoveKeepsInv
<1>2. ASSUME NEW e \in Events, Dispatch(e) \/ Enqueue(e) PROVE DeliveriesInv'
  BY <1>2, DispatchKeepsInv, EnqueueKeepsInv
<1>3. ASSUME NEW w \in Workers, WorkerStep(w) PROVE DeliveriesInv'
  BY <1>3, PollKeepsInv, TakeKeepsInv, PostKeepsInv, SaveAcceptedKeepsInv,
     SaveRefusedKeepsInv DEF WorkerStep
<1>4. ASSUME NEW k \in Deliveries, Tick(k) PROVE DeliveriesInv'
  BY <1>4, TickKeepsInv
<1>5. CASE UNCHANGED vars
  <2>1. UNCHANGED <<endpoint, dispatch, row, worker, posts, accepted>>
    BY <1>5 DEF vars
  <2>2. DeliveriesTypeOK /\ DeliveriesTypeOK'
    BY <2>1 DEF DeliveriesInv, DeliveriesTypeOK
  <2>3. RowsHonest'
    BY <2>1 DEF DeliveriesInv, RowsHonest, RowHonest, IsPresent
  <2>4. QED
    BY <2>1, <2>2, <2>3, SameEndpoints, QuietKeepsInv
<1>6. QED
  BY <1>1, <1>2, <1>3, <1>4, <1>5, CrashKeepsInv DEF Next
-----------------------------------------------------------------------------
(***************************************************************************)
(* How often a delivery is sent                                            *)
(*                                                                         *)
(* Of a delivery that no two workers have held at a time there is one copy *)
(* at most, of the attempt that the row has.  So each attempt is sent      *)
(* once, but for the requests whose outcome was lost.                      *)
(***************************************************************************)

\* The dispatch of the event has yet to create the row.
Awaited(k) ==
    \/ dispatch[k[1]].at = "new"
    \/ dispatch[k[1]].at = "enqueue" /\ k[2] \in dispatch[k[1]].todo

Open(k) == row[k].status \in {"pending", "failed"}

\* The attempt in the copy that a call holds.
CopyOf(call, k) == IF InHand(call, k) THEN call.attempt ELSE call.batch[k]

Counted(k) ==
    /\ row[k].status = "none" =>
           /\ posts[k] = 0
           /\ IsPresent(k) => \A w \in Workers : ~Holds(worker[w], k)
    /\ Awaited(k) => row[k].status = "none"
    /\ k \notin shared /\ IsPresent(k) =>
           /\ \A v, w \in Workers : Holds(worker[v], k) /\ Holds(worker[w], k) => v = w
           /\ \A w \in Workers : Holds(worker[w], k) =>
                  Open(k) /\ CopyOf(worker[w], k) = row[k].attempt
           /\ posts[k] <= MaxAttempts + uncounted[k]
           /\ Open(k) /\ Outstanding(k) => posts[k] <= row[k].attempt + uncounted[k]
           /\ Open(k) /\ ~Outstanding(k) => posts[k] <= row[k].attempt - 1 + uncounted[k]

\* What a call has in hand it has taken out of its batch.
TakenOut(call) == \A k \in Deliveries : InHand(call, k) => k \notin DOMAIN call.batch

CountInv ==
    /\ DeliveriesInv
    /\ uncounted \in [Deliveries -> Nat]
    /\ \A w \in Workers : TakenOut(worker[w])
    /\ \A k \in Deliveries : Counted(k)

\* Call x has sent k and has yet to save what came of it.
Sent(x, k) == InHand(x, k) /\ x.at # "post"

LEMMA IdleHoldsNothing ==
    ASSUME NEW k
    PROVE  ~Holds(IdleWorker, k) /\ ~Sent(IdleWorker, k) /\ TakenOut(IdleWorker)
  BY DEF Holds, Sent, InHand, TakenOut, IdleWorker

LEMMA CountNumbers ==
    ASSUME CountInv, NEW k \in Deliveries
    PROVE  /\ posts[k] \in Nat /\ uncounted[k] \in Nat /\ MaxAttempts \in Nat
           /\ row[k].attempt \in Nat
           /\ Open(k) => row[k].attempt >= 1 /\ row[k].attempt <= MaxAttempts
<1>1. row[k] \in Row /\ posts[k] \in Nat
  BY DEF CountInv, DeliveriesInv, DeliveriesTypeOK
<1>2. row[k].attempt \in Nat
  BY <1>1, MaxAttemptsAssumption DEF Row, Attempts
<1>3. Open(k) => row[k].attempt \in Attempts
  BY DEF CountInv, DeliveriesInv, RowsHonest, RowHonest, Open
<1>4. QED
  BY <1>1, <1>2, <1>3, MaxAttemptsAssumption DEF CountInv, Attempts

\* Only of rows that once were there are copies held.
LEMMA HeldOnceExisted ==
    ASSUME CountInv, NEW w \in Workers, NEW k \in Deliveries, Holds(worker[w], k)
    PROVE  endpoint[k[2]].at # "new"
<1>1. worker[w] \in Call /\ CallHonest(worker[w])
  BY DEF CountInv, DeliveriesInv, DeliveriesTypeOK
<1>2. worker[w] \in Taking \cup Handling
  BY <1>1 DEF Call, Holds, InHand, IdleWorker
<1>3. CASE InHand(worker[w], k)
  BY <1>1, <1>3, CallKinds DEF InHand, CallHonest, CopyHonest
<1>4. CASE k \in DOMAIN worker[w].batch
  BY <1>1, <1>2, <1>4 DEF CallHonest, CopyHonest
<1>5. QED
  BY <1>3, <1>4 DEF Holds

\* What a step leaves alone stays counted: it sends nothing, and takes copies only away.
LEMMA CountedStays ==
    ASSUME CountInv, NEW k \in Deliveries, IsPresent(k)' => IsPresent(k),
           row'[k].status = row[k].status, row'[k].attempt = row[k].attempt,
           posts'[k] = posts[k], uncounted'[k] = uncounted[k],
           Awaited(k)' => Awaited(k),
           k \in shared => k \in shared',
           \A w \in Workers : Holds(worker'[w], k) =>
               Holds(worker[w], k) /\ CopyOf(worker'[w], k) = CopyOf(worker[w], k),
           \A w \in Workers : Sent(worker'[w], k) <=> Sent(worker[w], k)
    PROVE  Counted(k)'
<1>1. Counted(k)
  BY DEF CountInv
<1>2. Outstanding(k)' <=> Outstanding(k)
  BY DEF Outstanding, Sent
<1>3. Open(k)' <=> Open(k)
  BY DEF Open
<1>4. row[k].status = "none" =>
          posts'[k] = 0 /\ (IsPresent(k)' => \A w \in Workers : ~Holds(worker'[w], k))
  BY <1>1 DEF Counted
<1>5. Awaited(k)' => row[k].status = "none"
  BY <1>1 DEF Counted
<1>6. ASSUME k \notin shared', IsPresent(k)'
      PROVE  /\ \A v, w \in Workers : Holds(worker'[v], k) /\ Holds(worker'[w], k) => v = w
             /\ \A w \in Workers : Holds(worker'[w], k) =>
                    Open(k)' /\ CopyOf(worker'[w], k) = row'[k].attempt
             /\ posts'[k] <= MaxAttempts + uncounted'[k]
             /\ Open(k)' /\ Outstanding(k)' => posts'[k] <= row'[k].attempt + uncounted'[k]
             /\ Open(k)' /\ ~Outstanding(k)' =>
                    posts'[k] <= row'[k].attempt - 1 + uncounted'[k]
  BY <1>1, <1>2, <1>3, <1>6 DEF Counted
<1>7. QED
  BY <1>4, <1>5, <1>6 DEF Counted

\* Steps that leave the workers and what is counted alone.
LEMMA CountsStay ==
    ASSUME CountInv, DeliveriesInv', UNCHANGED <<worker, posts, ghosts>>,
           \A k \in Deliveries : /\ IsPresent(k)' => IsPresent(k)
                                 /\ row'[k].status = row[k].status
                                 /\ row'[k].attempt = row[k].attempt
                                 /\ Awaited(k)' => Awaited(k)
    PROVE  CountInv'
<1>1. UNCHANGED <<shared, uncounted>>
  BY DEF ghosts
<1>2. \A k \in Deliveries : Counted(k)'
  BY <1>1, CountedStays
<1>3. QED
  BY <1>1, <1>2 DEF CountInv, TakenOut, InHand

LEMMA InitCounts == Init => CountInv
<1> SUFFICES ASSUME Init PROVE CountInv
  OBVIOUS
<1>1. uncounted \in [Deliveries -> Nat]
  BY DEF Init
<1>2. \A w \in Workers : TakenOut(worker[w])
  BY IdleHoldsNothing DEF Init
<1>3. ASSUME NEW k \in Deliveries PROVE Counted(k)
  <2>1. row[k].status = "none" /\ posts[k] = 0 /\ uncounted[k] = 0
    BY DEF Init, NoRow
  <2>2. \A w \in Workers : ~Holds(worker[w], k)
    BY IdleHoldsNothing DEF Init
  <2>3. QED
    BY <2>1, <2>2, MaxAttemptsAssumption DEF Counted, Open
<1>4. QED
  BY <1>1, <1>2, <1>3, InitInv DEF CountInv

LEMMA CreateCounts ==
    ASSUME CountInv, DeliveriesInv', NEW p \in Endpoints, Create(p)
    PROVE  CountInv'
<1>1. /\ endpoint[p].at = "new"
      /\ \A q \in Endpoints \ {p} : endpoint'[q] = endpoint[q]
      /\ UNCHANGED <<dispatch, row, worker, posts, shared, uncounted>>
  BY DEF Create, CountInv, DeliveriesInv, DeliveriesTypeOK, ghosts
<1>2. ASSUME NEW k \in Deliveries PROVE Counted(k)'
  <2>1. k[2] \in Endpoints
    BY EndpointsOfDeliveries DEF CountInv, DeliveriesInv
  <2>2. CASE k[2] = p
    <3>1. ~IsPresent(k)
      BY <1>1, <2>2 DEF IsPresent
    <3>2. row[k].status = "none"
      BY <3>1 DEF CountInv, DeliveriesInv, RowsHonest, NoRow
    <3>3. posts[k] = 0
      BY <3>2 DEF CountInv, Counted
    <3>4. \A w \in Workers : ~Holds(worker[w], k)
      BY <1>1, <2>2, HeldOnceExisted
    <3>5. QED
      BY <1>1, <3>2, <3>3, <3>4, CountNumbers DEF Counted, Open
  <2>3. CASE k[2] # p
    <3>1. IsPresent(k)' => IsPresent(k)
      BY <1>1, <2>1, <2>3 DEF IsPresent
    <3>2. Awaited(k)' => Awaited(k)
      BY <1>1 DEF Awaited
    <3>3. QED
      BY <1>1, <3>1, <3>2, CountedStays
  <2>4. QED
    BY <2>2, <2>3
<1>3. QED
  BY <1>1, <1>2 DEF CountInv, TakenOut, InHand

LEMMA UpdateCounts ==
    ASSUME CountInv, DeliveriesInv', NEW p \in Endpoints, Update(p)
    PROVE  CountInv'
<1>1. /\ \A q \in Endpoints : endpoint'[q].at = endpoint[q].at
      /\ UNCHANGED <<dispatch, row, worker, posts, ghosts>>
  BY DEF Update, CountInv, DeliveriesInv, DeliveriesTypeOK, EndpointRow
<1>2. ASSUME NEW k \in Deliveries
      PROVE  (IsPresent(k)' => IsPresent(k)) /\ (Awaited(k)' => Awaited(k))
  <2>1. k[2] \in Endpoints
    BY EndpointsOfDeliveries DEF CountInv, DeliveriesInv
  <2>2. QED
    BY <1>1, <2>1 DEF IsPresent, Awaited
<1>3. QED
  BY <1>1, <1>2, CountsStay

LEMMA RemoveCounts ==
    ASSUME CountInv, DeliveriesInv', NEW p \in Endpoints, Remove(p)
    PROVE  CountInv'
<1>1. /\ endpoint'[p].at = "removed"
      /\ \A q \in Endpoints \ {p} : endpoint'[q] = endpoint[q]
      /\ row' = [k \in Deliveries |-> IF k[2] = p THEN NoRow ELSE row[k]]
      /\ posts' = [k \in Deliveries |-> IF k[2] = p THEN 0 ELSE posts[k]]
      /\ UNCHANGED <<dispatch, worker, shared, uncounted>>
  BY DEF Remove, CountInv, DeliveriesInv, DeliveriesTypeOK, EndpointRow, ghosts
<1>2. ASSUME NEW k \in Deliveries PROVE Counted(k)'
  <2>1. k[2] \in Endpoints
    BY EndpointsOfDeliveries DEF CountInv, DeliveriesInv
  <2>2. CASE k[2] = p
    <3>1. ~IsPresent(k)'
      BY <1>1, <2>2 DEF IsPresent
    <3>2. row'[k].status = "none" /\ posts'[k] = 0
      BY <1>1, <2>2 DEF NoRow
    <3>3. QED
      BY <3>1, <3>2 DEF Counted
  <2>3. CASE k[2] # p
    <3>1. row'[k] = row[k] /\ posts'[k] = posts[k]
      BY <1>1, <2>3
    <3>2. IsPresent(k)' => IsPresent(k)
      BY <1>1, <2>1, <2>3 DEF IsPresent
    <3>3. Awaited(k)' => Awaited(k)
      BY <1>1 DEF Awaited
    <3>4. QED
      BY <1>1, <3>1, <3>2, <3>3, CountedStays
  <2>4. QED
    BY <2>2, <2>3
<1>3. QED
  BY <1>1, <1>2 DEF CountInv, TakenOut, InHand

LEMMA DispatchCounts ==
    ASSUME CountInv, DeliveriesInv', NEW e \in Events, Dispatch(e)
    PROVE  CountInv'
<1>1. /\ dispatch[e].at = "new"
      /\ \A f \in Events \ {e} : dispatch'[f] = dispatch[f]
      /\ UNCHANGED <<endpoint, row, worker, posts, ghosts>>
  BY DEF Dispatch, CountInv, DeliveriesInv, DeliveriesTypeOK
<1>2. ASSUME NEW k \in Deliveries PROVE Awaited(k)' => Awaited(k)
  BY <1>1 DEF Awaited, Deliveries
<1>3. QED
  BY <1>1, <1>2, CountsStay DEF IsPresent

LEMMA EnqueueCounts ==
    ASSUME CountInv, DeliveriesInv', NEW e \in Events, Enqueue(e)
    PROVE  CountInv'
<1>1. /\ dispatch[e].at = "enqueue" /\ dispatch \in [Events -> DispatchRow]
      /\ UNCHANGED <<endpoint, worker, posts, ghosts, shared, uncounted>>
  BY DEF Enqueue, CountInv, DeliveriesInv, DeliveriesTypeOK, ghosts
<1>2. ASSUME UNCHANGED row,
             \/ dispatch' = [dispatch EXCEPT ![e].at = "ended"]
             \/ dispatch' = [dispatch EXCEPT ![e].at = "cut"]
      PROVE  CountInv'
  <2>1. /\ dispatch'[e].at \in {"ended", "cut"}
        /\ \A f \in Events \ {e} : dispatch'[f] = dispatch[f]
    BY <1>1, <1>2 DEF DispatchRow
  <2>2. \A k \in Deliveries : Awaited(k)' => Awaited(k)
    BY <2>1 DEF Awaited, Deliveries
  <2>3. QED
    BY <1>1, <1>2, <2>2, CountsStay DEF IsPresent
<1>3. ASSUME NEW p \in dispatch[e].todo, endpoint[p].at = "present",
             row' = [row EXCEPT ![<<e, p>>] =
                        [status |-> "pending", attempt |-> 1, due |-> TRUE]],
             dispatch' = [dispatch EXCEPT ![e].todo = @ \ {p}]
      PROVE  CountInv'
  <2>1. p \in Endpoints /\ <<e, p>> \in Deliveries
    BY <1>1 DEF DispatchRow, Deliveries
  <2>2. /\ dispatch'[e].at = "enqueue" /\ dispatch'[e].todo = dispatch[e].todo \ {p}
        /\ \A f \in Events \ {e} : dispatch'[f] = dispatch[f]
    BY <1>1, <1>3 DEF DispatchRow
  <2>3. ASSUME NEW k \in Deliveries, k # <<e, p>> PROVE Counted(k)'
    <3>1. row'[k] = row[k]
      BY <1>3, <2>3 DEF CountInv, DeliveriesInv, DeliveriesTypeOK
    <3>2. Awaited(k)' => Awaited(k)
      BY <1>1, <2>2 DEF Awaited, Deliveries
    <3>3. IsPresent(k)' => IsPresent(k)
      BY <1>1 DEF IsPresent
    <3>4. QED
      BY <1>1, <3>1, <3>2, <3>3, CountedStays
  <2>4. Counted(<<e, p>>)'
    <3> DEFINE k == <<e, p>>
    <3>1. Awaited(k) /\ IsPresent(k)
      BY <1>1, <1>3 DEF Awaited, IsPresent
    <3>2. posts[k] = 0 /\ \A w \in Workers : ~Holds(worker[w], k)
      BY <2>1, <3>1 DEF CountInv, Counted
    <3>3. ~Awaited(k)'
      BY <2>2 DEF Awaited
    <3>4. row'[k] = [status |-> "pending", attempt |-> 1, due |-> TRUE]
      BY <1>3, <2>1 DEF CountInv, DeliveriesInv, DeliveriesTypeOK
    <3>5. row'[k].status = "pending" /\ row'[k].attempt = 1
      BY <3>4
    <3>6. posts'[k] = 0 /\ uncounted'[k] \in Nat /\ MaxAttempts \in Nat
      BY <1>1, <2>1, <3>2, CountNumbers
    <3>7. \A w \in Workers : ~Holds(worker'[w], k)
      BY <1>1, <3>2
    <3> HIDE DEF k
    <3>8. Counted(k)'
      BY <3>3, <3>5, <3>6, <3>7 DEF Counted
    <3>9. QED
      BY <3>8 DEF k
  <2>5. \A k \in Deliveries : Counted(k)'
    BY <2>3, <2>4
  <2>6. QED
    BY <1>1, <2>5 DEF CountInv, TakenOut, InHand
<1>4. QED
  BY <1>2, <1>3 DEF Enqueue

LEMMA TickCounts ==
    ASSUME CountInv, DeliveriesInv', NEW k \in Deliveries, Tick(k)
    PROVE  CountInv'
<1>1. UNCHANGED <<endpoint, dispatch, worker, posts, ghosts>>
  BY DEF Tick
<1>2. \A d \in Deliveries :
          row'[d].status = row[d].status /\ row'[d].attempt = row[d].attempt
  BY DEF Tick, CountInv, DeliveriesInv, DeliveriesTypeOK, Row
<1>3. QED
  BY <1>1, <1>2, CountsStay DEF IsPresent, Awaited

LEMMA CountsMove ==
    ASSUME CountInv, DeliveriesInv', NEW w \in Workers, NEW call,
           worker' = [worker EXCEPT ![w] = call], TakenOut(call),
           uncounted' \in [Deliveries -> Nat], \A k \in Deliveries : Counted(k)'
    PROVE  CountInv'
<1>1. ASSUME NEW v \in Workers PROVE TakenOut(worker'[v])
  BY DEF CountInv, DeliveriesInv, DeliveriesTypeOK
<1>2. QED
  BY <1>1 DEF CountInv, TakenOut, InHand

\* Call w moves, and what it has of k stays or is dropped before it was sent.
LEMMA CountedMoves ==
    ASSUME CountInv, NEW k \in Deliveries, NEW w \in Workers, NEW call,
           worker' = [worker EXCEPT ![w] = call],
           UNCHANGED <<endpoint, dispatch>>, row'[k] = row[k],
           posts'[k] = posts[k], uncounted'[k] = uncounted[k], k \in shared => k \in shared',
           Holds(call, k) =>
               Holds(worker[w], k) /\ CopyOf(call, k) = CopyOf(worker[w], k),
           Sent(call, k) <=> Sent(worker[w], k)
    PROVE  Counted(k)'
<1>1. \A v \in Workers : worker'[v] = IF v = w THEN call ELSE worker[v]
  BY DEF CountInv, DeliveriesInv, DeliveriesTypeOK
<1>2. ASSUME NEW v \in Workers
      PROVE  /\ Holds(worker'[v], k) =>
                    Holds(worker[v], k) /\ CopyOf(worker'[v], k) = CopyOf(worker[v], k)
             /\ Sent(worker'[v], k) <=> Sent(worker[v], k)
  BY <1>1
<1>3. (IsPresent(k)' => IsPresent(k)) /\ (Awaited(k)' => Awaited(k))
  BY DEF IsPresent, Awaited
<1>4. QED
  BY <1>2, <1>3, CountedStays

\* The copy in hand of a row that is there.
LEMMA HandKnows ==
    ASSUME CountInv, NEW w \in Workers, NEW k \in Deliveries, InHand(worker[w], k),
           IsPresent(k)
    PROVE  /\ row[k].status # "none" /\ ~Awaited(k)
           /\ k \notin shared =>
                  /\ \A v \in Workers : Holds(worker[v], k) => v = w
                  /\ Open(k) /\ worker[w].attempt = row[k].attempt
                  /\ posts[k] <= MaxAttempts + uncounted[k]
                  /\ worker[w].at # "post" => posts[k] <= row[k].attempt + uncounted[k]
                  /\ worker[w].at = "post" => posts[k] <= row[k].attempt - 1 + uncounted[k]
<1>1. Counted(k) /\ Holds(worker[w], k)
  BY DEF CountInv, Holds
<1>2. row[k].status # "none" /\ ~Awaited(k)
  BY <1>1 DEF Counted
<1>3. ASSUME k \notin shared
      PROVE  /\ \A v \in Workers : Holds(worker[v], k) => v = w
             /\ Open(k) /\ worker[w].attempt = row[k].attempt
             /\ posts[k] <= MaxAttempts + uncounted[k]
             /\ Outstanding(k) => posts[k] <= row[k].attempt + uncounted[k]
             /\ ~Outstanding(k) => posts[k] <= row[k].attempt - 1 + uncounted[k]
  BY <1>1, <1>3 DEF Counted, CopyOf
<1>4. worker[w].at # "post" => Outstanding(k)
  BY DEF Outstanding
<1>5. k \notin shared /\ worker[w].at = "post" => ~Outstanding(k)
  BY <1>3 DEF Outstanding, Holds
<1>6. QED
  BY <1>2, <1>3, <1>4, <1>5

\* It is let go, when the row is saved or not.
LEMMA LetGo ==
    ASSUME CountInv, NEW w \in Workers, NEW k \in Deliveries, InHand(worker[w], k),
           IsPresent(k), NEW call, worker' = [worker EXCEPT ![w] = call], ~Holds(call, k),
           UNCHANGED <<endpoint, dispatch, shared>>, posts'[k] = posts[k],
           row'[k].status # "none",
           uncounted'[k] \in Nat, uncounted'[k] >= uncounted[k],
           k \notin shared /\ Open(k)' => posts[k] <= row'[k].attempt - 1 + uncounted'[k]
    PROVE  Counted(k)'
<1>1. \A v \in Workers : worker'[v] = IF v = w THEN call ELSE worker[v]
  BY DEF CountInv, DeliveriesInv, DeliveriesTypeOK
<1>2. ~Awaited(k)'
  BY HandKnows DEF Awaited
<1>3. ASSUME k \notin shared
      PROVE  /\ \A v \in Workers : ~Holds(worker'[v], k)
             /\ posts[k] <= MaxAttempts + uncounted'[k]
  BY <1>1, <1>3, HandKnows, CountNumbers
<1>4. k \notin shared => ~Outstanding(k)'
  BY <1>3 DEF Outstanding, Holds
<1>5. QED
  BY <1>2, <1>3, <1>4 DEF Counted

LEMMA PollCounts ==
    ASSUME CountInv, DeliveriesInv', NEW w \in Workers, Poll(w)
    PROVE  CountInv'
<1> DEFINE copies == [k \in Due |-> row[k].attempt]
           call == [at |-> "take", batch |-> copies]
<1>1. /\ worker[w] = IdleWorker /\ worker' = [worker EXCEPT ![w] = call]
      /\ shared' = shared \cup {k \in Due : \E v \in Workers : Holds(worker[v], k)}
      /\ UNCHANGED <<endpoint, dispatch, row, posts, uncounted>>
  BY DEF Poll
<1>2. \A k : ~InHand(call, k)
  BY DEF InHand
<1>3. \A k : Holds(call, k) <=> k \in Due
  BY <1>2 DEF Holds
<1>4. \A k : ~Sent(call, k) /\ ~Sent(worker[w], k)
  BY <1>1, <1>2, IdleHoldsNothing DEF Sent
<1>5. ASSUME NEW k \in Deliveries, k \notin Due PROVE Counted(k)'
  BY <1>1, <1>3, <1>4, <1>5, CountedMoves
<1>6. ASSUME NEW k \in Due PROVE Counted(k)'
  <2>1. k \in Deliveries /\ Open(k) /\ row[k].status # "none"
    BY DEF Due, Open
  <2>2. Counted(k) /\ ~Awaited(k)
    BY <2>1 DEF CountInv, Counted
  <2>3. CopyOf(call, k) = row[k].attempt
    BY <1>2 DEF CopyOf
  <2>4. \A v \in Workers : worker'[v] = IF v = w THEN call ELSE worker[v]
    BY <1>1 DEF CountInv, DeliveriesInv, DeliveriesTypeOK
  <2> HIDE DEF call
  <2>5. \A v \in Workers : Sent(worker'[v], k) <=> Sent(worker[v], k)
    BY <1>4, <2>4
  <2>6. Outstanding(k)' <=> Outstanding(k)
    BY <2>5 DEF Outstanding, Sent
  <2>7. ASSUME k \notin shared'
        PROVE  k \notin shared /\ \A v \in Workers : ~Holds(worker[v], k)
    BY <1>1, <2>7
  <2>8. k \notin shared' => \A v \in Workers : Holds(worker'[v], k) =>
            v = w /\ CopyOf(worker'[v], k) = row[k].attempt
    BY <2>3, <2>4, <2>7
  <2>9. ~Awaited(k)' /\ (IsPresent(k)' <=> IsPresent(k)) /\ Open(k)'
    BY <1>1, <2>1, <2>2 DEF Awaited, IsPresent, Open
  <2>10. QED
    BY <1>1, <2>1, <2>2, <2>6, <2>7, <2>8, <2>9 DEF Counted
<1>7. TakenOut(call)
  BY <1>2 DEF TakenOut
<1>8. uncounted' \in [Deliveries -> Nat]
  BY <1>1 DEF CountInv
<1> HIDE DEF call
<1>9. QED
  BY <1>1, <1>5, <1>6, <1>7, <1>8, CountsMove

LEMMA TakeCounts ==
    ASSUME CountInv, DeliveriesInv', NEW w \in Workers, Take(w)
    PROVE  CountInv'
<1> DEFINE batch == worker[w].batch
<1>1. /\ worker[w].at = "take"
      /\ UNCHANGED <<endpoint, dispatch, row, posts, shared, uncounted>>
  BY DEF Take, ghosts
<1>2. \A k : ~InHand(worker[w], k) /\ ~Sent(worker[w], k)
  BY <1>1 DEF InHand, Sent
<1>3. ASSUME NEW call, worker' = [worker EXCEPT ![w] = call], TakenOut(call),
             \A k \in Deliveries : ~Sent(call, k) /\
                 (Holds(call, k) => k \in DOMAIN batch /\ CopyOf(call, k) = batch[k])
      PROVE  CountInv'
  <2>1. ASSUME NEW k \in Deliveries PROVE Counted(k)'
    <3>1. Holds(call, k) =>
              Holds(worker[w], k) /\ CopyOf(call, k) = CopyOf(worker[w], k)
      BY <1>1, <1>2, <1>3 DEF Holds, CopyOf
    <3>2. QED
      BY <1>1, <1>2, <1>3, <3>1, CountedMoves
  <2>2. uncounted' \in [Deliveries -> Nat]
    BY <1>1 DEF CountInv
  <2>3. QED
    BY <1>3, <2>1, <2>2, CountsMove
<1>4. ASSUME worker' = [worker EXCEPT ![w] = IdleWorker] PROVE CountInv'
  BY <1>3, <1>4, IdleHoldsNothing
<1>5. ASSUME NEW k \in DOMAIN batch,
             worker' = [worker EXCEPT ![w] =
                 [at |-> "post", key |-> k, attempt |-> batch[k],
                  batch |-> [d \in DOMAIN batch \ {k} |-> batch[d]]]]
      PROVE  CountInv'
  <2> DEFINE call == [at |-> "post", key |-> k, attempt |-> batch[k],
                      batch |-> [d \in DOMAIN batch \ {k} |-> batch[d]]]
  <2>1. TakenOut(call)
    BY DEF TakenOut, InHand
  <2>2. ASSUME NEW d \in Deliveries
        PROVE  ~Sent(call, d) /\
                   (Holds(call, d) => d \in DOMAIN batch /\ CopyOf(call, d) = batch[d])
    BY DEF Sent, Holds, InHand, CopyOf
  <2>3. worker' = [worker EXCEPT ![w] = call]
    BY <1>5
  <2> HIDE DEF call
  <2>4. QED
    BY <1>3, <2>1, <2>2, <2>3
<1>6. QED
  BY <1>4, <1>5 DEF Take

LEMMA PostCounts ==
    ASSUME CountInv, DeliveriesInv', NEW w \in Workers, Post(w)
    PROVE  CountInv'
<1>1. /\ worker[w].at = "post" /\ worker[w] \in Handling
      /\ UNCHANGED <<endpoint, dispatch, row, shared, uncounted>>
  BY CallKinds DEF Post, CountInv, DeliveriesInv, DeliveriesTypeOK, ghosts
<1>2. PICK k \in Deliveries : k = worker[w].key /\ InHand(worker[w], k)
  BY <1>1 DEF Handling, InHand
<1>3. /\ \A d \in Deliveries \ {k} : posts'[d] = posts[d]
      /\ IF posts[k] < PostsCounted /\ IsPresent(k) THEN posts'[k] = posts[k] + 1
                                                    ELSE posts'[k] = posts[k]
  BY <1>2 DEF Post, Present, IsPresent, CountInv, DeliveriesInv, DeliveriesTypeOK
<1>4. PICK at \in {"accepted", "refused"} : worker' = [worker EXCEPT ![w].at = at]
  BY DEF Post
<1>5. PICK call : call = [worker[w] EXCEPT !.at = at]
  OBVIOUS
<1>6. /\ call.at = at /\ call.key = k /\ call.attempt = worker[w].attempt
      /\ call.batch = worker[w].batch
  BY <1>1, <1>2, <1>5 DEF Handling
<1>7. worker' = [worker EXCEPT ![w] = call]
  BY <1>4, <1>5
<1>8. \A d : /\ InHand(call, d) <=> InHand(worker[w], d)
             /\ Holds(call, d) <=> Holds(worker[w], d)
             /\ CopyOf(call, d) = CopyOf(worker[w], d)
  BY <1>1, <1>2, <1>4, <1>6 DEF InHand, Holds, CopyOf
<1>9. TakenOut(call)
  BY <1>6, <1>8 DEF CountInv, TakenOut
<1>10. ASSUME NEW d \in Deliveries \ {k} PROVE Counted(d)'
  <2>1. ~Sent(call, d) /\ ~Sent(worker[w], d)
    BY <1>2, <1>6 DEF Sent, InHand
  <2>2. QED
    BY <1>1, <1>3, <1>7, <1>8, <2>1, CountedMoves
<1>11. Counted(k)'
  <2>1. Counted(k)
    BY <1>2 DEF CountInv
  <2>2. CASE ~IsPresent(k)
    <3>1. posts'[k] = posts[k]
      BY <1>3, <2>2
    <3>2. ~IsPresent(k)'
      BY <1>1, <2>2 DEF IsPresent
    <3>3. QED
      BY <1>1, <2>1, <3>1, <3>2 DEF Counted, Awaited
  <2>3. CASE IsPresent(k)
    <3>1. row[k].status # "none" /\ ~Awaited(k)
      BY <1>2, <2>3, HandKnows
    <3>2. ASSUME k \notin shared
          PROVE  /\ \A v \in Workers : Holds(worker[v], k) => v = w
                 /\ Open(k) /\ worker[w].attempt = row[k].attempt
                 /\ posts'[k] <= row[k].attempt + uncounted[k]
                 /\ posts'[k] <= MaxAttempts + uncounted[k]
      BY <1>1, <1>2, <1>3, <2>3, <3>2, HandKnows, CountNumbers
    <3>3. \A v \in Workers : worker'[v] = IF v = w THEN call ELSE worker[v]
      BY <1>7 DEF CountInv, DeliveriesInv, DeliveriesTypeOK
    <3>4. \A v \in Workers : /\ Holds(worker'[v], k) <=> Holds(worker[v], k)
                             /\ CopyOf(worker'[v], k) = CopyOf(worker[v], k)
      BY <1>8, <3>3
    <3>5. CopyOf(worker[w], k) = worker[w].attempt
      BY <1>2 DEF CopyOf
    <3>6. Outstanding(k)'
      BY <1>2, <1>4, <1>6, <1>8, <3>3 DEF Outstanding
    <3>7. ~Awaited(k)' /\ (Open(k)' <=> Open(k))
      BY <1>1, <3>1 DEF Awaited, Open
    <3>8. QED
      BY <1>1, <3>1, <3>2, <3>4, <3>5, <3>6, <3>7 DEF Counted
  <2>4. QED
    BY <2>2, <2>3
<1>12. uncounted' \in [Deliveries -> Nat]
  BY <1>1 DEF CountInv
<1>13. \A d \in Deliveries : Counted(d)'
  BY <1>10, <1>11
<1>14. QED
  BY <1>7, <1>9, <1>12, <1>13, CountsMove

\* The row in hand is saved, with a later attempt if it is to be sent again.
LEMMA SavedCounts ==
    ASSUME CountInv, DeliveriesInv', NEW w \in Workers, worker[w] \in Handling,
           Present(w), NEW new, Saved(w, new), new.status # "none",
           UNCHANGED <<endpoint, dispatch, posts, shared, uncounted>>,
           worker[w].key \notin shared /\ new.status \in {"pending", "failed"} =>
               posts[worker[w].key] <= new.attempt - 1 + uncounted[worker[w].key]
    PROVE  CountInv'
<1>1. PICK k \in Deliveries : k = worker[w].key
  BY DEF Handling
<1>2. InHand(worker[w], k) /\ IsPresent(k)
  BY <1>1 DEF InHand, Handling, Present, IsPresent
<1> DEFINE call == [at |-> "take", batch |-> worker[w].batch]
<1>3. worker' = [worker EXCEPT ![w] = call] /\ row' = [row EXCEPT ![k] = new]
  BY <1>1 DEF Saved
<1>4. \A d : ~InHand(call, d)
  BY DEF InHand
<1>5. TakenOut(call) /\ \A d : ~Sent(call, d)
  BY <1>4 DEF TakenOut, Sent
<1>6. ASSUME NEW d PROVE Holds(call, d) => d \in DOMAIN worker[w].batch
  BY <1>4 DEF Holds
<1>7. row'[k] = new /\ \A d \in Deliveries \ {k} : row'[d] = row[d]
  BY <1>3 DEF CountInv, DeliveriesInv, DeliveriesTypeOK
<1>8. ASSUME NEW d \in Deliveries \ {k} PROVE Counted(d)'
  <2>1. ~InHand(worker[w], d) /\ ~Sent(worker[w], d)
    BY <1>1 DEF InHand, Sent
  <2>2. Holds(call, d) => Holds(worker[w], d) /\ CopyOf(call, d) = CopyOf(worker[w], d)
    BY <1>4, <1>6, <2>1 DEF Holds, CopyOf, Handling
  <2> HIDE DEF call
  <2>3. QED
    BY <1>3, <1>5, <1>7, <2>1, <2>2, CountedMoves
<1>9. Counted(k)'
  <2>1. ~Holds(call, k)
    BY <1>2, <1>6 DEF CountInv, TakenOut
  <2>2. uncounted'[k] \in Nat /\ uncounted'[k] >= uncounted[k]
    BY CountNumbers
  <2>3. k \notin shared /\ Open(k)' => posts[k] <= row'[k].attempt - 1 + uncounted'[k]
    BY <1>1, <1>7 DEF Open
  <2> HIDE DEF call
  <2>4. QED
    BY <1>2, <1>3, <1>7, <2>1, <2>2, <2>3, LetGo
<1>10. uncounted' \in [Deliveries -> Nat]
  BY DEF CountInv
<1> HIDE DEF call
<1>11. \A d \in Deliveries : Counted(d)'
  BY <1>8, <1>9
<1>12. QED
  BY <1>3, <1>5, <1>10, <1>11, CountsMove

LEMMA SaveAcceptedCounts ==
    ASSUME CountInv, DeliveriesInv', NEW w \in Workers, SaveAccepted(w)
    PROVE  CountInv'
<1>1. /\ worker[w].at = "accepted" /\ worker[w] \in Handling
      /\ UNCHANGED <<endpoint, dispatch, posts, shared, uncounted>>
  BY CallKinds DEF SaveAccepted, CountInv, DeliveriesInv, DeliveriesTypeOK, ghosts
<1>2. ASSUME Present(w),
             Saved(w, [status |-> "succeeded", due |-> FALSE, attempt |-> worker[w].attempt])
      PROVE  CountInv'
  BY <1>1, <1>2, SavedCounts
<1>3. ASSUME worker' = [worker EXCEPT ![w].at = "refused"], UNCHANGED row
      PROVE  CountInv'
  <2>1. PICK call : call = [worker[w] EXCEPT !.at = "refused"]
    OBVIOUS
  <2>2. /\ call.at = "refused" /\ call.key = worker[w].key
        /\ call.attempt = worker[w].attempt /\ call.batch = worker[w].batch
    BY <1>1, <2>1 DEF Handling
  <2>3. worker' = [worker EXCEPT ![w] = call]
    BY <1>3, <2>1
  <2>4. \A d : /\ InHand(call, d) <=> InHand(worker[w], d)
               /\ Sent(call, d) <=> Sent(worker[w], d)
               /\ Holds(call, d) <=> Holds(worker[w], d)
               /\ CopyOf(call, d) = CopyOf(worker[w], d)
    BY <1>1, <2>2 DEF InHand, Sent, Holds, CopyOf
  <2>5. TakenOut(call)
    BY <2>2, <2>4 DEF CountInv, TakenOut
  <2>6. \A d \in Deliveries : Counted(d)'
    BY <1>1, <1>3, <2>3, <2>4, CountedMoves
  <2>7. uncounted' \in [Deliveries -> Nat]
    BY <1>1 DEF CountInv
  <2>8. QED
    BY <2>3, <2>5, <2>6, <2>7, CountsMove
<1>4. QED
  BY <1>2, <1>3 DEF SaveAccepted

LEMMA SaveRefusedCounts ==
    ASSUME CountInv, DeliveriesInv', NEW w \in Workers, SaveRefused(w)
    PROVE  CountInv'
<1>1. /\ worker[w].at = "refused" /\ worker[w] \in Handling
      /\ UNCHANGED <<endpoint, dispatch, posts, shared>>
  BY CallKinds DEF SaveRefused, CountInv, DeliveriesInv, DeliveriesTypeOK
<1>2. PICK k \in Deliveries : k = worker[w].key
  BY <1>1 DEF Handling
<1>3. InHand(worker[w], k) /\ (Present(w) <=> IsPresent(k))
  BY <1>1, <1>2 DEF InHand, Present, IsPresent
<1>4. ASSUME Present(w), Saved(w, Refused(w)), UNCHANGED uncounted PROVE CountInv'
  <2>1. k \notin shared => /\ posts[k] <= worker[w].attempt + uncounted[k]
                           /\ worker[w].attempt \in Nat
    BY <1>1, <1>3, <1>4, HandKnows, CountNumbers
  <2>2. Refused(w).status # "none"
    BY DEF Refused
  <2>3. k \notin shared /\ Refused(w).status \in {"pending", "failed"} =>
            posts[k] <= Refused(w).attempt - 1 + uncounted[k]
    BY <2>1, CountNumbers DEF Refused
  <2>4. QED
    BY <1>1, <1>2, <1>4, <2>2, <2>3, SavedCounts
<1>5. ASSUME Abandoned(w), uncounted'[k] \in Nat, uncounted'[k] >= uncounted[k],
             uncounted' = [uncounted EXCEPT ![k] = uncounted'[k]],
             IsPresent(k) => uncounted'[k] = uncounted[k] + 1
      PROVE  CountInv'
  <2>1. worker' = [worker EXCEPT ![w] = IdleWorker] /\ UNCHANGED row
    BY <1>5 DEF Abandoned
  <2>2. /\ uncounted' \in [Deliveries -> Nat]
        /\ \A d \in Deliveries \ {k} : uncounted'[d] = uncounted[d]
    BY <1>5 DEF CountInv
  <2>3. ASSUME NEW d \in Deliveries \ {k} PROVE Counted(d)'
    <3>1. ~Sent(worker[w], d)
      BY <1>2 DEF Sent, InHand
    <3>2. QED
      BY <1>1, <2>1, <2>2, <3>1, IdleHoldsNothing, CountedMoves
  <2>4. CASE IsPresent(k)
    <3>1. row[k].status # "none"
      BY <1>3, <2>4, HandKnows
    <3>2. k \notin shared /\ Open(k) => posts[k] <= row[k].attempt - 1 + uncounted'[k]
      BY <1>1, <1>3, <1>5, <2>4, HandKnows, CountNumbers
    <3>3. Open(k)' <=> Open(k)
      BY <2>1 DEF Open
    <3>4. Counted(k)'
      BY <1>1, <1>3, <1>5, <2>1, <2>2, <2>4, <3>1, <3>2, <3>3, IdleHoldsNothing, LetGo
    <3>5. QED
      BY <2>1, <2>2, <2>3, <3>4, IdleHoldsNothing, CountsMove
  <2>5. CASE ~IsPresent(k)
    <3>1. ~IsPresent(k)' /\ Counted(k)
      BY <1>1, <2>5 DEF IsPresent, CountInv
    <3>2. Counted(k)'
      BY <1>1, <2>1, <3>1 DEF Counted, Awaited
    <3>3. QED
      BY <2>1, <2>2, <2>3, <3>2, IdleHoldsNothing, CountsMove
  <2>6. QED
    BY <2>4, <2>5
<1>6. ASSUME ~Present(w), Abandoned(w), UNCHANGED uncounted PROVE CountInv'
  <2>1. /\ uncounted[k] \in Nat /\ uncounted'[k] = uncounted[k]
        /\ uncounted' = [uncounted EXCEPT ![k] = uncounted'[k]]
    BY <1>6 DEF CountInv
  <2>2. QED
    BY <1>3, <1>5, <1>6, <2>1
<1>7. ASSUME Present(w), Abandoned(w),
             uncounted' = [uncounted EXCEPT ![worker[w].key] = @ + 1]
      PROVE  CountInv'
  <2>1. uncounted[k] \in Nat /\ uncounted'[k] = uncounted[k] + 1
    BY <1>2, <1>7 DEF CountInv
  <2>2. uncounted' = [uncounted EXCEPT ![k] = uncounted'[k]]
    BY <1>2, <1>7, <2>1
  <2>3. QED
    BY <1>5, <1>7, <2>1, <2>2
<1>8. QED
  BY <1>4, <1>6, <1>7 DEF SaveRefused

LEMMA CrashCounts == CountInv /\ DeliveriesInv' /\ Crash => CountInv'
<1> SUFFICES ASSUME CountInv, DeliveriesInv', Crash PROVE CountInv'
  OBVIOUS
<1>1. /\ worker' = [w \in Workers |-> IdleWorker]
      /\ uncounted' = [k \in Deliveries |->
             IF Outstanding(k) THEN uncounted[k] + 1 ELSE uncounted[k]]
      /\ UNCHANGED <<endpoint, row, posts, shared>>
  BY DEF Crash
<1>2. \A e \in Events : dispatch'[e] = IF dispatch[e].at = "enqueue"
                                       THEN [at |-> "cut", todo |-> {}] ELSE dispatch[e]
  BY DEF Crash
<1>3. uncounted' \in [Deliveries -> Nat]
  BY <1>1 DEF CountInv
<1>4. ASSUME NEW w \in Workers PROVE TakenOut(worker'[w])
  BY <1>1, IdleHoldsNothing
<1>5. ASSUME NEW k \in Deliveries PROVE Counted(k)'
  <2>1. Counted(k)
    BY DEF CountInv
  <2>2. \A w \in Workers : ~Holds(worker'[w], k)
    BY <1>1, IdleHoldsNothing
  <2>3. ~Outstanding(k)'
    BY <2>2 DEF Outstanding, Holds
  <2>4. Awaited(k)' => Awaited(k)
    BY <1>2 DEF Awaited, Deliveries
  <2>5. (IsPresent(k)' <=> IsPresent(k)) /\ (Open(k)' <=> Open(k))
    BY <1>1 DEF IsPresent, Open
  <2>6. uncounted'[k] = IF Outstanding(k) THEN uncounted[k] + 1 ELSE uncounted[k]
    BY <1>1
  <2>7. ASSUME k \notin shared, IsPresent(k)
        PROVE  /\ posts[k] <= MaxAttempts + uncounted'[k]
               /\ Open(k) => posts[k] <= row[k].attempt - 1 + uncounted'[k]
    BY <2>1, <2>6, <2>7, CountNumbers DEF Counted
  <2>8. QED
    BY <1>1, <2>1, <2>2, <2>3, <2>4, <2>5, <2>7 DEF Counted
<1>6. QED
  BY <1>3, <1>4, <1>5 DEF CountInv, TakenOut, InHand

LEMMA NextCounts == CountInv /\ [Next]_vars => CountInv'
<1> SUFFICES ASSUME CountInv, [Next]_vars PROVE CountInv'
  OBVIOUS
<1>1. DeliveriesInv'
  BY NextKeepsInv DEF CountInv
<1>2. ASSUME NEW p \in Endpoints, Create(p) \/ Update(p) \/ Remove(p) PROVE CountInv'
  BY <1>1, <1>2, CreateCounts, UpdateCounts, RemoveCounts
<1>3. ASSUME NEW e \in Events, Dispatch(e) \/ Enqueue(e) PROVE CountInv'
  BY <1>1, <1>3, DispatchCounts, EnqueueCounts
<1>4. ASSUME NEW w \in Workers, WorkerStep(w) PROVE CountInv'
  BY <1>1, <1>4, PollCounts, TakeCounts, PostCounts, SaveAcceptedCounts, SaveRefusedCounts
     DEF WorkerStep
<1>5. ASSUME NEW k \in Deliveries, Tick(k) PROVE CountInv'
  BY <1>1, <1>5, TickCounts
<1>6. CASE UNCHANGED vars
  <2>1. UNCHANGED <<endpoint, dispatch, row, worker, posts, ghosts>>
    BY <1>6 DEF vars
  <2>2. QED
    BY <1>1, <2>1, CountsStay DEF IsPresent, Awaited
<1>7. QED
  BY <1>1, <1>2, <1>3, <1>4, <1>5, <1>6, CrashCounts DEF Next
-----------------------------------------------------------------------------
(***************************************************************************)
(* The theorems                                                            *)
(***************************************************************************)

LEMMA InvHolds == Spec => []DeliveriesInv
  BY InitInv, NextKeepsInv, PTL DEF Spec

\* A delivery that its row shows as succeeded has been accepted, whatever
\* several workers with copies of it write over each other, whatever is
\* removed and wherever the process dies (WebhookDeliveryWorker.processDue).
THEOREM SuccessIsNeverInvented == Spec => []SucceededMeansAccepted
<1>1. DeliveriesInv => SucceededMeansAccepted
  BY DEF DeliveriesInv, RowsHonest, RowHonest, SucceededMeansAccepted
<1>2. QED
  BY <1>1, InvHolds, PTL

\* scheduleRetryOrDeadLetter gives a delivery up only after the endpoint was
\* sent maxAttempts requests: stale copies set the counter back, never forward.
THEOREM NothingIsGivenUpEarly == Spec => []GivenUpAfterMaxAttempts
<1>1. DeliveriesInv => GivenUpAfterMaxAttempts
  BY DEF DeliveriesInv, RowsHonest, RowHonest, GivenUpAfterMaxAttempts
<1>2. QED
  BY <1>1, InvHolds, PTL

\* The deliveries of an endpoint that was removed are gone for good: neither a
\* worker's copy nor a dispatch under way brings one back.
THEOREM RemovalIsFinal == Spec => []RemovedStaysRemoved
<1>1. DeliveriesInv => RemovedStaysRemoved
  BY DEF DeliveriesInv, RowsHonest, IsPresent, RemovedStaysRemoved
<1>2. QED
  BY <1>1, InvHolds, PTL

\* A delivery that no two workers held at a time is sent maxAttempts times at most, but
\* for the requests whose outcome a crash or a failed save has lost, however many crashes
\* there are and whatever is removed meanwhile (scheduleRetryOrDeadLetter).
THEOREM RefusalsAreCounted == Spec => []RequestsAreCounted
<1>1. CountInv => RequestsAreCounted
  <2>1. SUFFICES ASSUME CountInv, NEW k \in Deliveries, k \notin shared
                 PROVE  posts[k] <= MaxAttempts + uncounted[k]
    BY DEF RequestsAreCounted
  <2>2. CASE IsPresent(k)
    BY <2>1, <2>2 DEF CountInv, Counted
  <2>3. CASE ~IsPresent(k)
    <3>1. posts[k] = 0
      BY <2>1, <2>3 DEF CountInv, DeliveriesInv, RowsHonest, NoRow, Counted
    <3>2. QED
      BY <2>1, <3>1, CountNumbers
  <2>4. QED
    BY <2>2, <2>3
<1>2. QED
  BY <1>1, InitCounts, NextCounts, PTL DEF Spec
=============================================================================
