--------------------------- MODULE PaymentsProofs ---------------------------
(***************************************************************************)
(* The payment engine keeps the promise of PaymentLedger, asks the         *)
(* provider once for each idempotency key, and has points accrued only for *)
(* money that was taken: for any number of payments and of calls.          *)
(*                                                                         *)
(* None of this is inductive by itself, as what a step writes is what a    *)
(* call has read or been told earlier.  The invariant therefore says what  *)
(* each call in progress may know: the status it read is pending or a fact *)
(* that happened, so is the answer it was given and the webhook it heard,  *)
(* and facts stay facts.                                                   *)
(***************************************************************************)
EXTENDS Payments, TLAPS

Labels == {"lookup", "insert", "read", "ask", "save", "accrue", "credit", "open",
           "event", "find", "mark", "record"}

Methods == {"authorize", "capture", "refund", "webhook"}

Answers == {"none", "authorized", "captured", "refunded", "failed", "pending"}

CallRow ==
    [at : Labels, request : RequestType, method : Methods, failed : BOOLEAN,
     row : PaymentRow, answer : Answers]

EngineTypeOK ==
    /\ payment \in [Payments -> PaymentRow]
    /\ charge \in [Payments -> ChargeRow]
    /\ notices \subseteq Notice
    /\ call \in [Calls -> {Idle, Done} \cup CallRow]

\* What the books may show of a payment that is in them.
Known(p) == {"pending"} \cup charge[p].happened

\* The fact a webhook reports.
FactOf(action) ==
    CASE action = "authorize" -> "authorized"
      [] action = "capture" -> "captured"
      [] action = "refund" -> "refunded"
      [] action = "fail" -> "failed"

BooksOK ==
    \A p \in Payments :
        /\ payment[p].status # "none" => payment[p].status \in Known(p)
        /\ payment[p].status = "none" =>
               charge[p].state = "none" /\ charge[p].asked = 0 /\ ~payment[p].externalId
        /\ charge[p].state \in {"captured", "refunding", "refunded"} =>
               "captured" \in charge[p].happened

NoticesOK == \A n \in notices : FactOf(n.action) \in charge[n.payment].happened

\* What a call about p may know.
Knows(k, p) ==
    /\ k.at \in {"ask", "save", "mark"} =>
           k.row.status \in Known(p) /\ payment[p].status # "none"
    /\ k.at = "save" => k.answer \in Known(p)
    /\ k.at \in {"accrue", "credit", "open"} => "captured" \in charge[p].happened

\* A webhook's call has heard of something that happened.
Heard(k) ==
    /\ k.request.op = "webhook" =>
           FactOf(k.request.action) \in charge[k.request.payment].happened
    /\ k.at \in {"event", "find", "mark"} => k.request.op = "webhook"
    /\ k.at = "mark" => k.request.action \in {"authorize", "fail"}

\* authorize looks up and inserts, capture and refund read.
Method(k) ==
    /\ k.at \in {"lookup", "insert"} => k.method = "authorize"
    /\ k.at = "read" => k.method \in {"capture", "refund"}
    /\ k.at \in {"ask", "save"} => k.method \in {"authorize", "capture", "refund"}

CallOK(k) ==
    k \in CallRow => Knows(k, k.request.payment) /\ Heard(k) /\ Method(k)

\* A call that has inserted its row and is about to have it authorized.
Asking(k, p) ==
    k.at = "ask" /\ k.method = "authorize" /\ k.request.payment = p

\* The row was inserted by one call, and only that one asks.
AsksOK ==
    \A p \in Payments, c \in Calls :
        call[c] \in CallRow /\ Asking(call[c], p) =>
            /\ charge[p].asked = 0
            /\ \A d \in Calls :
                   call[d] \in CallRow /\ Asking(call[d], p) => d = c

AskedOnce == \A p \in Payments : charge[p].asked <= 1

EngineInv ==
    /\ EngineTypeOK
    /\ BooksOK
    /\ NoticesOK
    /\ \A c \in Calls : CallOK(call[c])
    /\ AsksOK
    /\ AskedOnce

-----------------------------------------------------------------------------
\* What no step takes back: facts, and rows.
Grows ==
    /\ payment' \in [Payments -> PaymentRow]
    /\ charge' \in [Payments -> ChargeRow]
    /\ notices' \subseteq Notice
    /\ \A p \in Payments : charge[p].happened \subseteq charge'[p].happened
    /\ \A p \in Payments : payment[p].status # "none" => payment'[p].status # "none"

\* What a call knows stays true.
LEMMA CallStays ==
    ASSUME Grows, NEW k, CallOK(k)
    PROVE  CallOK(k)'
<1>1. SUFFICES ASSUME k \in CallRow PROVE CallOK(k)'
  BY DEF CallOK
<1>2. k.request \in RequestType /\ k.request.payment \in Payments
  BY <1>1 DEF CallRow, RequestType
<1>3. Knows(k, k.request.payment)'
  BY <1>1, <1>2 DEF CallOK, Knows, Known, Grows
<1>4. Heard(k)'
  BY <1>1, <1>2 DEF CallOK, Heard, Grows
<1>5. QED
  BY <1>1, <1>3, <1>4 DEF CallOK, Method

\* Call c goes on as k, or ends; the others stay where they are.
Becomes(c, k) == call' = [call EXCEPT ![c] = k]

LEMMA CallsMove ==
    ASSUME EngineInv, Grows, NEW c \in Calls,
           NEW k \in {Idle, Done} \cup CallRow, Becomes(c, k), CallOK(k)'
    PROVE  /\ call' \in [Calls -> {Idle, Done} \cup CallRow]
           /\ call'[c] = k
           /\ \A d \in Calls \ {c} : call'[d] = call[d]
           /\ (\A d \in Calls : CallOK(call[d]))'
<1>1. /\ call' \in [Calls -> {Idle, Done} \cup CallRow]
      /\ call'[c] = k
      /\ \A d \in Calls \ {c} : call'[d] = call[d]
  BY DEF EngineInv, EngineTypeOK, Becomes
<1>2. ASSUME NEW d \in Calls PROVE CallOK(call[d])'
  <2>1. CASE d = c
    BY <1>1, <2>1
  <2>2. CASE d # c
    <3>1. CallOK(call[d])
      BY DEF EngineInv
    <3>2. QED
      BY <1>1, <2>2, <3>1, CallStays
  <2>3. QED
    BY <2>1, <2>2
<1>3. QED
  BY <1>1, <1>2
\* A call that asks the provider to authorize nothing.
Silent(k) == k \in CallRow => k.at # "ask" \/ k.method # "authorize"

\* A step that moves one call and nothing else.
LEMMA QuietKeepsInv ==
    ASSUME EngineInv, UNCHANGED <<payment, charge, notices>>, NEW c \in Calls,
           NEW k \in {Idle, Done} \cup CallRow, Becomes(c, k), CallOK(k), Silent(k)
    PROVE  EngineInv'
<1>1. Grows
  BY DEF EngineInv, EngineTypeOK, Grows
<1>2. CallOK(k)'
  BY <1>1, CallStays
<1>3. /\ call' \in [Calls -> {Idle, Done} \cup CallRow]
      /\ call'[c] = k
      /\ \A d \in Calls \ {c} : call'[d] = call[d]
      /\ (\A d \in Calls : CallOK(call[d]))'
  BY <1>1, <1>2, CallsMove
<1>4. (EngineTypeOK /\ BooksOK /\ NoticesOK /\ AskedOnce)'
  BY <1>3 DEF EngineInv, EngineTypeOK, BooksOK, NoticesOK, AskedOnce, Known
<1>5. AsksOK'
  BY <1>3 DEF EngineInv, AsksOK, Asking, Silent
<1>6. QED
  BY <1>3, <1>4, <1>5 DEF EngineInv

\* Where a call goes when its method returns or throws, or the process dies.
LEMMA EndsWell ==
    ASSUME EngineInv, NEW c \in Calls, call[c] \in CallRow,
           Return(c) \/ Throw(c) \/ Finish(c)
    PROVE  \E k \in {Done} \cup CallRow : Becomes(c, k) /\ CallOK(k) /\ Silent(k)
<1>1. CASE Finish(c)
  <2>1. Done \notin CallRow
    BY DEF Done, CallRow, Labels
  <2>2. QED
    BY <1>1, <2>1 DEF Finish, Becomes, CallOK, Silent
<1>2. CASE /\ call' = [call EXCEPT ![c].at = "record"]
           /\ call[c].request.op = "webhook"
  <2> DEFINE k == [call[c] EXCEPT !.at = "record"]
  <2>1. Becomes(c, k)
    BY <1>2 DEF Becomes
  <2>2. /\ k \in CallRow /\ k.at = "record" /\ k.request = call[c].request
    BY DEF CallRow, Labels
  <2>3. CallOK(call[c])
    BY DEF EngineInv
  <2>4. CallOK(k)
    BY <2>2, <2>3 DEF CallOK, Knows, Heard, Method
  <2>5. QED
    BY <2>1, <2>2, <2>4 DEF Silent
<1>3. CASE /\ call' = [call EXCEPT ![c].at = "record", ![c].failed = TRUE]
           /\ call[c].request.op = "webhook"
  <2> DEFINE k == [call[c] EXCEPT !.at = "record", !.failed = TRUE]
  <2>1. Becomes(c, k)
    BY <1>3 DEF Becomes, EngineInv, EngineTypeOK
  <2>2. /\ k \in CallRow /\ k.at = "record" /\ k.request = call[c].request
    BY DEF CallRow, Labels
  <2>3. CallOK(call[c])
    BY DEF EngineInv
  <2>4. CallOK(k)
    BY <2>2, <2>3 DEF CallOK, Knows, Heard, Method
  <2>5. QED
    BY <2>1, <2>2, <2>4 DEF Silent
<1>4. QED
  BY <1>1, <1>2, <1>3 DEF Return, Throw, IsWebhook, Goto, Finish
LEMMA EndKeepsInv ==
    ASSUME EngineInv, UNCHANGED <<payment, charge, notices>>,
           NEW c \in Calls, call[c] \in CallRow,
           Return(c) \/ Throw(c) \/ Finish(c)
    PROVE  EngineInv'
BY EndsWell, QuietKeepsInv

\* A call goes on to another step with what it knows.
LEMMA GotoKeepsInv ==
    ASSUME EngineInv, UNCHANGED <<payment, charge, notices>>,
           NEW c \in Calls, call[c] \in CallRow,
           NEW label \in {"insert", "accrue", "credit", "open", "find", "record"},
           Goto(c, label),
           label = "insert" => call[c].method = "authorize",
           label \in {"accrue", "credit", "open"} =>
               "captured" \in charge[PaymentOf(c)].happened,
           label = "find" => IsWebhook(c)
    PROVE  EngineInv'
<1> DEFINE k == [call[c] EXCEPT !.at = label]
<1>1. Becomes(c, k)
  BY DEF Becomes, Goto
<1>2. /\ k \in CallRow /\ k.at = label /\ k.request = call[c].request
      /\ k.method = call[c].method
  BY DEF CallRow, Labels
<1>3. CallOK(call[c])
  BY DEF EngineInv
<1>4. CallOK(k)
  BY <1>2, <1>3 DEF CallOK, Knows, Heard, Method, PaymentOf, IsWebhook
<1>5. Silent(k)
  BY <1>2 DEF Silent
<1>6. QED
  BY <1>1, <1>2, <1>4, <1>5, QuietKeepsInv

\* Where a call is, it is one, and it knows what belongs there.
LEMMA CallAt ==
    ASSUME EngineInv, NEW c \in Calls, NEW label \in Labels, At(c, label)
    PROVE  call[c] \in CallRow /\ CallOK(call[c]) /\ PaymentOf(c) \in Payments
<1>1. call[c] \in CallRow
  BY DEF EngineInv, EngineTypeOK, At, Idle, Done, Labels
<1>2. QED
  BY <1>1 DEF EngineInv, PaymentOf, CallRow, RequestType

-----------------------------------------------------------------------------
LEMMA InitInv == PaymentsInit => EngineInv
<1>1. SUFFICES ASSUME PaymentsInit PROVE EngineInv
  OBVIOUS
<1>2. EngineTypeOK
  BY <1>1 DEF PaymentsInit, EngineTypeOK, PaymentRow, ChargeRow
<1>3. BooksOK /\ NoticesOK /\ AskedOnce
  BY <1>1 DEF PaymentsInit, BooksOK, NoticesOK, AskedOnce
<1>4. Idle \notin CallRow
  BY DEF Idle, CallRow, Labels
<1>5. (\A c \in Calls : CallOK(call[c])) /\ AsksOK
  BY <1>1, <1>4 DEF PaymentsInit, CallOK, AsksOK
<1>6. QED
  BY <1>2, <1>3, <1>5 DEF EngineInv

LEMMA StartKeepsInv ==
    ASSUME EngineInv, NEW c \in Calls, NEW req \in Requests, Start(c, req)
    PROVE  EngineInv'
<1> DEFINE k == [at |-> CASE req.op = "authorize" -> "lookup"
                          [] req.op = "webhook" -> "event"
                          [] OTHER -> "read",
                 request |-> req, method |-> req.op, failed |-> FALSE,
                 row |-> [status |-> "none", externalId |-> FALSE],
                 answer |-> "none"]
<1>1. Becomes(c, k)
  BY DEF Start, Becomes
<1>2. req \in RequestType
  BY RequestsAssumption
<1>3. /\ req.op \in Methods
      /\ req.op = "webhook" =>
             req.payment \in Payments /\ req.action \in Actions
  BY <1>2 DEF RequestType, Methods
<1>4. k \in CallRow
  BY <1>2, <1>3 DEF CallRow, Labels, Answers, Methods, PaymentRow
<1>5. req.op = "webhook" => FactOf(req.action) \in charge[req.payment].happened
  BY <1>3 DEF EngineInv, NoticesOK, Start
<1>6. CallOK(k)
  BY <1>3, <1>5 DEF CallOK, Knows, Heard, Method, Methods
<1>7. Silent(k)
  BY DEF Silent
<1>8. QED
  BY <1>1, <1>4, <1>6, <1>7, QuietKeepsInv DEF Start

LEMMA LookupKeepsInv ==
    ASSUME EngineInv, NEW c \in Calls, Lookup(c)
    PROVE  EngineInv'
<1>1. call[c] \in CallRow /\ CallOK(call[c]) /\ call[c].at = "lookup"
  BY CallAt DEF Lookup, At, Labels
<1>2. call[c].method = "authorize"
  BY <1>1 DEF CallOK, Method
<1>3. QED
  BY <1>1, <1>2, EndKeepsInv, GotoKeepsInv DEF Lookup

LEMMA ReadKeepsInv ==
    ASSUME EngineInv, NEW c \in Calls, Read(c)
    PROVE  EngineInv'
<1> DEFINE row == payment[PaymentOf(c)]
<1>1. /\ call[c] \in CallRow /\ CallOK(call[c]) /\ call[c].at = "read"
      /\ PaymentOf(c) \in Payments
  BY CallAt DEF Read, At, Labels
<1>2. call[c].method \in {"capture", "refund"}
  BY <1>1 DEF CallOK, Method
<1>3. CASE Return(c) \/ Throw(c)
  BY <1>1, <1>3, EndKeepsInv DEF Read
<1>4. CASE row.status # "none" /\ GotoWith(c, "ask", row, "none")
  <2> DEFINE k == [call[c] EXCEPT !.at = "ask", !.row = row, !.answer = "none"]
  <2>1. Becomes(c, k)
    BY <1>4 DEF Becomes, GotoWith, EngineInv, EngineTypeOK
  <2>2. row \in PaymentRow /\ row.status \in Known(PaymentOf(c))
    BY <1>1, <1>4 DEF EngineInv, EngineTypeOK, BooksOK
  <2>3. /\ k \in CallRow /\ k.at = "ask" /\ k.row = row
        /\ k.request = call[c].request /\ k.method = call[c].method
    BY <1>1, <2>2 DEF CallRow, Labels, Answers
  <2>4. CallOK(k)
    BY <1>1, <1>2, <1>4, <2>2, <2>3 DEF CallOK, Knows, Heard, Method, PaymentOf
  <2>5. Silent(k)
    BY <1>2, <2>3 DEF Silent
  <2>6. QED
    BY <2>1, <2>3, <2>4, <2>5, QuietKeepsInv DEF Read
<1>5. QED
  BY <1>3, <1>4 DEF Read
LEMMA AccrueKeepsInv ==
    ASSUME EngineInv, NEW c \in Calls,
           Accrue(c) \/ CreditLocked(c) \/ CreditOpened(c)
    PROVE  EngineInv'
<1>1. /\ call[c] \in CallRow /\ CallOK(call[c])
      /\ call[c].at \in {"accrue", "credit", "open"}
  BY CallAt DEF Accrue, CreditLocked, CreditOpened, At, Labels
<1>2. "captured" \in charge[PaymentOf(c)].happened
  BY <1>1 DEF CallOK, Knows, PaymentOf
<1>3. UNCHANGED <<payment, charge, notices>>
  BY DEF Accrue, CreditLocked, CreditOpened
<1>4. Return(c) \/ Goto(c, "credit") \/ Goto(c, "open")
  BY DEF Accrue, CreditLocked, CreditOpened
<1>5. QED
  BY <1>1, <1>2, <1>3, <1>4, EndKeepsInv, GotoKeepsInv

LEMMA CheckEventKeepsInv ==
    ASSUME EngineInv, NEW c \in Calls, CheckEvent(c)
    PROVE  EngineInv'
<1>1. call[c] \in CallRow /\ CallOK(call[c]) /\ call[c].at = "event"
  BY CallAt DEF CheckEvent, At, Labels
<1>2. IsWebhook(c)
  BY <1>1 DEF CallOK, Heard, IsWebhook
<1>3. QED
  BY <1>1, <1>2, EndKeepsInv, GotoKeepsInv DEF CheckEvent

LEMMA FindKeepsInv ==
    ASSUME EngineInv, NEW c \in Calls, Find(c)
    PROVE  EngineInv'
<1> DEFINE row == payment[PaymentOf(c)]
           action == call[c].request.action
<1>1. /\ call[c] \in CallRow /\ CallOK(call[c]) /\ call[c].at = "find"
      /\ PaymentOf(c) \in Payments
  BY CallAt DEF Find, At, Labels
<1>2. UNCHANGED <<payment, charge, notices>>
  BY DEF Find
<1>3. call[c].request \in RequestType /\ call[c].request.op = "webhook"
  BY <1>1 DEF CallOK, Heard, CallRow
<1>4. CASE Goto(c, "record")
  BY <1>1, <1>2, <1>4, GotoKeepsInv
<1>5. CASE /\ call' = [call EXCEPT ![c].at = "read", ![c].method = action]
           /\ action \in {"capture", "refund"}
  <2> DEFINE k == [call[c] EXCEPT !.at = "read", !.method = action]
  <2>1. Becomes(c, k)
    BY <1>5 DEF Becomes, EngineInv, EngineTypeOK
  <2>2. /\ k \in CallRow /\ k.at = "read" /\ k.method = action
        /\ k.request = call[c].request
    BY <1>1, <1>5 DEF CallRow, Labels, Methods
  <2>3. CallOK(k)
    BY <1>1, <1>5, <2>2 DEF CallOK, Knows, Heard, Method
  <2>4. QED
    BY <1>2, <2>1, <2>2, <2>3, QuietKeepsInv DEF Silent
<1>6. CASE /\ GotoWith(c, "mark", row, "none")
           /\ row.status # "none" /\ action \in {"authorize", "fail"}
  <2> DEFINE k == [call[c] EXCEPT !.at = "mark", !.row = row, !.answer = "none"]
  <2>1. Becomes(c, k)
    BY <1>6 DEF Becomes, GotoWith, EngineInv, EngineTypeOK
  <2>2. row \in PaymentRow /\ row.status \in Known(PaymentOf(c))
    BY <1>1, <1>6 DEF EngineInv, EngineTypeOK, BooksOK
  <2>3. /\ k \in CallRow /\ k.at = "mark" /\ k.row = row
        /\ k.request = call[c].request
    BY <1>1, <2>2 DEF CallRow, Labels, Answers
  <2>4. CallOK(k)
    BY <1>1, <1>3, <1>6, <2>2, <2>3 DEF CallOK, Knows, Heard, Method, PaymentOf
  <2>5. QED
    BY <1>2, <2>1, <2>3, <2>4, QuietKeepsInv DEF Silent
<1>7. row.externalId => row.status # "none"
  BY <1>1 DEF EngineInv, BooksOK
<1>8. QED
  BY <1>4, <1>5, <1>6, <1>7 DEF Find

LEMMA RecordKeepsInv ==
    ASSUME EngineInv, NEW c \in Calls, Record(c)
    PROVE  EngineInv'
<1>1. call[c] \in CallRow
  BY CallAt DEF Record, Labels
<1>2. QED
  BY <1>1, EndKeepsInv DEF Record

LEMMA DieKeepsInv ==
    ASSUME EngineInv, NEW c \in Calls, Die(c)
    PROVE  EngineInv'
<1>1. call[c] \in CallRow
  BY DEF Die, EngineInv, EngineTypeOK
<1>2. QED
  BY <1>1, EndKeepsInv DEF Die
-----------------------------------------------------------------------------
\* Inserting the row makes this call the only one to ask about it: before,
\* nobody was asking, as a call that asks finds the row in the books.
LEMMA InsertKeepsInv ==
    ASSUME EngineInv, NEW c \in Calls, Insert(c)
    PROVE  EngineInv'
<1> DEFINE p == PaymentOf(c)
           row == [status |-> "pending", externalId |-> FALSE]
<1>1. /\ call[c] \in CallRow /\ CallOK(call[c]) /\ call[c].at = "insert"
      /\ p \in Payments
  BY CallAt DEF Insert, At, Labels
<1>2. UNCHANGED <<charge, notices>>
  BY DEF Insert
<1>3. CASE Throw(c) /\ UNCHANGED payment
  BY <1>1, <1>2, <1>3, EndKeepsInv
<1>4. CASE /\ payment[p].status = "none"
           /\ payment' = [payment EXCEPT ![p] = row]
           /\ GotoWith(c, "ask", row, "none")
  <2> DEFINE k == [call[c] EXCEPT !.at = "ask", !.row = row, !.answer = "none"]
  <2>1. Becomes(c, k)
    BY <1>4 DEF Becomes, GotoWith, EngineInv, EngineTypeOK
  <2>2. row \in PaymentRow /\ row.status = "pending"
    BY DEF PaymentRow, Statuses
  <2>3. /\ k \in CallRow /\ k.at = "ask" /\ k.row = row
        /\ k.request = call[c].request /\ k.method = call[c].method
    BY <1>1, <2>2 DEF CallRow, Labels, Answers
  <2>4. payment' \in [Payments -> PaymentRow] /\ payment'[p] = row
    BY <1>1, <1>4, <2>2 DEF EngineInv, EngineTypeOK
  <2>5. Grows
    BY <1>2, <1>4, <2>2, <2>4 DEF EngineInv, EngineTypeOK, Grows
  <2>6. PICK new : new = k
    OBVIOUS
  <2>7. CallOK(new)'
    BY <1>1, <1>2, <2>2, <2>3, <2>4, <2>6 DEF CallOK, Knows, Known, Heard, Method, PaymentOf
  <2>8. /\ call' \in [Calls -> {Idle, Done} \cup CallRow]
        /\ call'[c] = new
        /\ \A d \in Calls \ {c} : call'[d] = call[d]
        /\ (\A d \in Calls : CallOK(call[d]))'
    BY <2>1, <2>3, <2>5, <2>6, <2>7, CallsMove
  <2>9. (EngineTypeOK /\ NoticesOK /\ AskedOnce)'
    BY <1>2, <2>4, <2>8 DEF EngineInv, EngineTypeOK, NoticesOK, AskedOnce
  <2>10. BooksOK'
    BY <1>1, <1>2, <1>4, <2>2, <2>4 DEF EngineInv, EngineTypeOK, BooksOK, Known
  <2>11. ASSUME NEW d \in Calls, call[d] \in CallRow, Asking(call[d], p) PROVE FALSE
    BY <1>4, <2>11 DEF EngineInv, CallOK, Knows, Asking
  <2>12. charge[p].asked = 0
    BY <1>1, <1>4 DEF EngineInv, BooksOK
  <2>13. \A q \in Payments : Asking(new, q) => q = p
    BY <2>3, <2>6 DEF Asking, PaymentOf
  <2>14. AsksOK'
    <3>1. SUFFICES ASSUME NEW q \in Payments, NEW d \in Calls,
                          call'[d] \in CallRow, Asking(call'[d], q)
                   PROVE  /\ charge[q].asked = 0
                          /\ \A e \in Calls :
                                call'[e] \in CallRow /\ Asking(call'[e], q) => e = d
      BY <1>2 DEF AsksOK, Asking
    <3>2. CASE q = p
      BY <2>8, <2>11, <2>12, <3>1, <3>2
    <3>3. CASE q # p
      BY <2>8, <2>13, <3>1, <3>3 DEF EngineInv, AsksOK
    <3>4. QED
      BY <3>2, <3>3
  <2>15. QED
    BY <2>8, <2>9, <2>10, <2>14 DEF EngineInv
<1>5. payment' = [payment EXCEPT ![p] = row] => payment'[p] = row
  BY <1>1 DEF EngineInv, EngineTypeOK
<1>6. QED
  BY <1>3, <1>4, <1>5 DEF Insert
-----------------------------------------------------------------------------
\* A row is saved with a status the call knows: a step of Show in the ledger.
Shows(p, status) ==
    /\ p \in Payments
    /\ payment[p].status # "none"
    /\ status \in Known(p)
    /\ \E row \in PaymentRow :
           row.status = status /\ payment' = [payment EXCEPT ![p] = row]
    /\ UNCHANGED <<charge, notices>>

LEMMA KnownStatuses ==
    ASSUME EngineInv, NEW p \in Payments
    PROVE  Known(p) \subseteq Statuses
BY DEF EngineInv, EngineTypeOK, ChargeRow, Known, Statuses

LEMMA ShowKeepsInv ==
    ASSUME EngineInv, NEW c \in Calls, NEW p \in Payments, NEW status, Shows(p, status),
           NEW k \in {Idle, Done} \cup CallRow, Becomes(c, k), CallOK(k), Silent(k)
    PROVE  EngineInv'
<1>1. PICK row \in PaymentRow :
         row.status = status /\ payment' = [payment EXCEPT ![p] = row]
  BY DEF Shows
<1>2. payment' \in [Payments -> PaymentRow] /\ payment'[p] = row
  BY <1>1 DEF EngineInv, EngineTypeOK
<1>3. UNCHANGED <<charge, notices>> /\ status \in Known(p) /\ payment[p].status # "none"
  BY DEF Shows
<1>4. row.status # "none"
  BY <1>1, <1>3 DEF EngineInv, EngineTypeOK, Known, ChargeRow
<1>5. Grows
  BY <1>1, <1>2, <1>3, <1>4 DEF EngineInv, EngineTypeOK, Grows
<1>6. CallOK(k)'
  BY <1>5, CallStays
<1>7. /\ call' \in [Calls -> {Idle, Done} \cup CallRow]
      /\ call'[c] = k
      /\ \A d \in Calls \ {c} : call'[d] = call[d]
      /\ (\A d \in Calls : CallOK(call[d]))'
  BY <1>5, <1>6, CallsMove
<1>8. (EngineTypeOK /\ NoticesOK /\ AskedOnce)'
  BY <1>2, <1>3, <1>7 DEF EngineInv, EngineTypeOK, NoticesOK, AskedOnce
<1>9. BooksOK'
  BY <1>1, <1>2, <1>3, <1>4 DEF EngineInv, EngineTypeOK, BooksOK, Known
<1>10. AsksOK'
  BY <1>3, <1>7 DEF EngineInv, AsksOK, Asking, Silent
<1>11. QED
  BY <1>7, <1>8, <1>9, <1>10 DEF EngineInv

LEMMA SaveShows ==
    ASSUME EngineInv, NEW c \in Calls, Save(c)
    PROVE  EngineInv' /\ \E status : Shows(PaymentOf(c), status)
<1> DEFINE p == PaymentOf(c)
           status == StatusAfter(call[c].method, call[c].row.status, call[c].answer)
<1>1. /\ call[c] \in CallRow /\ CallOK(call[c]) /\ call[c].at = "save"
      /\ p \in Payments
  BY CallAt DEF Save, At, Labels
<1>2. /\ call[c].row.status \in Known(p) /\ call[c].answer \in Known(p)
      /\ payment[p].status # "none"
  BY <1>1 DEF CallOK, Knows, PaymentOf
<1>3. status \in Known(p)
  BY <1>2 DEF StatusAfter
<1>4. status \in Statuses
  BY <1>1, <1>3, KnownStatuses
<1>5. PICK reference \in BOOLEAN :
         LET row == [status |-> status,
                     externalId |-> call[c].row.externalId \/ reference]
         IN  /\ payment' = [payment EXCEPT ![p] = row]
             /\ IF row.status = "captured" /\ call[c].method # "refund"
                   /\ Accruable(OrderOf[p])
                THEN Goto(c, "accrue")
                ELSE Return(c)
  BY DEF Save
<1> DEFINE row == [status |-> status, externalId |-> call[c].row.externalId \/ reference]
<1>6. row \in PaymentRow /\ row.status = status
  BY <1>4 DEF PaymentRow
<1>7. Shows(p, status)
  BY <1>1, <1>2, <1>3, <1>5, <1>6 DEF Shows, Save
<1>8. CASE Return(c)
  BY <1>1, <1>7, <1>8, EndsWell, ShowKeepsInv
<1>9. CASE status = "captured" /\ Goto(c, "accrue")
  <2> DEFINE k == [call[c] EXCEPT !.at = "accrue"]
  <2>1. Becomes(c, k)
    BY <1>9 DEF Becomes, Goto
  <2>2. k \in CallRow /\ k.at = "accrue" /\ k.request = call[c].request
    BY <1>1 DEF CallRow, Labels
  <2>3. CallOK(k)
    BY <1>1, <1>3, <1>9, <2>2 DEF CallOK, Knows, Heard, Method, Known, PaymentOf
  <2>4. QED
    BY <1>1, <1>7, <2>1, <2>2, <2>3, ShowKeepsInv DEF Silent
<1>10. QED
  BY <1>5, <1>7, <1>8, <1>9
LEMMA MarkShows ==
    ASSUME EngineInv, NEW c \in Calls, Mark(c)
    PROVE  EngineInv' /\ \E status : Shows(PaymentOf(c), status)
<1> DEFINE p == PaymentOf(c)
           status == IF call[c].request.action = "fail" THEN "failed" ELSE "authorized"
           row == [call[c].row EXCEPT !.status = status]
<1>1. /\ call[c] \in CallRow /\ CallOK(call[c]) /\ call[c].at = "mark"
      /\ p \in Payments
  BY CallAt DEF Mark, At, Labels
<1>2. /\ payment[p].status # "none"
      /\ FactOf(call[c].request.action) \in charge[p].happened
      /\ call[c].request.action \in {"authorize", "fail"}
  BY <1>1 DEF CallOK, Knows, Heard, PaymentOf
<1>3. status \in Known(p)
  BY <1>2 DEF FactOf, Known
<1>4. call[c].row \in PaymentRow /\ status \in Statuses
  BY <1>1 DEF CallRow, Statuses
<1>5. row \in PaymentRow /\ row.status = status
  BY <1>4 DEF PaymentRow
<1>6. payment' = [payment EXCEPT ![p] = row] /\ UNCHANGED <<charge, notices>> /\ Return(c)
  BY DEF Mark
<1>7. Shows(p, status)
  BY <1>1, <1>2, <1>3, <1>5, <1>6 DEF Shows
<1>8. QED
  BY <1>1, <1>6, <1>7, EndsWell, ShowKeepsInv

-----------------------------------------------------------------------------
Facts == {"authorized", "captured", "refunded", "failed"}

States == {"none", "pending", "authorized", "capturing", "captured",
           "refunding", "refunded", "failed"}

\* The states of a charge whose money was taken, at least for a while.
Taken == {"captured", "refunding", "refunded"}

\* What the provider answers: money goes back only if it was taken, and a charge
\* comes to a state in which money was taken only by taking it.
LEMMA OutcomesAreFacts ==
    ASSUME NEW op \in {"authorize", "capture", "refund"}, NEW state \in States,
           NEW o \in Outcomes(op, state)
    PROVE  /\ o[1] \in Facts \cup {"pending"}
           /\ o[2] \in States
           /\ o[1] = "refunded" => state \in Taken
           /\ o[2] \in Taken => o[1] = "captured" \/ state \in Taken
BY DEF Outcomes, Facts, States, Taken

\* ...and what it decides later.
LEMMA DecisionsAreFacts ==
    ASSUME NEW state \in States, NEW d \in Decisions(state)
    PROVE  /\ state # "none"
           /\ d[1] \in Facts
           /\ d[2] \in States
           /\ d[1] = "refunded" => state \in Taken
           /\ d[2] \in Taken => d[1] = "captured" \/ state \in Taken
BY DEF Decisions, Facts, States, Taken

LEMMA NoticeReportsFact ==
    ASSUME NEW p \in Payments, NEW fact \in Facts
    PROVE  /\ NoticeOf(p, fact) \in Notice
           /\ NoticeOf(p, fact).payment = p
           /\ FactOf(NoticeOf(p, fact).action) = fact
BY DEF NoticeOf, Notice, Actions, FactOf, Facts

\* Facts happen to a payment in the books: a step of Happen in the ledger.
Happens(p, facts) ==
    /\ p \in Payments
    /\ payment[p].status # "none"
    /\ facts \subseteq Facts
    /\ "refunded" \in facts => "captured" \in charge[p].happened
    /\ \E state \in States, asks \in {0, 1} :
           /\ Move(p, state, facts, asks)
           /\ state \in Taken => "captured" \in charge[p].happened \cup facts
    /\ UNCHANGED payment

LEMMA HappensKeepsBooks ==
    ASSUME EngineInv, NEW p, NEW facts, Happens(p, facts)
    PROVE  Grows /\ BooksOK' /\ NoticesOK' /\ facts \subseteq charge'[p].happened
<1>1. PICK state \in States, asks \in {0, 1} :
         /\ Move(p, state, facts, asks)
         /\ state \in Taken => "captured" \in charge[p].happened \cup facts
  BY DEF Happens
<1> DEFINE new == [state |-> state, happened |-> charge[p].happened \cup facts,
                   asked |-> charge[p].asked + asks]
<1>2. /\ p \in Payments /\ payment[p].status # "none" /\ facts \subseteq Facts
      /\ UNCHANGED payment
  BY DEF Happens
<1>3. charge' = [charge EXCEPT ![p] = new]
  BY <1>1 DEF Move
<1>4. charge[p] \in ChargeRow
  BY <1>2 DEF EngineInv, EngineTypeOK
<1>5. new \in ChargeRow
  <2>1. charge[p].asked + asks \in Nat
    BY <1>4 DEF ChargeRow
  <2>2. charge[p].happened \cup facts \subseteq Facts
    BY <1>2, <1>4 DEF ChargeRow, Facts
  <2>3. QED
    BY <2>1, <2>2 DEF ChargeRow, States, Facts
<1>6. /\ charge' \in [Payments -> ChargeRow]
      /\ charge'[p] = new
      /\ \A q \in Payments \ {p} : charge'[q] = charge[q]
  BY <1>2, <1>3, <1>5 DEF EngineInv, EngineTypeOK
<1>7. notices' = notices \cup {NoticeOf(p, fact) : fact \in facts}
  BY <1>1 DEF Move
<1>8. notices' \subseteq Notice
  BY <1>2, <1>7, NoticeReportsFact DEF EngineInv, EngineTypeOK
<1>9. Grows
  BY <1>2, <1>6, <1>8 DEF EngineInv, EngineTypeOK, Grows
<1>10. BooksOK'
  BY <1>1, <1>2, <1>6 DEF EngineInv, EngineTypeOK, BooksOK, Known, Taken
<1>11. NoticesOK'
  <2>1. SUFFICES ASSUME NEW n \in notices'
                 PROVE  FactOf(n.action) \in charge'[n.payment].happened
    BY DEF NoticesOK, FactOf
  <2>2. CASE n \in notices
    <3>1. n.payment \in Payments /\ FactOf(n.action) \in charge[n.payment].happened
      BY <2>2 DEF EngineInv, EngineTypeOK, NoticesOK, Notice
    <3>2. QED
      BY <1>9, <3>1 DEF Grows
  <2>3. CASE n \in {NoticeOf(p, fact) : fact \in facts}
    <3>1. PICK fact \in facts : n = NoticeOf(p, fact)
      BY <2>3
    <3>2. n.payment = p /\ FactOf(n.action) = fact
      BY <1>2, <3>1, NoticeReportsFact
    <3>3. QED
      BY <1>6, <3>2
  <2>4. QED
    BY <1>7, <2>1, <2>2, <2>3
<1>12. QED
  BY <1>6, <1>9, <1>10, <1>11
\* The provider settles a charge while nobody asks it.
LEMMA SettleHappens ==
    ASSUME EngineInv, NEW p \in Payments, Settle(p)
    PROVE  EngineInv' /\ \E facts : Happens(p, facts)
<1>1. PICK d \in Decisions(charge[p].state) : Move(p, d[2], {d[1]}, 0)
  BY DEF Settle
<1>2. UNCHANGED <<payment, call>>
  BY DEF Settle
<1>3. charge[p] \in ChargeRow /\ charge[p].state \in States
  BY DEF EngineInv, EngineTypeOK, ChargeRow, States
<1>4. /\ charge[p].state # "none"
      /\ d[1] \in Facts
      /\ d[2] \in States
      /\ d[1] = "refunded" => charge[p].state \in Taken
      /\ d[2] \in Taken => d[1] = "captured" \/ charge[p].state \in Taken
  BY <1>3, DecisionsAreFacts
<1>5. /\ payment[p].status # "none"
      /\ charge[p].state \in Taken => "captured" \in charge[p].happened
  BY <1>4 DEF EngineInv, BooksOK, Taken
<1>6. Happens(p, {d[1]})
  BY <1>1, <1>2, <1>4, <1>5 DEF Happens
<1>7. Grows /\ BooksOK' /\ NoticesOK'
  BY <1>6, HappensKeepsBooks
<1>8. EngineTypeOK'
  BY <1>2, <1>7 DEF EngineInv, EngineTypeOK, Grows
<1>9. (\A c \in Calls : CallOK(call[c]))'
  <2>1. SUFFICES ASSUME NEW c \in Calls PROVE CallOK(call[c])'
    OBVIOUS
  <2>2. CallOK(call[c])
    BY DEF EngineInv
  <2>3. QED
    BY <1>2, <1>7, <2>2, CallStays
<1>10. \A q \in Payments : charge'[q].asked = charge[q].asked
  BY <1>1, <1>3 DEF EngineInv, EngineTypeOK, Move, ChargeRow
<1>11. (AsksOK /\ AskedOnce)'
  BY <1>2, <1>10 DEF EngineInv, AsksOK, AskedOnce, Asking
<1>12. QED
  BY <1>6, <1>7, <1>8, <1>9, <1>11 DEF EngineInv

\* Where a call goes that has asked: to save the answer, or nowhere.
LEMMA AskGoesOn ==
    ASSUME EngineInv, NEW c \in Calls, call[c] \in CallRow, call[c].at = "ask", Grows,
           NEW p \in Payments, p = PaymentOf(c),
           NEW answer \in Answers, answer \in Known(p)',
           GotoWith(c, "save", call[c].row, answer) \/ Throw(c)
    PROVE  \E k \in {Done} \cup CallRow : Becomes(c, k) /\ CallOK(k)' /\ Silent(k)
<1>1. CallOK(call[c])
  BY DEF EngineInv
<1>2. CASE Throw(c)
  <2>1. PICK k \in {Done} \cup CallRow : Becomes(c, k) /\ CallOK(k) /\ Silent(k)
    BY <1>2, EndsWell
  <2>2. CallOK(k)'
    BY <2>1, CallStays
  <2>3. QED
    BY <2>1, <2>2
<1>3. CASE GotoWith(c, "save", call[c].row, answer)
  <2>1. PICK k : k = [call[c] EXCEPT !.at = "save", !.row = call[c].row, !.answer = answer]
    OBVIOUS
  <2>2. Becomes(c, k)
    BY <1>3, <2>1 DEF Becomes, GotoWith, EngineInv, EngineTypeOK
  <2>3. /\ k \in CallRow /\ k.at = "save" /\ k.row = call[c].row /\ k.answer = answer
        /\ k.request = call[c].request /\ k.method = call[c].method
    BY <2>1 DEF CallRow, Labels, Answers
  <2>4. k.request.payment = p
    BY <2>3 DEF PaymentOf
  <2>5. k.row.status \in Known(p) /\ payment[p].status # "none" /\ Heard(k) /\ Method(k)
    BY <1>1, <2>3, <2>4 DEF CallOK, Knows, Heard, Method
  <2>6. Knows(k, p)'
    BY <2>3, <2>5 DEF Knows, Known, Grows
  <2>7. Heard(k)'
    BY <2>4, <2>5 DEF Heard, Grows
  <2>8. CallOK(k)'
    BY <2>4, <2>5, <2>6, <2>7 DEF CallOK, Method
  <2>9. QED
    BY <2>2, <2>3, <2>8 DEF Silent
<1>4. QED
  BY <1>2, <1>3
\* The call that inserted the row asks once, as it is at "ask" no more.
LEMMA AskHappens ==
    ASSUME EngineInv, NEW c \in Calls, Ask(c)
    PROVE  EngineInv' /\ \E facts : Happens(PaymentOf(c), facts)
<1>1. /\ call[c] \in CallRow /\ CallOK(call[c]) /\ call[c].at = "ask"
      /\ PaymentOf(c) \in Payments
  BY CallAt DEF Ask, At, Labels
<1>2. PICK p \in Payments : p = PaymentOf(c)
  BY <1>1
<1> DEFINE method == call[c].method
           asks == IF method = "authorize" THEN 1 ELSE 0
<1>3. PICK o \in Outcomes(method, charge[p].state) :
         /\ Move(p, o[2], IF o[1] = "pending" THEN {} ELSE {o[1]}, asks)
         /\ GotoWith(c, "save", call[c].row, o[1]) \/ Throw(c)
  BY <1>2 DEF Ask
<1> DEFINE facts == IF o[1] = "pending" THEN {} ELSE {o[1]}
<1>4. UNCHANGED payment
  BY DEF Ask
<1>5. method \in {"authorize", "capture", "refund"} /\ payment[p].status # "none"
  BY <1>1, <1>2 DEF CallOK, Knows, Method, PaymentOf
<1>6. charge[p] \in ChargeRow /\ charge[p].state \in States
  BY DEF EngineInv, EngineTypeOK, ChargeRow, States
<1>7. /\ o[1] \in Facts \cup {"pending"}
      /\ o[2] \in States
      /\ o[1] = "refunded" => charge[p].state \in Taken
      /\ o[2] \in Taken => o[1] = "captured" \/ charge[p].state \in Taken
  BY <1>5, <1>6, OutcomesAreFacts
<1>8. charge[p].state \in Taken => "captured" \in charge[p].happened
  BY DEF EngineInv, BooksOK, Taken
<1>9. Happens(p, facts)
  BY <1>3, <1>4, <1>5, <1>7, <1>8 DEF Happens, Facts
<1>10. Grows /\ BooksOK' /\ NoticesOK' /\ facts \subseteq charge'[p].happened
  BY <1>9, HappensKeepsBooks
<1>11. PICK answer \in Answers : answer = o[1]
  BY <1>7 DEF Answers, Facts
<1>12. answer \in Known(p)'
  BY <1>10, <1>11 DEF Known
<1>13. PICK k \in {Done} \cup CallRow : Becomes(c, k) /\ CallOK(k)' /\ Silent(k)
  BY <1>1, <1>2, <1>3, <1>10, <1>11, <1>12, AskGoesOn
<1>14. /\ call' \in [Calls -> {Idle, Done} \cup CallRow]
       /\ call'[c] = k
       /\ \A d \in Calls \ {c} : call'[d] = call[d]
       /\ (\A d \in Calls : CallOK(call[d]))'
  BY <1>10, <1>13, CallsMove
<1>15. EngineTypeOK'
  BY <1>10, <1>14 DEF EngineTypeOK, Grows
<1>16. /\ charge'[p].asked = charge[p].asked + asks
       /\ \A q \in Payments \ {p} : charge'[q].asked = charge[q].asked
  BY <1>3 DEF EngineInv, EngineTypeOK, Move
<1>17. method = "authorize" =>
          /\ charge[p].asked = 0
          /\ \A d \in Calls : call[d] \in CallRow /\ Asking(call[d], p) => d = c
  BY <1>1, <1>2 DEF EngineInv, AsksOK, Asking, PaymentOf
<1>18. charge[p].asked \in Nat
  BY <1>6 DEF ChargeRow
<1>19. AskedOnce'
  BY <1>16, <1>17, <1>18 DEF EngineInv, AskedOnce
<1>20. AsksOK'
  <2>1. SUFFICES ASSUME NEW q \in Payments, NEW d \in Calls,
                        call'[d] \in CallRow, Asking(call'[d], q)
                 PROVE  /\ charge'[q].asked = 0
                        /\ \A e \in Calls :
                              call'[e] \in CallRow /\ Asking(call'[e], q) => e = d
    BY DEF AsksOK, Asking
  <2>2. d # c
    BY <1>13, <1>14, <2>1 DEF Silent, Asking
  <2>3. call'[d] = call[d]
    BY <1>14, <2>2
  <2>4. /\ charge[q].asked = 0
        /\ \A e \in Calls : call[e] \in CallRow /\ Asking(call[e], q) => e = d
    BY <2>1, <2>3 DEF EngineInv, AsksOK
  <2>5. \A e \in Calls : call'[e] \in CallRow /\ Asking(call'[e], q) => e = d
    BY <1>13, <1>14, <2>4 DEF Silent, Asking
  <2>6. charge'[q].asked = 0
    BY <1>16, <1>17, <1>18, <2>1, <2>2, <2>3, <2>4
  <2>7. QED
    BY <2>5, <2>6
<1>21. QED
  BY <1>2, <1>9, <1>10, <1>14, <1>15, <1>19, <1>20 DEF EngineInv
-----------------------------------------------------------------------------
\* Every step keeps the invariant, and is one of the two steps of the ledger, the
\* insertion of a pending row, or no step of it at all.
Inserts(p) ==
    /\ payment[p].status = "none"
    /\ payment' = [payment EXCEPT ![p] = [status |-> "pending", externalId |-> FALSE]]
    /\ UNCHANGED charge

Moves ==
    \/ \E p \in Payments, facts \in SUBSET Facts : Happens(p, facts)
    \/ \E p \in Payments, status \in Statuses : Shows(p, status)
    \/ \E p \in Payments : Inserts(p)
    \/ UNCHANGED <<payment, charge>>

LEMMA StepKeepsInv ==
    ASSUME EngineInv, NEW c \in Calls, Step(c)
    PROVE  EngineInv' /\ Moves
<1>1. CASE Lookup(c)
  BY <1>1, LookupKeepsInv DEF Lookup, Moves
<1>2. CASE Insert(c)
  <2>1. PaymentOf(c) \in Payments
    BY <1>2, CallAt DEF Insert, Labels
  <2>2. QED
    BY <1>2, <2>1, InsertKeepsInv DEF Insert, Inserts, Moves
<1>3. CASE Read(c)
  BY <1>3, ReadKeepsInv DEF Read, Moves
<1>4. CASE Ask(c)
  BY <1>4, AskHappens DEF Moves, Happens
<1>5. CASE Save(c)
  BY <1>5, SaveShows, KnownStatuses DEF Moves, Shows
<1>6. CASE Accrue(c) \/ CreditLocked(c) \/ CreditOpened(c)
  BY <1>6, AccrueKeepsInv DEF Accrue, CreditLocked, CreditOpened, Moves
<1>7. CASE CheckEvent(c)
  BY <1>7, CheckEventKeepsInv DEF CheckEvent, Moves
<1>8. CASE Find(c)
  BY <1>8, FindKeepsInv DEF Find, Moves
<1>9. CASE Mark(c)
  BY <1>9, MarkShows, KnownStatuses DEF Moves, Shows
<1>10. CASE Record(c)
  BY <1>10, RecordKeepsInv DEF Record, Moves
<1>11. QED
  BY <1>1, <1>2, <1>3, <1>4, <1>5, <1>6, <1>7, <1>8, <1>9, <1>10 DEF Step

LEMMA NextKeepsInv == EngineInv /\ [Next]_vars => EngineInv' /\ Moves
<1>1. SUFFICES ASSUME EngineInv, [Next]_vars PROVE EngineInv' /\ Moves
  OBVIOUS
<1>2. ASSUME NEW p \in Payments, Settle(p) PROVE EngineInv' /\ Moves
  BY <1>1, <1>2, SettleHappens DEF Moves, Happens
<1>3. CASE UNCHANGED <<payment, charge, notices, call>>
  <2>1. (EngineTypeOK /\ BooksOK /\ NoticesOK /\ AskedOnce)'
    BY <1>1, <1>3
       DEF EngineInv, EngineTypeOK, BooksOK, NoticesOK, AskedOnce, Known
  <2>2. (\A c \in Calls : CallOK(call[c]))'
    BY <1>1, <1>3 DEF EngineInv, CallOK, Knows, Known, Heard, Method
  <2>3. AsksOK'
    BY <1>1, <1>3 DEF EngineInv, AsksOK, Asking
  <2>4. QED
    BY <1>3, <2>1, <2>2, <2>3 DEF EngineInv, Moves
<1>4. ASSUME NEW c \in Calls, NEW req \in Requests, Start(c, req)
      PROVE  EngineInv' /\ Moves
  BY <1>1, <1>4, StartKeepsInv DEF Start, Moves
<1>5. ASSUME NEW c \in Calls, Step(c) PROVE EngineInv' /\ Moves
  BY <1>1, <1>5, StepKeepsInv
<1>6. ASSUME NEW c \in Calls, Die(c) PROVE EngineInv' /\ Moves
  BY <1>1, <1>6, DieKeepsInv DEF Die, Moves
<1>7. QED
  BY <1>1, <1>2, <1>3, <1>4, <1>5, <1>6
     DEF Next, vars, paymentVars, RedeemPoints

-----------------------------------------------------------------------------
(***************************************************************************)
(* PaymentEngine.authorize asks the provider once for each idempotency     *)
(* key, however many retries overlap or follow: the unique row is inserted *)
(* before the provider is called.                                          *)
(***************************************************************************)
THEOREM KeyIsAskedOnce == Spec => []AuthorizedOnce
<1>1. EngineInv => AuthorizedOnce
  BY DEF EngineInv, AskedOnce, AuthorizedOnce
<1>2. EngineInv /\ [Next]_vars => EngineInv'
  BY NextKeepsInv
<1>3. QED
  BY <1>1, <1>2, InitInv, PTL DEF Spec

(***************************************************************************)
(* The payment engine implements PaymentLedger: its books show that a      *)
(* payment was authorized, captured, refunded or failed only after the     *)
(* provider did that, and money goes back only after it was taken.         *)
(***************************************************************************)
THEOREM EngineImplementsLedger == Spec => ImplementsLedger
<1> DEFINE shown == [p \in Payments |-> payment[p].status]
           happened == [p \in Payments |-> charge[p].happened]
<1>1. PaymentsInit => Ledger!LedgerInit
  BY DEF PaymentsInit, Ledger!LedgerInit
<1>2. EngineInv /\ [Next]_vars => [Ledger!LedgerNext]_<<shown, happened>>
  <2>1. SUFFICES ASSUME EngineInv, Moves
                 PROVE  Ledger!LedgerNext \/ UNCHANGED <<shown, happened>>
    BY NextKeepsInv
  <2>2. payment \in [Payments -> PaymentRow] /\ charge \in [Payments -> ChargeRow]
    BY <2>1 DEF EngineInv, EngineTypeOK
  <2>3. CASE UNCHANGED <<payment, charge>>
    BY <2>3
  <2>4. ASSUME NEW p \in Payments, Inserts(p) PROVE Ledger!Show(p, "pending")
    BY <2>2, <2>4 DEF Inserts, Ledger!Show
  <2>5. ASSUME NEW p \in Payments, NEW status \in Statuses, Shows(p, status)
        PROVE  Ledger!Show(p, status)
    <3>1. PICK row \in PaymentRow :
             row.status = status /\ payment' = [payment EXCEPT ![p] = row]
      BY <2>5 DEF Shows
    <3>2. shown' = [shown EXCEPT ![p] = status]
      BY <2>2, <3>1
    <3>3. QED
      BY <2>2, <2>5, <3>2 DEF Shows, Known, Ledger!Show
  <2>6. ASSUME NEW p \in Payments, NEW facts \in SUBSET Facts, Happens(p, facts)
        PROVE  Ledger!Happen(p, facts)
    <3>1. /\ charge'[p].happened = charge[p].happened \cup facts
          /\ \A q \in Payments \ {p} : charge'[q] = charge[q]
      BY <2>2, <2>6 DEF Happens, Move
    <3>2. happened' = [happened EXCEPT ![p] = @ \cup facts]
      BY <2>2, <3>1
    <3>3. QED
      BY <2>2, <2>6, <3>2 DEF Happens, Facts, Ledger!Happen, Ledger!Facts
  <2>7. Statuses \subseteq {"pending"} \cup Ledger!Facts /\ Facts = Ledger!Facts
    BY DEF Statuses, Facts, Ledger!Facts
  <2>8. QED
    BY <2>1, <2>3, <2>4, <2>5, <2>6, <2>7 DEF Moves, Ledger!LedgerNext
<1>3. EngineInv /\ [Next]_vars => EngineInv'
  BY NextKeepsInv
<1>4. QED
  BY <1>1, <1>2, <1>3, InitInv, PTL DEF Spec, ImplementsLedger, Ledger!LedgerSpec
\* What merchants and customers read off the ledger: a payment shown as anything
\* but pending is shown as something the provider did, and nothing is refunded
\* that was not captured.
BooksFollowProvider ==
    \A p \in Payments :
        /\ payment[p].status \in {"none", "pending"} \cup charge[p].happened
        /\ charge[p].happened \subseteq Facts
        /\ "refunded" \in charge[p].happened => "captured" \in charge[p].happened

(***************************************************************************)
(* It follows from the ledger alone, so that it holds of whatever          *)
(* implements it: no webhook, retry or lost answer makes PaymentEngine     *)
(* show money that did not move, or give back what was not taken.          *)
(***************************************************************************)
THEOREM LedgerExplainsBooks == Ledger!LedgerSpec => []BooksFollowProvider
<1> DEFINE shown == [p \in Payments |-> payment[p].status]
           happened == [p \in Payments |-> charge[p].happened]
<1>1. Ledger!LedgerInit => BooksFollowProvider
  <2> SUFFICES ASSUME Ledger!LedgerInit, NEW p \in Payments
               PROVE  payment[p].status = "none" /\ charge[p].happened = {}
    BY DEF BooksFollowProvider
  <2>1. shown[p] = "none" /\ happened[p] = {}
    BY DEF Ledger!LedgerInit
  <2>2. QED
    BY <2>1
<1>2. BooksFollowProvider /\ [Ledger!LedgerNext]_<<shown, happened>> => BooksFollowProvider'
  <2> SUFFICES ASSUME BooksFollowProvider, [Ledger!LedgerNext]_<<shown, happened>>,
                      NEW p \in Payments
               PROVE  /\ shown'[p] \in {"none", "pending"} \cup happened'[p]
                      /\ happened'[p] \subseteq Facts
                      /\ "refunded" \in happened'[p] => "captured" \in happened'[p]
    BY DEF BooksFollowProvider
  <2>1. /\ shown[p] \in {"none", "pending"} \cup happened[p]
        /\ happened[p] \subseteq Facts
        /\ "refunded" \in happened[p] => "captured" \in happened[p]
    BY DEF BooksFollowProvider
  <2>2. CASE UNCHANGED <<shown, happened>>
    BY <2>1, <2>2
  <2>3. ASSUME NEW q \in Payments, NEW facts, Ledger!Happen(q, facts)
        PROVE  /\ UNCHANGED shown
               /\ happened'[p] = happened[p] \/ happened'[p] = happened[p] \cup facts
               /\ facts \subseteq Facts
               /\ happened'[p] # happened[p] /\ "refunded" \in facts =>
                      "captured" \in happened[p]
    BY <2>3 DEF Ledger!Happen, Ledger!Facts, Facts
  <2>4. ASSUME NEW q \in Payments, NEW status, Ledger!Show(q, status)
        PROVE  /\ UNCHANGED happened
               /\ shown'[p] \in {shown[p], "pending"} \cup happened[p]
    BY <2>4 DEF Ledger!Show
  <2>5. QED
    BY <2>1, <2>2, <2>3, <2>4 DEF Ledger!LedgerNext
<1>3. QED
  BY <1>1, <1>2, PTL DEF Ledger!LedgerSpec

\* Of the payment engine: the books of every implementation of the ledger are
\* explained, and PaymentEngine is one.
THEOREM BooksAreExplained == Spec => []BooksFollowProvider
<1>1. QED
  BY EngineImplementsLedger, LedgerExplainsBooks, PTL DEF ImplementsLedger
-----------------------------------------------------------------------------
PointsInv == accruals \in [Orders -> Nat] /\ PointsAreForCaptures

LEMMA FactsStay ==
    ASSUME EngineInv, Moves, NEW p \in Payments
    PROVE  charge[p].happened \subseteq charge'[p].happened
<1>1. CASE \E q \in Payments, facts \in SUBSET Facts : Happens(q, facts)
  BY <1>1, HappensKeepsBooks DEF Grows
<1>2. CASE UNCHANGED charge
  BY <1>2
<1>3. QED
  BY <1>1, <1>2 DEF Moves, Shows, Inserts

\* A call credits an order whose payment was captured.
LEMMA CreditsAreForCaptures ==
    ASSUME EngineInv, PointsInv, Moves, NEW c \in Calls,
           CreditLocked(c) \/ CreditOpened(c)
    PROVE  PointsInv'
<1> DEFINE p == PaymentOf(c)
<1>1. /\ call[c] \in CallRow /\ CallOK(call[c]) /\ call[c].at \in {"credit", "open"}
      /\ p \in Payments
  BY CallAt DEF CreditLocked, CreditOpened, At, Labels
<1>2. "captured" \in charge[p].happened
  BY <1>1 DEF CallOK, Knows, PaymentOf
<1>3. UNCHANGED charge
  BY DEF CreditLocked, CreditOpened
<1>4. UNCHANGED accruals \/ accruals' = [accruals EXCEPT ![OrderOf[p]] = @ + 1]
  BY DEF CreditLocked, CreditOpened, Credit, loyaltyVars
<1>5. OrderOf[p] \in Orders
  BY <1>1, OrderOfAssumption
<1>6. accruals' \in [Orders -> Nat]
  BY <1>4, <1>5 DEF PointsInv
<1>7. ASSUME NEW o \in Orders, accruals'[o] > 0
      PROVE  \E q \in Payments : OrderOf[q] = o /\ "captured" \in charge'[q].happened
  <2>1. CASE o = OrderOf[p]
    BY <1>1, <1>2, <1>3, <2>1
  <2>2. CASE o # OrderOf[p]
    <3>1. accruals'[o] = accruals[o]
      BY <1>4, <1>5, <2>2 DEF PointsInv
    <3>2. QED
      BY <1>3, <1>7, <3>1 DEF PointsInv, PointsAreForCaptures
  <2>3. QED
    BY <2>1, <2>2
<1>8. QED
  BY <1>6, <1>7 DEF PointsInv, PointsAreForCaptures

(***************************************************************************)
(* LoyaltyAccrualListener accrues points only for orders whose money the   *)
(* provider took, though it listens to the engine's books.                 *)
(***************************************************************************)
THEOREM AccrualsFollowCaptures == Spec => []PointsAreForCaptures
<1>1. PaymentsInit => PointsInv
  BY DEF PaymentsInit, LoyaltyInit, PointsInv, PointsAreForCaptures
<1>2. EngineInv /\ PointsInv /\ [Next]_vars => PointsInv'
  <2>1. SUFFICES ASSUME EngineInv, PointsInv, [Next]_vars PROVE PointsInv'
    OBVIOUS
  <2>2. Moves
    BY <2>1, NextKeepsInv
  <2>3. CASE UNCHANGED accruals
    <3>1. \A p \in Payments : charge[p].happened \subseteq charge'[p].happened
      BY <2>1, <2>2, FactsStay
    <3>2. QED
      BY <2>1, <2>3, <3>1 DEF PointsInv, PointsAreForCaptures
  <2>4. CASE \E c \in Calls : CreditLocked(c) \/ CreditOpened(c)
    BY <2>1, <2>2, <2>4, CreditsAreForCaptures
  <2>5. UNCHANGED accruals \/ \E c \in Calls : CreditLocked(c) \/ CreditOpened(c)
    BY <2>1 DEF Next, vars, paymentVars, loyaltyVars, Settle, RedeemPoints, Redeem,
                Start, Step, Die, Lookup, Insert, Read, Ask, Save, Accrue,
                CheckEvent, Find, Mark, Record
  <2>6. QED
    BY <2>3, <2>4, <2>5
<1>3. EngineInv /\ [Next]_vars => EngineInv'
  BY NextKeepsInv
<1>4. PointsInv => PointsAreForCaptures
  BY DEF PointsInv
<1>5. QED
  BY <1>1, <1>2, <1>3, <1>4, InitInv, PTL DEF Spec
=============================================================================
