------------------------ MODULE SubscriptionsProofs ------------------------
(***************************************************************************)
(* PaidPeriods for every set of plans, subscriptions and calls and every   *)
(* number of periods.                                                      *)
(*                                                                         *)
(* A call saves a row that may be older than the one it replaces, so the   *)
(* property alone is not inductive: the periods before every row that a    *)
(* call holds have to be paid too, and so has the period a call is about   *)
(* to advance over.  Both stay true, as a captured charge never changes.   *)
(***************************************************************************)
EXTENDS Subscriptions, TLAPS

ChargeStatuses == {"none", "pending", "authorized", "captured", "failed"}

Renewals == {"authorize", "capture", "captured", "failed"}

SubCallRow == [at : Renewals \cup {"cancel"}, id : Subscriptions, row : SubRow]

SubsTypeOK ==
    /\ plan \in [Plans -> {NoPlan} \cup PlanRow]
    /\ sub \in [Subscriptions -> {NoSub} \cup SubRow]
    /\ subCall \in [SubCalls -> {IdleSubCall} \cup SubCallRow]
    /\ charge \in [Keys -> ChargeStatuses]

\* A row as it is stored or held by a call: the periods before its next
\* billing date were captured.
Kept(s, row) ==
    /\ row.next \in 1 .. MaxPeriod
    /\ \A n \in 1 .. row.next - 1 : charge[<<s, n>>] = "captured"

RowsKept == \A s \in Subscriptions : sub[s] \in SubRow => Kept(s, sub[s])

CallKept(call) ==
    call \in SubCallRow =>
        /\ Kept(call.id, call.row)
        /\ call.at \in Renewals => call.row.next < MaxPeriod
        /\ call.at = "captured" => charge[RenewKey(call)] = "captured"

SubsInv ==
    /\ SubsTypeOK
    /\ RowsKept
    /\ \A c \in SubCalls : CallKept(subCall[c])

\* What no step does: a charge once captured stays so.
CapturesStay ==
    /\ charge' \in [Keys -> ChargeStatuses]
    /\ \A k \in Keys : charge[k] = "captured" => charge'[k] = "captured"

\* A row that is kept stays so while captured charges stay captured.
LEMMA KeptStays ==
    ASSUME CapturesStay, NEW s \in Subscriptions, NEW row, Kept(s, row)
    PROVE  Kept(s, row)'
<1>1. \A n \in 1 .. row.next - 1 : <<s, n>> \in Keys
  BY SubsAssumption DEF Kept, Keys
<1>2. QED
  BY <1>1 DEF Kept, CapturesStay

LEMMA CallStays ==
    ASSUME CapturesStay, NEW call, CallKept(call)
    PROVE  CallKept(call)'
<1>1. SUFFICES ASSUME call \in SubCallRow PROVE CallKept(call)'
  BY DEF CallKept
<1>2. call.id \in Subscriptions /\ Kept(call.id, call.row)
  BY <1>1 DEF CallKept, SubCallRow
<1>3. Kept(call.id, call.row)'
  BY <1>2, KeptStays
<1>4. RenewKey(call) \in Keys
  BY <1>2, SubsAssumption DEF RenewKey, Keys, Kept
<1>5. QED
  BY <1>1, <1>3, <1>4 DEF CallKept, CapturesStay, RenewKey

\* What every step of a call comes to: rows that stay kept, and one call that
\* moves on to a call that is kept.
LEMMA StepKeepsInv ==
    ASSUME SubsInv, CapturesStay, UNCHANGED plan,
           NEW c \in SubCalls, NEW call \in {IdleSubCall} \cup SubCallRow,
           GoSub(c, call), CallKept(call)',
           sub' \in [Subscriptions -> {NoSub} \cup SubRow], RowsKept'
    PROVE  SubsInv'
<1>1. SubsTypeOK'
  BY DEF SubsInv, SubsTypeOK, CapturesStay, GoSub
<1>2. ASSUME NEW d \in SubCalls PROVE CallKept(subCall[d])'
  <2>1. CASE d = c
    <3>1. subCall'[d] = call
      BY <2>1 DEF SubsInv, SubsTypeOK, GoSub
    <3>2. QED
      BY <3>1
  <2>2. CASE d # c
    <3>1. subCall'[d] = subCall[d]
      BY <2>2 DEF SubsInv, SubsTypeOK, GoSub
    <3>2. CallKept(subCall[d])
      BY DEF SubsInv
    <3>3. QED
      BY <3>1, <3>2, CallStays
  <2>3. QED
    BY <2>1, <2>2
<1>3. QED
  BY <1>1, <1>2 DEF SubsInv

\* The rows when none of them is written...
LEMMA RowsStay ==
    ASSUME SubsInv, CapturesStay, UNCHANGED sub
    PROVE  /\ sub' \in [Subscriptions -> {NoSub} \cup SubRow]
           /\ RowsKept'
<1>1. sub' \in [Subscriptions -> {NoSub} \cup SubRow]
  BY DEF SubsInv, SubsTypeOK
<1>2. ASSUME NEW s \in Subscriptions, sub[s] \in SubRow PROVE Kept(s, sub[s])'
  <2>1. Kept(s, sub[s])
    BY <1>2 DEF SubsInv, RowsKept
  <2>2. QED
    BY <2>1, KeptStays
<1>3. QED
  BY <1>1, <1>2 DEF RowsKept

\* ...and when a call saves the row it holds.
LEMMA RowSaved ==
    ASSUME SubsInv, UNCHANGED charge,
           NEW s \in Subscriptions, NEW row \in SubRow, Kept(s, row),
           sub' = [sub EXCEPT ![s] = row]
    PROVE  /\ sub' \in [Subscriptions -> {NoSub} \cup SubRow]
           /\ RowsKept'
<1>1. sub' \in [Subscriptions -> {NoSub} \cup SubRow]
  BY DEF SubsInv, SubsTypeOK
<1>2. CapturesStay
  BY DEF SubsInv, SubsTypeOK, CapturesStay
<1>3. ASSUME NEW t \in Subscriptions, sub'[t] \in SubRow PROVE Kept(t, sub[t])'
  <2>1. CASE t = s
    <3>1. sub'[t] = row
      BY <2>1 DEF SubsInv, SubsTypeOK
    <3>2. Kept(s, row)'
      BY <1>2, KeptStays
    <3>3. QED
      BY <2>1, <3>1, <3>2
  <2>2. CASE t # s
    <3>1. sub'[t] = sub[t]
      BY <2>2 DEF SubsInv, SubsTypeOK
    <3>2. Kept(t, sub[t])
      BY <1>3, <3>1 DEF SubsInv, RowsKept
    <3>3. QED
      BY <1>2, <3>1, <3>2, KeptStays
  <2>3. QED
    BY <2>1, <2>2
<1>4. QED
  BY <1>1, <1>3 DEF RowsKept

\* A call at one of the steps of renew or cancel holds a row, and it is kept.
LEMMA CallUnderWay ==
    ASSUME SubsInv, NEW c \in SubCalls, subCall[c].at \in Renewals \cup {"cancel"}
    PROVE  /\ subCall[c] \in SubCallRow
           /\ subCall[c].id \in Subscriptions
           /\ subCall[c].row \in SubRow
           /\ Kept(subCall[c].id, subCall[c].row)
           /\ subCall[c].at \in Renewals => subCall[c].row.next < MaxPeriod
           /\ RenewKey(subCall[c]) \in Keys
           /\ subCall[c].at = "captured" => charge[RenewKey(subCall[c])] = "captured"
<1>1. subCall[c] \in SubCallRow
  BY DEF SubsInv, SubsTypeOK, IdleSubCall, Renewals
<1>2. /\ Kept(subCall[c].id, subCall[c].row)
      /\ subCall[c].at \in Renewals => subCall[c].row.next < MaxPeriod
      /\ subCall[c].at = "captured" => charge[RenewKey(subCall[c])] = "captured"
  BY <1>1 DEF SubsInv, CallKept
<1>3. subCall[c].id \in Subscriptions /\ subCall[c].row \in SubRow
  BY <1>1 DEF SubCallRow
<1>4. RenewKey(subCall[c]) \in Keys
  BY <1>2, <1>3, SubsAssumption DEF RenewKey, Keys, Kept
<1>5. QED
  BY <1>1, <1>2, <1>3, <1>4

\* No call is idle and kept at once but the idle one.
LEMMA IdleIsKept == CallKept(IdleSubCall)'
BY DEF CallKept, IdleSubCall, SubCallRow
-----------------------------------------------------------------------------
\* The first state has no rows, no calls and no charges.
LEMMA SubsInvInit == SubsInit => SubsInv
<1>1. SUFFICES ASSUME SubsInit PROVE SubsInv
  OBVIOUS
<1>2. SubsTypeOK
  BY <1>1 DEF SubsInit, SubsTypeOK, ChargeStatuses
<1>3. RowsKept
  BY <1>1 DEF SubsInit, RowsKept, NoSub, SubRow
<1>4. \A c \in SubCalls : CallKept(subCall[c])
  BY <1>1 DEF SubsInit, CallKept, IdleSubCall, SubCallRow
<1>5. QED
  BY <1>2, <1>3, <1>4 DEF SubsInv

\* A new row is paid up to its first billing date, the end of the period
\* the first renewal is charged for.
LEMMA SubscribeKeepsInv ==
    ASSUME SubsInv, NEW s \in Subscriptions, Subscribe(s)
    PROVE  SubsInv'
<1>1. PICK p \in Plans : sub' = [sub EXCEPT ![s] =
          [status |-> "active", plan |-> p, next |-> AddBillingInterval(0)]]
  BY DEF Subscribe
<1> DEFINE row == [status |-> "active", plan |-> p, next |-> AddBillingInterval(0)]
<1>2. row \in SubRow /\ Kept(s, row)
  BY SubsAssumption DEF SubRow, Kept, AddBillingInterval
<1>3. UNCHANGED <<plan, subCall, charge>>
  BY DEF Subscribe
<1>4. /\ sub' \in [Subscriptions -> {NoSub} \cup SubRow]
      /\ RowsKept'
  <2> HIDE DEF row
  <2>1. sub' = [sub EXCEPT ![s] = row]
    BY <1>1 DEF row
  <2>2. QED
    BY <1>2, <1>3, <2>1, RowSaved
<1>5. SubsTypeOK'
  BY <1>3, <1>4 DEF SubsInv, SubsTypeOK
<1>6. CapturesStay
  BY <1>3 DEF SubsInv, SubsTypeOK, CapturesStay
<1>7. ASSUME NEW c \in SubCalls PROVE CallKept(subCall[c])'
  <2>1. CallKept(subCall[c])
    BY DEF SubsInv
  <2>2. QED
    BY <1>3, <1>6, <2>1, CallStays
<1>8. QED
  BY <1>4, <1>5, <1>7 DEF SubsInv

\* Reading a row: it is kept, and a renewal is due only before the bound.
LEMMA CallReadsRow ==
    ASSUME SubsInv, NEW c \in SubCalls, NEW s \in Subscriptions, sub[s] # NoSub,
           NEW at \in {"authorize", "cancel"},
           at = "authorize" => sub[s].next < MaxPeriod,
           GoSub(c, [at |-> at, id |-> s, row |-> sub[s]]),
           UNCHANGED <<plan, sub, charge>>
    PROVE  SubsInv'
<1>1. sub[s] \in SubRow /\ Kept(s, sub[s])
  BY DEF SubsInv, SubsTypeOK, RowsKept
<1>2. CapturesStay
  BY DEF SubsInv, SubsTypeOK, CapturesStay
<1> DEFINE call == [at |-> at, id |-> s, row |-> sub[s]]
<1>3. call \in SubCallRow
  BY <1>1 DEF SubCallRow, Renewals
<1>4. CallKept(call)
  BY <1>1 DEF CallKept, Renewals
<1> HIDE DEF call
<1>5. CallKept(call)'
  BY <1>2, <1>4, CallStays DEF call
<1>6. sub' \in [Subscriptions -> {NoSub} \cup SubRow] /\ RowsKept'
  BY <1>2, RowsStay
<1>7. QED
  BY <1>2, <1>3, <1>5, <1>6, StepKeepsInv DEF call
-----------------------------------------------------------------------------
\* Saving the row a call holds, for whatever ends the call.
LEMMA CallSavesRow ==
    ASSUME SubsInv, NEW c \in SubCalls, NEW row \in SubRow,
           subCall[c].id \in Subscriptions, Kept(subCall[c].id, row),
           sub' = [sub EXCEPT ![subCall[c].id] = row],
           GoSub(c, IdleSubCall), UNCHANGED <<plan, charge>>
    PROVE  SubsInv'
<1>1. CapturesStay
  BY DEF SubsInv, SubsTypeOK, CapturesStay
<1>2. sub' \in [Subscriptions -> {NoSub} \cup SubRow] /\ RowsKept'
  BY RowSaved
<1>3. QED
  BY <1>1, <1>2, IdleIsKept, StepKeepsInv

LEMMA CancelSaveKeepsInv ==
    ASSUME SubsInv, NEW c \in SubCalls, CancelSaveSub(c)
    PROVE  SubsInv'
<1> DEFINE row == [subCall[c].row EXCEPT !.status = "canceled"]
<1>1. /\ subCall[c].id \in Subscriptions
      /\ subCall[c].row \in SubRow
      /\ Kept(subCall[c].id, subCall[c].row)
  BY CallUnderWay DEF CancelSaveSub
<1>2. row \in SubRow /\ row.next = subCall[c].row.next
  BY <1>1 DEF SubRow
<1>3. Kept(subCall[c].id, row)
  BY <1>1, <1>2 DEF Kept
<1> HIDE DEF row
<1>4. QED
  BY <1>1, <1>2, <1>3, CallSavesRow DEF CancelSaveSub, row

LEMMA PastDueKeepsInv ==
    ASSUME SubsInv, NEW c \in SubCalls, RenewPastDue(c)
    PROVE  SubsInv'
<1> DEFINE row == [subCall[c].row EXCEPT !.status = "past_due"]
<1>1. /\ subCall[c].id \in Subscriptions
      /\ subCall[c].row \in SubRow
      /\ Kept(subCall[c].id, subCall[c].row)
  BY CallUnderWay DEF RenewPastDue, Renewals
<1>2. row \in SubRow /\ row.next = subCall[c].row.next
  BY <1>1 DEF SubRow
<1>3. Kept(subCall[c].id, row)
  BY <1>1, <1>2 DEF Kept
<1> HIDE DEF row
<1>4. QED
  BY <1>1, <1>2, <1>3, CallSavesRow DEF RenewPastDue, row

\* The schedule moves over one more period, the one the call was paid for.
LEMMA AdvanceKeepsInv ==
    ASSUME SubsInv, NEW c \in SubCalls, RenewAdvance(c)
    PROVE  SubsInv'
<1> DEFINE old == subCall[c].row
           row == [status |-> "active", plan |-> old.plan,
                   next |-> AddBillingInterval(old.next)]
<1>1. /\ subCall[c].id \in Subscriptions
      /\ old \in SubRow
      /\ Kept(subCall[c].id, old)
      /\ old.next < MaxPeriod
      /\ charge[<<subCall[c].id, old.next>>] = "captured"
  BY CallUnderWay DEF RenewAdvance, Renewals, RenewKey
<1>2. row \in SubRow /\ row.next = old.next + 1
  BY <1>1 DEF SubRow, AddBillingInterval
<1>3. Kept(subCall[c].id, row)
  <2>1. old.next \in Nat /\ old.next \in 1 .. MaxPeriod /\ old.next < MaxPeriod
    BY <1>1 DEF SubRow, Kept
  <2>2. row.next \in 1 .. MaxPeriod
    BY <1>2, <2>1, SubsAssumption
  <2>3. ASSUME NEW n \in 1 .. row.next - 1 PROVE charge[<<subCall[c].id, n>>] = "captured"
    <3>1. n \in 1 .. old.next - 1 \/ n = old.next
      BY <1>2, <2>1
    <3>2. QED
      BY <1>1, <3>1 DEF Kept
  <2>4. QED
    BY <2>2, <2>3 DEF Kept
<1> HIDE DEF row
<1>4. QED
  BY <1>1, <1>2, <1>3, CallSavesRow DEF RenewAdvance, row

-----------------------------------------------------------------------------
\* A call goes on to another step of renew, or ends, and writes no row.
LEMMA RenewMovesOn ==
    ASSUME SubsInv, CapturesStay, UNCHANGED <<plan, sub>>,
           NEW c \in SubCalls, subCall[c].at \in Renewals, NEW at \in Renewals,
           at = "captured" => charge'[RenewKey(subCall[c])] = "captured",
           GoSub(c, [subCall[c] EXCEPT !.at = at])
    PROVE  SubsInv'
<1>1. /\ subCall[c] \in SubCallRow
      /\ subCall[c].id \in Subscriptions
      /\ Kept(subCall[c].id, subCall[c].row)
      /\ subCall[c].row.next < MaxPeriod
  BY CallUnderWay
<1>2. PICK call : call = [subCall[c] EXCEPT !.at = at]
  OBVIOUS
<1>3. /\ call \in SubCallRow
      /\ call.id = subCall[c].id /\ call.row = subCall[c].row /\ call.at = at
  BY <1>1, <1>2 DEF SubCallRow
<1>4. Kept(call.id, call.row)'
  <2>1. call.id \in Subscriptions /\ Kept(call.id, call.row)
    BY <1>1, <1>3
  <2>2. QED
    BY <2>1, KeptStays
<1>5. CallKept(call)'
  <2>1. RenewKey(call) = RenewKey(subCall[c])
    BY <1>3 DEF RenewKey
  <2>2. at = "captured" => charge'[RenewKey(call)] = "captured"
    BY <2>1
  <2>3. QED
    BY <1>1, <1>3, <1>4, <2>2 DEF CallKept, RenewKey
<1>6. sub' \in [Subscriptions -> {NoSub} \cup SubRow] /\ RowsKept'
  BY RowsStay
<1>7. QED
  BY <1>2, <1>3, <1>5, <1>6, StepKeepsInv
LEMMA AuthorizeKeepsInv ==
    ASSUME SubsInv, NEW c \in SubCalls, RenewAuthorize(c)
    PROVE  SubsInv'
<1> DEFINE k == RenewKey(subCall[c])
<1>1. k \in Keys /\ subCall[c].at \in Renewals
  BY CallUnderWay DEF RenewAuthorize, Renewals
<1>2. CapturesStay
  BY <1>1 DEF SubsInv, SubsTypeOK, CapturesStay, ChargeStatuses, RenewAuthorize
<1>3. charge'[k] \in {"pending", "authorized", "captured", "failed"}
  BY <1>1 DEF SubsInv, SubsTypeOK, ChargeStatuses, RenewAuthorize
<1>4. PICK at \in Renewals :
         /\ at = IF charge'[k] \in {"pending", "authorized"} THEN "capture" ELSE charge'[k]
         /\ GoSub(c, [subCall[c] EXCEPT !.at = at])
  BY <1>3 DEF RenewAuthorize, Renewals
<1>5. at = "captured" => charge'[k] = "captured"
  BY <1>4
<1>6. UNCHANGED <<plan, sub>>
  BY DEF RenewAuthorize
<1>7. QED
  BY <1>1, <1>2, <1>4, <1>5, <1>6, RenewMovesOn

LEMMA CaptureKeepsInv ==
    ASSUME SubsInv, NEW c \in SubCalls, RenewCapture(c)
    PROVE  SubsInv'
<1> DEFINE k == RenewKey(subCall[c])
<1>1. k \in Keys /\ subCall[c].at \in Renewals
  BY CallUnderWay DEF RenewCapture, Renewals
<1>2. UNCHANGED <<plan, sub>>
  BY DEF RenewCapture
<1>3. CASE charge[k] = "failed" /\ GoSub(c, IdleSubCall) /\ UNCHANGED charge
  <2>1. CapturesStay
    BY <1>3 DEF SubsInv, SubsTypeOK, CapturesStay
  <2>2. sub' \in [Subscriptions -> {NoSub} \cup SubRow] /\ RowsKept'
    BY <1>2, <2>1, RowsStay
  <2>3. QED
    BY <1>2, <1>3, <2>1, <2>2, IdleIsKept, StepKeepsInv
<1>4. CASE /\ charge[k] = "captured" /\ UNCHANGED charge
           /\ GoSub(c, [subCall[c] EXCEPT !.at = "captured"])
  <2>1. CapturesStay
    BY <1>4 DEF SubsInv, SubsTypeOK, CapturesStay
  <2>2. QED
    BY <1>1, <1>2, <1>4, <2>1, RenewMovesOn DEF Renewals
<1>5. CASE /\ charge[k] \in {"pending", "authorized"}
           /\ \E status \in {charge[k], "captured", "failed"} :
                 /\ charge' = [charge EXCEPT ![k] = status]
                 /\ GoSub(c, [subCall[c] EXCEPT !.at =
                      IF status = "captured" THEN "captured" ELSE "failed"])
  <2>1. PICK status \in {charge[k], "captured", "failed"} :
           /\ charge' = [charge EXCEPT ![k] = status]
           /\ GoSub(c, [subCall[c] EXCEPT !.at =
                IF status = "captured" THEN "captured" ELSE "failed"])
    BY <1>5
  <2>2. status \in ChargeStatuses
    BY <1>5, <2>1 DEF ChargeStatuses
  <2>3. CapturesStay
    BY <1>1, <1>5, <2>1, <2>2 DEF SubsInv, SubsTypeOK, CapturesStay
  <2>4. PICK at \in Renewals :
           /\ at = IF status = "captured" THEN "captured" ELSE "failed"
           /\ GoSub(c, [subCall[c] EXCEPT !.at = at])
    BY <2>1 DEF Renewals
  <2>5. at = "captured" => charge'[k] = "captured"
    BY <1>1, <2>1, <2>4 DEF SubsInv, SubsTypeOK
  <2>6. QED
    BY <1>1, <1>2, <2>3, <2>4, <2>5, RenewMovesOn
<1>6. QED
  BY <1>3, <1>4, <1>5 DEF RenewCapture

\* The process stops and forgets the row it held.
LEMMA DeathKeepsInv ==
    ASSUME SubsInv, NEW c \in SubCalls, SubCallDies(c)
    PROVE  SubsInv'
<1>1. UNCHANGED <<plan, sub, charge>> /\ GoSub(c, IdleSubCall)
  BY DEF SubCallDies
<1>2. CapturesStay
  BY <1>1 DEF SubsInv, SubsTypeOK, CapturesStay
<1>3. sub' \in [Subscriptions -> {NoSub} \cup SubRow] /\ RowsKept'
  BY <1>1, <1>2, RowsStay
<1>4. QED
  BY <1>1, <1>2, <1>3, IdleIsKept, StepKeepsInv

\* A step that leaves the rows, the calls and the charges alone.
LEMMA ElsewhereKeepsInv ==
    ASSUME SubsInv, UNCHANGED <<sub, subCall, charge>>,
           plan' \in [Plans -> {NoPlan} \cup PlanRow]
    PROVE  SubsInv'
<1>1. CapturesStay
  BY DEF SubsInv, SubsTypeOK, CapturesStay
<1>2. sub' \in [Subscriptions -> {NoSub} \cup SubRow] /\ RowsKept'
  BY <1>1, RowsStay
<1>3. SubsTypeOK'
  BY DEF SubsInv, SubsTypeOK
<1>4. ASSUME NEW c \in SubCalls PROVE CallKept(subCall[c])'
  <2>1. CallKept(subCall[c])
    BY DEF SubsInv
  <2>2. QED
    BY <1>1, <2>1, CallStays
<1>5. QED
  BY <1>2, <1>3, <1>4 DEF SubsInv

LEMMA SubsInvNext == SubsInv /\ [SubsNext]_subVars => SubsInv'
<1>1. SUFFICES ASSUME SubsInv, [SubsNext]_subVars PROVE SubsInv'
  OBVIOUS
<1>2. ASSUME NEW p \in Plans, CreatePlan(p) PROVE SubsInv'
  BY <1>1, <1>2, ElsewhereKeepsInv DEF CreatePlan, SubsInv, SubsTypeOK
<1>3. ASSUME NEW s \in Subscriptions, Subscribe(s) PROVE SubsInv'
  BY <1>1, <1>3, SubscribeKeepsInv
<1>4. ASSUME NEW c \in SubCalls, CancelReadSub(c) PROVE SubsInv'
  <2>1. PICK s \in Subscriptions :
           /\ sub[s].status \notin {"none", "canceled"}
           /\ GoSub(c, [at |-> "cancel", id |-> s, row |-> sub[s]])
    BY <1>4 DEF CancelReadSub
  <2>2. sub[s] # NoSub /\ UNCHANGED <<plan, sub, charge>>
    BY <1>4, <2>1 DEF CancelReadSub, NoSub
  <2>3. QED
    BY <1>1, <2>1, <2>2, CallReadsRow
<1>5. ASSUME NEW c \in SubCalls, CancelSaveSub(c) PROVE SubsInv'
  BY <1>1, <1>5, CancelSaveKeepsInv
<1>6. ASSUME NEW c \in SubCalls, RenewRead(c) PROVE SubsInv'
  <2>1. PICK s \in DueForRenewal :
           /\ sub[s].next < MaxPeriod
           /\ GoSub(c, [at |-> "authorize", id |-> s, row |-> sub[s]])
    BY <1>6 DEF RenewRead
  <2>2. s \in Subscriptions /\ sub[s] # NoSub /\ UNCHANGED <<plan, sub, charge>>
    BY <1>6, <2>1 DEF RenewRead, DueForRenewal, NoSub
  <2>3. QED
    BY <1>1, <2>1, <2>2, CallReadsRow
<1>7. ASSUME NEW c \in SubCalls, RenewAuthorize(c) PROVE SubsInv'
  BY <1>1, <1>7, AuthorizeKeepsInv
<1>8. ASSUME NEW c \in SubCalls, RenewCapture(c) PROVE SubsInv'
  BY <1>1, <1>8, CaptureKeepsInv
<1>9. ASSUME NEW c \in SubCalls, RenewPastDue(c) PROVE SubsInv'
  BY <1>1, <1>9, PastDueKeepsInv
<1>10. ASSUME NEW c \in SubCalls, RenewAdvance(c) PROVE SubsInv'
  BY <1>1, <1>10, AdvanceKeepsInv
<1>11. ASSUME NEW c \in SubCalls, SubCallDies(c) PROVE SubsInv'
  BY <1>1, <1>11, DeathKeepsInv
<1>12. CASE UNCHANGED subVars
  BY <1>1, <1>12, ElsewhereKeepsInv DEF subVars, SubsInv, SubsTypeOK
<1>13. QED
  BY <1>1, <1>2, <1>3, <1>4, <1>5, <1>6, <1>7, <1>8, <1>9, <1>10, <1>11, <1>12 DEF SubsNext

LEMMA SubsInvHolds == SubsSpec => []SubsInv
BY SubsInvInit, SubsInvNext, PTL DEF SubsSpec

-----------------------------------------------------------------------------
(***************************************************************************)
(* Every billing period before the next billing date was captured, however *)
(* many renewals and cancellations of one subscription overlap and         *)
(* wherever they die (subscription.service.ts, renew and cancel).          *)
(***************************************************************************)
THEOREM SchedulesArePaid == SubsSpec => []PaidPeriods
<1>1. SubsInv => PaidPeriods
  BY DEF SubsInv, SubsTypeOK, RowsKept, Kept, PaidPeriods
<1>2. QED
  BY <1>1, SubsInvHolds, PTL
=============================================================================
