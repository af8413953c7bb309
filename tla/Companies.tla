----------------------------- MODULE Companies -----------------------------
(***************************************************************************)
(* B2B: CompanyService (companies, members, negotiated prices),            *)
(* B2bQuoteService, and the part of OrdersService that makes a draft order *)
(* from a company's cart or accepted quote, has it approved, and confirms  *)
(* it with a gift card and a payment.                                      *)
(*                                                                         *)
(* Administration of companies is one action a request.  What may overlap  *)
(* for longer, the conversions, transitions and confirmations, is taken    *)
(* apart: every one of them reads a row, checks it, and saves it later.    *)
(***************************************************************************)
EXTENDS Integers

CONSTANTS
    CompanyIds, Members, Quotes, CompanyCarts, B2bOrders,
    B2bCalls,           \* calls under way at a time
    MaxCompanyEdits     \* bound: changes to companies, members and prices

VARIABLES
    company,            \* the rows of companies
    member,             \* the rows of company_memberships: the role of each
    negotiated,         \* companies with a row in company_prices (one variant)
    source,             \* quotes (b2b_quotes) and company carts (carts)
    b2bOrder,           \* their orders
    payment,            \* payments by their key, confirm-b2b-order:<order>
    b2bCall,            \* calls with what they read
    rushed,             \* ghost: orders confirmed twice, or moved, at the same time
    byHand,             \* ghost: orders updateStatus was asked to confirm
    companyEdits

b2bVars == <<company, member, negotiated, source, b2bOrder, payment,
             b2bCall, rushed, byHand, companyEdits>>

MemberRoles == {"buyer", "approver", "admin"}
BuyerRoles == {"buyer", "admin"}
ApproverRoles == {"approver", "admin"}

\* "limited": creditLimitMinor is less than any order's total.
NoCompany == [at |-> "none"]
CompanyRow == [at : {"active", "inactive"}, limited : BOOLEAN]

\* A cart is locked by its prepare; a quote starts as a draft.
NoSource == [status |-> "none"]
SourceRow(status, c, u) == [status |-> status, company |-> c, by |-> u, order |-> "none"]

NoB2bOrder == [status |-> "none"]
NewB2bOrder(src) == [status |-> "draft", company |-> source[src].company, lines |-> FALSE]

IdleB2b == [at |-> "idle"]

B2bInit ==
    /\ company = [c \in CompanyIds |-> NoCompany]
    /\ member = [m \in CompanyIds \X Members |-> "none"]
    /\ negotiated = {}
    /\ source = [s \in Quotes \cup CompanyCarts |-> NoSource]
    /\ b2bOrder = [o \in B2bOrders |-> NoB2bOrder]
    /\ payment = [o \in B2bOrders |-> "none"]
    /\ b2bCall = [k \in B2bCalls |-> IdleB2b]
    /\ rushed = {}
    /\ byHand = {}
    /\ companyEdits = 0

GoB2b(k, call) == b2bCall' = [b2bCall EXCEPT ![k] = call]
companyVars == <<company, member, negotiated, companyEdits>>
moneyVars == <<payment, rushed, byHand>>

-----------------------------------------------------------------------------
(***************************************************************************)
(* Companies, members and prices.                                          *)
(***************************************************************************)
\* A call that is taken apart reads them in its first step only, so that an edit
\* between its later steps would make no difference.
CompanyEdit ==
    /\ companyEdits < MaxCompanyEdits
    /\ \A k \in B2bCalls : b2bCall[k] = IdleB2b
    /\ companyEdits' = companyEdits + 1
    /\ UNCHANGED <<source, b2bOrder, moneyVars, b2bCall>>

CreateCompany(c) ==
    /\ company[c] = NoCompany
    /\ CompanyEdit
    /\ \E row \in CompanyRow : company' = [company EXCEPT ![c] = row]
    /\ UNCHANGED <<member, negotiated>>

UpdateCompany(c) ==
    /\ company[c] # NoCompany
    /\ CompanyEdit
    /\ \E row \in CompanyRow : company' = [company EXCEPT ![c] = row]
    /\ UNCHANGED <<member, negotiated>>

AddMember(c, u) ==
    /\ company[c].at = "active"
    /\ member[<<c, u>>] = "none"
    /\ CompanyEdit
    /\ \E role \in MemberRoles : member' = [member EXCEPT ![<<c, u>>] = role]
    /\ UNCHANGED <<company, negotiated>>

UpdateMemberRole(c, u) ==
    /\ member[<<c, u>>] # "none"
    /\ CompanyEdit
    /\ \E role \in MemberRoles : member' = [member EXCEPT ![<<c, u>>] = role]
    /\ UNCHANGED <<company, negotiated>>

RemoveMember(c, u) ==
    /\ member[<<c, u>>] # "none"
    /\ CompanyEdit
    /\ member' = [member EXCEPT ![<<c, u>>] = "none"]
    /\ UNCHANGED <<company, negotiated>>

SetPriceListItem(c) ==
    /\ company[c] # NoCompany
    /\ CompanyEdit
    /\ negotiated' = negotiated \cup {c}
    /\ UNCHANGED <<company, member>>

RemovePriceListItem(c) ==
    /\ c \in negotiated
    /\ CompanyEdit
    /\ negotiated' = negotiated \ {c}
    /\ UNCHANGED <<company, member>>

CanBuy(c, u) == company[c].at = "active" /\ member[<<c, u>>] \in BuyerRoles
CanApprove(c, u) == company[c].at = "active" /\ member[<<c, u>>] \in ApproverRoles
WithinCreditLimit(c) == ~company[c].limited

-----------------------------------------------------------------------------
(***************************************************************************)
(* Quotes, and the carts prepare has locked.                               *)
(***************************************************************************)
CreateQuote(q) ==
    /\ source[q] = NoSource
    /\ \E c \in CompanyIds, u \in Members :
           /\ CanBuy(c, u)
           /\ source' = [source EXCEPT ![q] = SourceRow("draft", c, u)]
    /\ UNCHANGED <<companyVars, b2bOrder, moneyVars, b2bCall>>

\* External: what CheckoutService leaves of a company's cart.
LockCart(x) ==
    /\ source[x] = NoSource
    /\ \E c \in CompanyIds, u \in Members :
           /\ company[c] # NoCompany
           /\ source' = [source EXCEPT ![x] = SourceRow("locked", c, u)]
    /\ UNCHANGED <<companyVars, b2bOrder, moneyVars, b2bCall>>

\* submit, accept and cancel: what status each leaves and reaches.
QuoteMoves == {<<"draft", "submitted">>, <<"submitted", "accepted">>}
                  \cup {"draft", "submitted", "accepted"} \X {"cancelled"}

TransitionRead(k, q) ==
    /\ b2bCall[k] = IdleB2b
    /\ \E move \in QuoteMoves :
           /\ source[q].status = move[1]
           /\ GoB2b(k, [at |-> "transition", src |-> q, row |-> [source[q] EXCEPT !.status = move[2]]])
    /\ UNCHANGED <<companyVars, source, b2bOrder, moneyVars>>

TransitionSave(k) ==
    /\ b2bCall[k].at = "transition"
    /\ source' = [source EXCEPT ![b2bCall[k].src] = b2bCall[k].row]
    /\ GoB2b(k, IdleB2b)
    /\ UNCHANGED <<companyVars, b2bOrder, moneyVars>>

-----------------------------------------------------------------------------
(***************************************************************************)
(* A draft order from an accepted quote (convertB2bQuote) or from a locked *)
(* cart (the company branch of placeOrder): checks, order, lines, and then *)
(* the quote or the cart is marked converted.                              *)
(***************************************************************************)
ConvertibleStatus(src) == IF src \in Quotes THEN "accepted" ELSE "locked"

ConvertRead(k, src) ==
    /\ b2bCall[k] = IdleB2b
    /\ source[src].status = ConvertibleStatus(src)
    /\ CanBuy(source[src].company, source[src].by)
    /\ WithinCreditLimit(source[src].company)
    /\ GoB2b(k, [at |-> "insert", src |-> src])
    /\ UNCHANGED <<companyVars, source, b2bOrder, moneyVars>>

\* Wrong on purpose: the quote is marked before the lines are there.
InsertDraftMark(k) ==
    /\ b2bCall[k].at = "insert"
    /\ \E o \in B2bOrders :
           /\ b2bOrder[o] = NoB2bOrder
           /\ b2bOrder' = [b2bOrder EXCEPT ![o] = NewB2bOrder(b2bCall[k].src)]
           /\ source' = [source EXCEPT ![b2bCall[k].src].status = "converted",
                                       ![b2bCall[k].src].order = o]
           /\ GoB2b(k, [at |-> "lines", src |-> b2bCall[k].src, order |-> o])
    /\ UNCHANGED <<companyVars, moneyVars>>

InsertDraft(k) ==
    /\ b2bCall[k].at = "insert"
    /\ \E o \in B2bOrders :
           /\ b2bOrder[o] = NoB2bOrder
           /\ b2bOrder' = [b2bOrder EXCEPT ![o] = NewB2bOrder(b2bCall[k].src)]
           /\ GoB2b(k, [at |-> "lines", src |-> b2bCall[k].src, order |-> o])
    /\ UNCHANGED <<companyVars, source, moneyVars>>

SaveDraftLines(k) ==
    /\ b2bCall[k].at = "lines"
    /\ b2bOrder' = [b2bOrder EXCEPT ![b2bCall[k].order].lines = TRUE]
    /\ GoB2b(k, [b2bCall[k] EXCEPT !.at = "mark"])
    /\ UNCHANGED <<companyVars, source, moneyVars>>

\* markConverted looks at the quote again, and throws unless it is accepted.
MarkConverted(k) ==
    /\ b2bCall[k].at = "mark" /\ b2bCall[k].src \in Quotes
    /\ source[b2bCall[k].src].status = "accepted"
    /\ GoB2b(k, [at |-> "transition", src |-> b2bCall[k].src,
                 row |-> [source[b2bCall[k].src] EXCEPT !.status = "converted",
                                                        !.order = b2bCall[k].order]])
    /\ UNCHANGED <<companyVars, source, b2bOrder, moneyVars>>

\* A cart has no pointer to its order: the order points to the cart.  A commit of
\* a reservation that fails leaves the cart locked.
ConvertCart(k) ==
    /\ b2bCall[k].at = "mark" /\ b2bCall[k].src \in CompanyCarts
    /\ source' = [source EXCEPT ![b2bCall[k].src].status = "converted",
                                ![b2bCall[k].src].order = b2bCall[k].order]
    /\ GoB2b(k, IdleB2b)
    /\ UNCHANGED <<companyVars, b2bOrder, moneyVars>>

-----------------------------------------------------------------------------
(***************************************************************************)
(* Approval, confirmation and other moves of the order.                    *)
(***************************************************************************)
OrderMoves == {<<"draft", "approved">>, <<"approved", "confirmed">>,
               <<"confirmed", "fulfilled">>}
                  \cup {"draft", "approved", "confirmed"} \X {"cancelled"}

ApproveB2bOrder(k, o) ==
    /\ b2bCall[k] = IdleB2b
    /\ b2bOrder[o].status = "draft"
    /\ \E u \in Members : CanApprove(b2bOrder[o].company, u)
    /\ GoB2b(k, [at |-> "status", order |-> o, to |-> "approved"])
    /\ UNCHANGED <<companyVars, source, b2bOrder, moneyVars>>

\* updateStatus, which is transitionStatus and nothing before it: it makes any move
\* the table allows, approves whoever asks, and confirms without a payment.
UpdateStatus(k, o) ==
    /\ b2bCall[k] = IdleB2b
    /\ \E to \in {"approved", "confirmed", "fulfilled", "cancelled"} :
           /\ <<b2bOrder[o].status, to>> \in OrderMoves
           /\ GoB2b(k, [at |-> "save", order |-> o, to |-> to])
           /\ byHand' = IF to = "confirmed" THEN byHand \cup {o} ELSE byHand
    /\ UNCHANGED <<companyVars, source, b2bOrder, payment, rushed>>

\* transitionStatus: it reads the order again and checks the move...
TransitionStatusRead(k) ==
    /\ b2bCall[k].at = "status"
    /\ LET o == b2bCall[k].order
       IN  GoB2b(k, IF <<b2bOrder[o].status, b2bCall[k].to>> \in OrderMoves
                    THEN [b2bCall[k] EXCEPT !.at = "save"] ELSE IdleB2b)
    /\ UNCHANGED <<companyVars, source, b2bOrder, moneyVars>>

\* ... and saves it, whatever its status is by then.
TransitionStatusSave(k) ==
    /\ b2bCall[k].at = "save"
    /\ b2bOrder' = [b2bOrder EXCEPT ![b2bCall[k].order].status = b2bCall[k].to]
    /\ GoB2b(k, IdleB2b)
    /\ UNCHANGED <<companyVars, source, moneyVars>>

ToStatus(k, status) == [at |-> "status", order |-> b2bCall[k].order, to |-> status]

\* Wrong on purpose: only an exception of the engine cancels the order.
PaidAnyway(k, status) ==
    IF b2bCall[k].capture /\ status # "captured" THEN [b2bCall[k] EXCEPT !.at = "capture"]
    ELSE ToStatus(k, "confirmed")

\* Where a confirmation goes on with the payment that authorize returns.
Paid(k, status) ==
    IF status = "failed" THEN ToStatus(k, "cancelled")
    ELSE IF b2bCall[k].capture /\ status # "captured" THEN [b2bCall[k] EXCEPT !.at = "capture"]
    ELSE ToStatus(k, "confirmed")

\* Each order is paid with a gift card in part, and the rest by a payment; some
\* methods capture at once.
Confirms(k, o) ==
    /\ b2bCall[k].at \in {"gift", "pay", "ask", "capture", "capturing", "status", "save"}
    /\ b2bCall[k].order = o

ConfirmRead(k, o) ==
    /\ b2bCall[k] = IdleB2b
    /\ b2bOrder[o].status = "approved"
    /\ \E capture \in BOOLEAN : GoB2b(k, [at |-> "gift", order |-> o, capture |-> capture])
    /\ rushed' = IF \E j \in B2bCalls : Confirms(j, o) THEN rushed \cup {o} ELSE rushed
    /\ UNCHANGED <<companyVars, source, b2bOrder, payment, byHand>>

\* The card or the points suffice, or do not any more: both are spent elsewhere too.
ConfirmRedeemGift(k) ==
    /\ b2bCall[k].at = "gift"
    /\ GoB2b(k, [b2bCall[k] EXCEPT !.at = "pay"]) \/ GoB2b(k, ToStatus(k, "cancelled"))
    /\ UNCHANGED <<companyVars, source, b2bOrder, moneyVars>>

\* authorize: one payment for each order, by a key made of its id.  A row that is
\* there, of an overlapping confirmation or one that died, is taken as it is; two
\* that both looked before either inserted collide, and the later one cancels.
ConfirmAuthorize(k) ==
    /\ b2bCall[k].at = "pay"
    /\ LET o == b2bCall[k].order
       IN  \/ /\ payment[o] = "none"
              /\ payment' = [payment EXCEPT ![o] = "pending"]
              /\ GoB2b(k, [b2bCall[k] EXCEPT !.at = "ask"])
           \/ /\ payment[o] # "none"
              /\ \/ GoB2b(k, Paid(k, payment[o]))
                 \/ o \in rushed /\ GoB2b(k, ToStatus(k, "cancelled"))
              /\ UNCHANGED payment
    /\ UNCHANGED <<companyVars, source, b2bOrder, rushed, byHand>>

\* The provider answers, or throws.
ConfirmAsk(k) ==
    /\ b2bCall[k].at = "ask"
    /\ \/ \E status \in {"pending", "authorized", "captured", "failed"} :
             /\ payment' = [payment EXCEPT ![b2bCall[k].order] = status]
             /\ GoB2b(k, Paid(k, status))
       \/ GoB2b(k, ToStatus(k, "cancelled")) /\ UNCHANGED payment
    /\ UNCHANGED <<companyVars, source, b2bOrder, rushed, byHand>>

\* capture reads the payment again, and saves the provider's answer in the row it read.
ConfirmCapture(k) ==
    /\ b2bCall[k].at = "capture"
    /\ LET status == payment[b2bCall[k].order]
       IN  GoB2b(k, IF status \in {"authorized", "pending"}
                    THEN [at |-> "capturing", order |-> b2bCall[k].order, read |-> status]
                    ELSE ToStatus(k, IF status = "captured" THEN "confirmed" ELSE "cancelled"))
    /\ UNCHANGED <<companyVars, source, b2bOrder, moneyVars>>

ConfirmCaptured(k) ==
    /\ b2bCall[k].at = "capturing"
    /\ \E status \in {"captured", "failed", b2bCall[k].read} :
           /\ payment' = [payment EXCEPT ![b2bCall[k].order] = status]
           /\ GoB2b(k, ToStatus(k, IF status = "failed" THEN "cancelled" ELSE "confirmed"))
    /\ UNCHANGED <<companyVars, source, b2bOrder, rushed, byHand>>

\* The process stops, a statement fails, or markConverted or commit throws.
B2bCallDies(k) ==
    /\ b2bCall[k].at \in {"insert", "lines", "mark", "gift", "pay", "ask", "capture",
                      "capturing", "status", "save"}
    /\ GoB2b(k, IdleB2b)
    /\ UNCHANGED <<companyVars, source, b2bOrder, moneyVars>>

CompanyRequest ==
    \E c \in CompanyIds :
        \/ CreateCompany(c) \/ UpdateCompany(c)
        \/ SetPriceListItem(c) \/ RemovePriceListItem(c)
        \/ \E u \in Members : AddMember(c, u) \/ UpdateMemberRole(c, u) \/ RemoveMember(c, u)

QuoteRequest ==
    \/ \E q \in Quotes : CreateQuote(q) \/ \E k \in B2bCalls : TransitionRead(k, q)
    \/ \E x \in CompanyCarts : LockCart(x)

OrderRequest(k) ==
    \/ \E src \in DOMAIN source : ConvertRead(k, src)
    \/ \E o \in B2bOrders : ApproveB2bOrder(k, o) \/ UpdateStatus(k, o) \/ ConfirmRead(k, o)

B2bStep(k) ==
    \/ TransitionSave(k) \/ InsertDraft(k) \/ SaveDraftLines(k) \/ MarkConverted(k)
    \/ ConvertCart(k) \/ TransitionStatusRead(k) \/ TransitionStatusSave(k)
    \/ ConfirmRedeemGift(k) \/ ConfirmAuthorize(k) \/ ConfirmAsk(k)
    \/ ConfirmCapture(k) \/ ConfirmCaptured(k) \/ B2bCallDies(k)

B2bNext == CompanyRequest \/ QuoteRequest \/ \E k \in B2bCalls : OrderRequest(k) \/ B2bStep(k)

B2bSpec == B2bInit /\ [][B2bNext]_b2bVars

-----------------------------------------------------------------------------
(***************************************************************************)
(* What is marked converted has an order with all its lines, wherever the  *)
(* conversion dies and whatever overlaps it: nothing of a buyer's request  *)
(* is lost (convertB2bQuote saves order and lines before it marks).        *)
(***************************************************************************)
ConvertedSourcesAreOrdered ==
    \A src \in DOMAIN source :
        source[src].status = "converted" => b2bOrder[source[src].order].lines

(***************************************************************************)
(* A company's order that updateStatus was not asked to confirm is         *)
(* confirmed only with a payment, and one that has not failed unless       *)
(* confirmations of it overlapped: whoever else converts, approves or      *)
(* cancels meanwhile, and wherever confirmations die (confirmB2bOrder      *)
(* cancels what it cannot charge, lines 784-819).                          *)
(***************************************************************************)
ConfirmedOrdersArePaid ==
    \A o \in B2bOrders \ byHand :
        b2bOrder[o].status = "confirmed" =>
            payment[o] # "none" /\ (payment[o] = "failed" => o \in rushed)
=============================================================================
