------------------------------- MODULE Grants -------------------------------
(***************************************************************************)
(* What a paid order gives a customer besides goods: the download tokens   *)
(* and licence keys of DigitalFulfillmentService, and the gift cards of    *)
(* GiftCardService.                                                        *)
(*                                                                         *)
(* placeOrder issues an order's digital lines one after the other, each in *)
(* four statements and outside any transaction; the service may be called  *)
(* again for the same order, and says it is idempotent.  A gift card is    *)
(* issued in one transaction and marked as purchased by two later updates. *)
(***************************************************************************)
EXTENDS Integers

CONSTANTS
    DigitalLines,       \* lines of one order
    UnitsOf,            \* their quantities
    GiftCards, GiftOrders,
    MaxBalance,         \* bound: a card's opening balance
    GrantCalls,         \* calls under way at a time
    MaxGrants           \* bound: calls

ASSUME GrantsAssumption ==
    UnitsOf \in [DigitalLines -> Nat \ {0}] /\ MaxBalance \in Nat \ {0}

VARIABLES
    tokens, licences,   \* rows of digital_download_tokens and digital_license_keys by line
    card, ledger,       \* rows of gift_cards, and what their transactions come to
    grantCall,          \* calls under way
    raced,              \* ghost: lines that two calls looked up before either issued
    grants

grantVars == <<tokens, licences, card, ledger, grantCall, raced, grants>>

IdleGrant == [at |-> "idle"]
NoCard == [at |-> "none"]
NoEntries == [type |-> "none", order |-> "none", opening |-> 0, redeemed |-> 0]

GrantsInit ==
    /\ tokens = [l \in DigitalLines |-> 0]
    /\ licences = [l \in DigitalLines |-> 0]
    /\ card = [g \in GiftCards |-> NoCard]
    /\ ledger = [g \in GiftCards |-> NoEntries]
    /\ grantCall = [k \in GrantCalls |-> IdleGrant]
    /\ raced = {}
    /\ grants = 0

digitalVars == <<tokens, licences, raced>>
giftVars == <<card, ledger>>

GoGrant(k, call) == grantCall' = [grantCall EXCEPT ![k] = call]

BeginGrant(k, call) ==
    /\ grantCall[k] = IdleGrant /\ grants < MaxGrants
    /\ GoGrant(k, call) /\ grants' = grants + 1

\* The process dies between two statements, or the database does.
GrantDies(k) ==
    /\ grantCall[k] # IdleGrant /\ GoGrant(k, IdleGrant)
    /\ UNCHANGED <<digitalVars, giftVars, grants>>

-----------------------------------------------------------------------------
(***************************************************************************)
(* Digital lines.                                                          *)
(***************************************************************************)
\* issueForOrder: the digital lines, one at a time.
IssueForOrder(k) ==
    /\ BeginGrant(k, [at |-> "next", left |-> DigitalLines])
    /\ UNCHANGED <<digitalVars, giftVars>>

\* Calls that found no token of the line and have not answered yet.
Issuing(l) ==
    {k \in GrantCalls :
        /\ grantCall[k].at \in {"licences", "tokens", "keys"}
        /\ grantCall[k].line = l /\ (grantCall[k].at = "licences" => ~grantCall[k].found)}

\* issueForLine looks for the line's tokens...
FindTokens(k) ==
    LET call == grantCall[k] IN
    /\ call.at = "next"
    /\ \/ /\ call.left = {} /\ GoGrant(k, IdleGrant)
          /\ UNCHANGED raced
       \/ \E l \in call.left :
              /\ GoGrant(k, [at |-> "licences", left |-> call.left \ {l}, line |-> l,
                             found |-> tokens[l] > 0])
              /\ raced' = IF tokens[l] = 0 /\ Issuing(l) # {}
                               THEN raced \cup {l} ELSE raced
    /\ UNCHANGED <<tokens, licences, giftVars, grants>>

\* ...and for its licences; with either, they are the answer.
\* Wrong on purpose: only licences count.
FindLicencesAlone(k) ==
    LET call == grantCall[k] IN
    /\ call.at = "licences"
    /\ GoGrant(k, IF licences[call.line] > 0 THEN [at |-> "next", left |-> call.left]
                  ELSE [at |-> "tokens", left |-> call.left, line |-> call.line])
    /\ UNCHANGED <<digitalVars, giftVars, grants>>

FindLicences(k) ==
    LET call == grantCall[k] IN
    /\ call.at = "licences"
    /\ GoGrant(k, IF call.found \/ licences[call.line] > 0 THEN [at |-> "next", left |-> call.left]
                  ELSE [at |-> "tokens", left |-> call.left, line |-> call.line])
    /\ UNCHANGED <<digitalVars, giftVars, grants>>

\* save(array) inserts one token per unit, in a transaction of its own...
SaveTokens(k) ==
    LET call == grantCall[k] IN
    /\ call.at = "tokens"
    /\ tokens' = [tokens EXCEPT ![call.line] = @ + UnitsOf[call.line]]
    /\ GoGrant(k, [call EXCEPT !.at = "keys"])
    /\ UNCHANGED <<licences, raced, giftVars, grants>>

\* ...and one licence per unit in another.
SaveLicences(k) ==
    LET call == grantCall[k] IN
    /\ call.at = "keys"
    /\ licences' = [licences EXCEPT ![call.line] = @ + UnitsOf[call.line]]
    /\ GoGrant(k, [at |-> "next", left |-> call.left])
    /\ UNCHANGED <<tokens, raced, giftVars, grants>>

-----------------------------------------------------------------------------
(***************************************************************************)
(* Gift cards.                                                             *)
(***************************************************************************)
StatusForBalance(balance) == IF balance = 0 THEN "redeemed" ELSE "active"

\* The transaction of issue: the card and its first entry, unless the code is taken.
Issue(g, amount) ==
    /\ card[g] = NoCard
    /\ card' = [card EXCEPT ![g] = [at |-> "row", initial |-> amount, balance |-> amount,
                                    status |-> "active", order |-> "none"]]
    /\ ledger' = [ledger EXCEPT ![g] = [type |-> "issue", order |-> "none",
                                        opening |-> amount, redeemed |-> 0]]

IssueCard(k) ==
    /\ \E g \in GiftCards, amount \in 1 .. MaxBalance : Issue(g, amount)
    /\ BeginGrant(k, IdleGrant)
    /\ UNCHANGED digitalVars

\* purchase: issue, then the card is given its order, then the entry is.
Purchase(k) ==
    /\ \E g \in GiftCards, amount \in 1 .. MaxBalance, o \in GiftOrders :
           /\ Issue(g, amount)
           /\ BeginGrant(k, [at |-> "card", card |-> g, order |-> o])
    /\ UNCHANGED digitalVars

PurchaseCard(k) ==
    LET call == grantCall[k] IN
    /\ call.at = "card"
    /\ card' = [card EXCEPT ![call.card].order = call.order]
    /\ GoGrant(k, [call EXCEPT !.at = "entry"])
    /\ UNCHANGED <<digitalVars, ledger, grants>>

PurchaseEntry(k) ==
    LET call == grantCall[k] IN
    /\ call.at = "entry"
    /\ ledger' = [ledger EXCEPT ![call.card].type = "purchase", ![call.card].order = call.order]
    /\ GoGrant(k, IdleGrant)
    /\ UNCHANGED <<digitalVars, card, grants>>

\* redeem: locked, in one transaction.  The store sells the card as soon as it is there.
RedeemCard(k) ==
    /\ \E g \in GiftCards :
           /\ card[g] # NoCard /\ card[g].status = "active"
           /\ \E amount \in 1 .. card[g].balance :
                  LET next == card[g].balance - amount IN
                  /\ card' = [card EXCEPT ![g].balance = next, ![g].status = StatusForBalance(next)]
                  /\ ledger' = [ledger EXCEPT ![g].redeemed = @ + amount]
    /\ BeginGrant(k, IdleGrant)
    /\ UNCHANGED digitalVars

GrantsNext ==
    \E k \in GrantCalls :
        \/ IssueForOrder(k) \/ FindTokens(k) \/ FindLicences(k) \/ SaveTokens(k) \/ SaveLicences(k)
        \/ IssueCard(k) \/ Purchase(k) \/ PurchaseCard(k) \/ PurchaseEntry(k) \/ RedeemCard(k)
        \/ GrantDies(k)

GrantsSpec == GrantsInit /\ [][GrantsNext]_grantVars

-----------------------------------------------------------------------------
(***************************************************************************)
(* Properties.                                                             *)
(***************************************************************************)
\* A licence never goes without its token, whatever dies between the two inserts.
LicencesFollowTokens == \A l \in DigitalLines : licences[l] <= tokens[l]

\* "Idempotent when tokens already exist for the line" (digital-fulfillment.service.ts:156):
\* calls that do not look the line up at the same time issue it once.
IssuedOnce == \A l \in DigitalLines \ raced : tokens[l] \in {0, UnitsOf[l]}

\* What a card was opened with less what was redeemed is its balance, through a purchase
\* that is cut off after any statement; a purchase entry's order is the card's.
LedgerExplainsCards ==
    \A g \in GiftCards : card[g] # NoCard =>
        /\ card[g].balance = ledger[g].opening - ledger[g].redeemed
        /\ card[g].status = StatusForBalance(card[g].balance)
        /\ ledger[g].type = "purchase" => ledger[g].order = card[g].order

\* Downloads, licences and gift cards are explained by the calls that granted them.
GrantsAreExplained == LicencesFollowTokens /\ IssuedOnce /\ LedgerExplainsCards
=============================================================================
