---------------------------- MODULE MCBackoffice ----------------------------
(***************************************************************************)
(* TLC instance of the components that share no state: subscriptions, B2B, *)
(* the catalog's taxonomy and products, accounts, supply, stores and       *)
(* warehouses, the event bus, plugins, pricing and grants.  One of them    *)
(* moves in a behaviour, as what the others do makes no difference to it.  *)
(***************************************************************************)
EXTENDS Subscriptions, Companies, Taxonomy, Products, Accounts, Supply, Locations,
        EventBus, Plugins, Pricing, Grants, TLC

CONSTANTS k1, k2, a1, a2, c1, c2, c3, x1, y1

VARIABLE focus          \* the component that moves

MCInit ==
    /\ focus \in {"subscriptions", "b2b", "taxonomy", "products", "accounts", "supply",
                  "locations", "bus", "plugins", "pricing", "grants"}
    /\ SubsInit /\ B2bInit /\ TaxonomyInit /\ ProductsInit /\ AccountsInit /\ SupplyInit
    /\ LocationsInit /\ BusInit /\ PluginsInit /\ PricingInit /\ GrantsInit

MCNext ==
    \/ /\ focus = "subscriptions" /\ SubsNext
       /\ UNCHANGED <<focus, b2bVars, taxonomyVars, productVars, accountVars,
                      supplyVars, locationVars, busVars, pluginVars, priceVars, grantVars>>
    \/ /\ focus = "b2b" /\ B2bNext
       /\ UNCHANGED <<focus, subVars, taxonomyVars, productVars, accountVars,
                      supplyVars, locationVars, busVars, pluginVars, priceVars, grantVars>>
    \/ /\ focus = "taxonomy" /\ TaxonomyNext
       /\ UNCHANGED <<focus, subVars, b2bVars, productVars, accountVars,
                      supplyVars, locationVars, busVars, pluginVars, priceVars, grantVars>>
    \/ /\ focus = "products" /\ ProductsNext
       /\ UNCHANGED <<focus, subVars, b2bVars, taxonomyVars, accountVars,
                      supplyVars, locationVars, busVars, pluginVars, priceVars, grantVars>>
    \/ /\ focus = "accounts" /\ AccountsNext
       /\ UNCHANGED <<focus, subVars, b2bVars, taxonomyVars, productVars,
                      supplyVars, locationVars, busVars, pluginVars, priceVars, grantVars>>
    \/ /\ focus = "supply" /\ SupplyNext
       /\ UNCHANGED <<focus, subVars, b2bVars, taxonomyVars, productVars,
                      accountVars, locationVars, busVars, pluginVars, priceVars, grantVars>>
    \/ /\ focus = "locations" /\ LocationsNext
       /\ UNCHANGED <<focus, subVars, b2bVars, taxonomyVars, productVars,
                      accountVars, supplyVars, busVars, pluginVars, priceVars, grantVars>>
    \/ /\ focus = "bus" /\ BusNext
       /\ UNCHANGED <<focus, subVars, b2bVars, taxonomyVars, productVars,
                      accountVars, supplyVars, locationVars, pluginVars, priceVars, grantVars>>
    \/ /\ focus = "plugins" /\ PluginsNext
       /\ UNCHANGED <<focus, subVars, b2bVars, taxonomyVars, productVars,
                      accountVars, supplyVars, locationVars, busVars, priceVars, grantVars>>
    \/ /\ focus = "pricing" /\ PricingNext
       /\ UNCHANGED <<focus, subVars, b2bVars, taxonomyVars, productVars, accountVars,
                      supplyVars, locationVars, busVars, pluginVars, grantVars>>
    \/ /\ focus = "grants" /\ GrantsNext
       /\ UNCHANGED <<focus, subVars, b2bVars, taxonomyVars, productVars, accountVars,
                      supplyVars, locationVars, busVars, pluginVars, priceVars>>

Discounting(priority, stackable, kind, value, min, restricted) ==
    [at |-> "row", active |-> TRUE, priority |-> priority, stackable |-> stackable,
     kind |-> kind, value |-> value, min |-> min, restricted |-> restricted]

\* An amount for rules that stack with nothing, one of them with a minimum the cart
\* misses; half the subtotal for the segment only; free shipping.
SomeRules ==
    {Discounting(2, FALSE, "fixed_amount", 2, 0, FALSE),
     Discounting(2, TRUE, "percentage", 5000, 0, TRUE),
     Discounting(3, TRUE, "free_shipping", 0, 0, FALSE),
     Discounting(3, FALSE, "percentage", 5000, 9, FALSE)}
SomeCoupons ==
    {Discounting(1, FALSE, "fixed_amount", 2, 0, FALSE),
     Discounting(1, FALSE, "free_shipping", 0, 0, TRUE)}
SomeRates == {<<5, 2>>}
SomeUnits == [l \in DigitalLines |-> IF l = x1 THEN 2 ELSE 1]

\* Bound: tax classes and their rules, which the quote does not read, change alone;
\* discount rules are entered in the order of their codes and leave no gap.
TaxTables == {"taxClass", "taxRule"}
PricingBound ==
    /\ \/ priceEditor \notin TaxTables /\ \A t \in TaxTables : ~Entered(t)
       \/ quote.at = "idle" /\ \A t \in Tables \ TaxTables : ~Entered(t)
    /\ \A r, s \in RuleIds : CodeOrder[r] < CodeOrder[s] /\ Entered(s) => Entered(r)

\* Bound: one quote or one cart; companies and their members change before it is
\* there, or at most twice; two orders of it only while both are drafts.
B2bBound ==
    LET used == {s \in DOMAIN source : source[s] # NoSource}
    IN  /\ Cardinality(used) <= 1
        /\ companyEdits > 2 => used = {}
        /\ (\E o \in B2bOrders : b2bOrder[o].status \notin {"none", "draft"}) =>
               Cardinality({o \in B2bOrders : b2bOrder[o].status = "none"}) > 0

\* Bound: brands and collections, which nothing else reads, change alone; one
\* category is not shared by the stores; a category is translated while none moves;
\* a category of one store does not meet overlapping updates.
TaxonomyBound ==
    /\ (\E kind \in DOMAIN labels : labels[kind] # {}) => \A c \in Categories : ~Present(c)
    /\ Cardinality({c \in Categories : Present(c) /\ category[c].scope # Shared}) <= 1
    /\ categoryLocales # {} => \A k \in TaxonomyCalls : ~Underway(k)
    /\ (\E c \in Categories : Present(c) /\ category[c].scope # Shared) =>
           Cardinality({k \in TaxonomyCalls : Underway(k)}) <= 1

\* Bound: what belongs to products changes between calls of one product at a time.
ProductsBound ==
    (\E a \in Attributes : attribute[a] # "none") \/ media # {} \/ translated # {} =>
        /\ Cardinality({p \in ProductIds : Exists(p)}) <= 1
        /\ Cardinality({c \in ProductCalls : productCall[c].at # "idle"}) <= 1

\* Components share model values for ids of the same kind.
Symmetry ==
    Permutations({k1, k2}) \union Permutations({a1, a2}) \union Permutations({c1, c2, c3})
=============================================================================
