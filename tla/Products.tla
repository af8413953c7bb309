------------------------------ MODULE Products ------------------------------
(***************************************************************************)
(* ProductsService with what belongs to a product (variants, attribute     *)
(* values, media, translations), and SearchIndexListener, which follows    *)
(* the events of products into the search index.                           *)
(*                                                                         *)
(* create, update and remove write the row first, read the product again   *)
(* and then publish an event; the listener acts on the event's data.  No   *)
(* transaction spans these steps.                                          *)
(***************************************************************************)
EXTENDS Integers

CONSTANTS
    ProductIds, Skus, Attributes,
    ProductCalls,       \* calls under way at a time
    MaxProductEdits     \* bound: calls and requests

VARIABLES
    product,            \* the rows of products: the slug is unique in its scope
    variant,            \* the rows of product_variants by SKU: the product of each
    attribute,          \* attribute_definitions: what each applies to
    values,             \* attribute_values: <<definition, product or SKU>>
    media, translated,  \* products with a row in product_media, product_translations
    productCall,        \* calls of ProductsService under way
    found,              \* external: the products the search provider finds
    disturbed,          \* ghost: calls on the product overlapped, died or failed
    productEdits

productVars == <<product, variant, attribute, values, media, translated, productCall,
                 found, disturbed, productEdits>>

NoProduct == [at |-> "none"]
ProductRow == [at : {"active", "inactive"}, slug : ProductIds]
Exists(p) == product[p] # NoProduct

Targets == {"product", "variant", "both"}
IdleProductCall == [at |-> "idle"]

ProductsInit ==
    /\ product = [p \in ProductIds |-> NoProduct]
    /\ variant = [k \in Skus |-> "none"]
    /\ attribute = [a \in Attributes |-> "none"]
    /\ values = {} /\ media = {} /\ translated = {}
    /\ productCall = [c \in ProductCalls |-> IdleProductCall]
    /\ found = {} /\ disturbed = {}
    /\ productEdits = 0

ownedVars == <<attribute, media, translated>>

SlugUnused(p, slug) == \A q \in ProductIds \ {p} : Exists(q) => product[q].slug # slug
BusyWith(p) == \E c \in ProductCalls : productCall[c].at # "idle" /\ productCall[c].id = p

ProductEdit ==
    /\ productEdits < MaxProductEdits
    /\ productEdits' = productEdits + 1

StartProduct(c, call) ==
    /\ productCall[c] = IdleProductCall
    /\ ProductEdit
    /\ productCall' = [productCall EXCEPT ![c] = call]
    /\ disturbed' = IF BusyWith(call.id) THEN disturbed \cup {call.id} ELSE disturbed

GoProduct(c, at) ==
    /\ productCall' = [productCall EXCEPT ![c] =
                         IF at = "idle" THEN IdleProductCall ELSE [@ EXCEPT !.at = at]]
    /\ UNCHANGED productEdits

-----------------------------------------------------------------------------
CreateProduct(c, p) ==
    /\ ~Exists(p)
    /\ \E row \in ProductRow, skus \in SUBSET Skus :
           /\ SlugUnused(p, row.slug)
           /\ StartProduct(c, [at |-> IF skus = {} THEN "announce" ELSE "variants",
                               id |-> p, skus |-> skus])
           /\ product' = [product EXCEPT ![p] = row]
    /\ UNCHANGED <<variant, values, ownedVars, found>>

\* All of them or, when one SKU is taken, none: the product stays without.
CreateVariants(c) ==
    /\ productCall[c].at = "variants"
    /\ LET p == productCall[c].id
       IN  IF Exists(p) /\ \A k \in productCall[c].skus : variant[k] = "none"
           THEN /\ variant' = [k \in Skus |-> IF k \in productCall[c].skus THEN p ELSE variant[k]]
                /\ GoProduct(c, "announce")
           ELSE /\ GoProduct(c, "idle")
                /\ UNCHANGED variant
    /\ UNCHANGED <<product, values, ownedVars, found, disturbed>>

UpdateReadProduct(c, p) ==
    /\ Exists(p)
    /\ \E row \in ProductRow : StartProduct(c, [at |-> "save", id |-> p, row |-> row])
    /\ UNCHANGED <<product, variant, values, ownedVars, found>>

\* A product removed meanwhile is inserted again, without what belonged to it.
UpdateSaveProduct(c) ==
    /\ productCall[c].at = "save"
    /\ LET p == productCall[c].id  row == productCall[c].row
       IN  IF SlugUnused(p, row.slug)
           THEN /\ product' = [product EXCEPT ![p] = row]
                /\ GoProduct(c, "announce")
           ELSE /\ GoProduct(c, "idle")
                /\ UNCHANGED product
    /\ UNCHANGED <<variant, values, ownedVars, found, disturbed>>

\* The foreign keys cascade: variants, values of both, media and translations.
RemoveProduct(c, p) ==
    /\ Exists(p)
    /\ StartProduct(c, [at |-> "unindex", id |-> p])
    /\ product' = [product EXCEPT ![p] = NoProduct]
    /\ variant' = [k \in Skus |-> IF variant[k] = p THEN "none" ELSE variant[k]]
    /\ values' = {v \in values : v[2] # p /\ ~(v[2] \in Skus /\ variant[v[2]] = p)}
    /\ media' = media \ {p}
    /\ translated' = translated \ {p}
    /\ UNCHANGED <<attribute, found>>

\* Wrong on purpose: an inactive product is left in the index.
AnnounceAny(c) ==
    /\ productCall[c].at = "announce"
    /\ LET p == productCall[c].id
       IN  GoProduct(c, IF Exists(p) /\ product[p].at = "active" THEN "index" ELSE "idle")
    /\ UNCHANGED <<product, variant, values, ownedVars, found, disturbed>>

\* findById, whose answer is the data of the event.
AnnounceProduct(c) ==
    /\ productCall[c].at = "announce"
    /\ LET p == productCall[c].id
       IN  GoProduct(c, IF ~Exists(p) THEN "idle"
                        ELSE IF product[p].at = "active" THEN "index" ELSE "unindex")
    /\ UNCHANGED <<product, variant, values, ownedVars, found, disturbed>>

OnProductUpsert(c) ==
    /\ productCall[c].at = "index"
    /\ found' = found \cup {productCall[c].id}
    /\ GoProduct(c, "idle")
    /\ UNCHANGED <<product, variant, values, ownedVars, disturbed>>

OnProductDeleted(c) ==
    /\ productCall[c].at = "unindex"
    /\ found' = found \ {productCall[c].id}
    /\ GoProduct(c, "idle")
    /\ UNCHANGED <<product, variant, values, ownedVars, disturbed>>

\* The process stops, or the search provider fails: the bus isolates its listener.
ProductCallDies(c) ==
    /\ productCall[c].at \in {"variants", "announce", "index", "unindex"}
    /\ disturbed' = disturbed \cup {productCall[c].id}
    /\ GoProduct(c, "idle")
    /\ UNCHANGED <<product, variant, values, ownedVars, found>>

-----------------------------------------------------------------------------
(***************************************************************************)
(* What belongs to products.                                               *)
(***************************************************************************)
OwnedEdit == ProductEdit /\ UNCHANGED <<product, variant, productCall, found, disturbed>>

CreateDefinition(a) ==
    /\ attribute[a] = "none"
    /\ OwnedEdit
    /\ \E applies \in Targets : attribute' = [attribute EXCEPT ![a] = applies]
    /\ UNCHANGED <<values, media, translated>>

\* Values that are already set are not looked at.
UpdateDefinition(a) ==
    /\ attribute[a] # "none"
    /\ OwnedEdit
    /\ \E applies \in Targets : attribute' = [attribute EXCEPT ![a] = applies]
    /\ UNCHANGED <<values, media, translated>>

RemoveDefinition(a) ==
    /\ attribute[a] # "none"
    /\ OwnedEdit
    /\ attribute' = [attribute EXCEPT ![a] = "none"]
    /\ values' = {v \in values : v[1] # a}
    /\ UNCHANGED <<media, translated>>

SetProductAttribute(a, p) ==
    /\ Exists(p)
    /\ attribute[a] \in {"product", "both"}
    /\ OwnedEdit
    /\ values' = values \cup {<<a, p>>}
    /\ UNCHANGED ownedVars

SetVariantAttribute(a, k) ==
    /\ variant[k] # "none"
    /\ attribute[a] \in {"variant", "both"}
    /\ OwnedEdit
    /\ values' = values \cup {<<a, k>>}
    /\ UNCHANGED ownedVars

RemoveAttributeValue(v) ==
    /\ v \in values
    /\ OwnedEdit
    /\ values' = values \ {v}
    /\ UNCHANGED ownedVars

Attach(p) ==
    /\ Exists(p)
    /\ p \notin media
    /\ OwnedEdit
    /\ media' = media \cup {p}
    /\ UNCHANGED <<values, attribute, translated>>

Detach(p) ==
    /\ p \in media
    /\ OwnedEdit
    /\ media' = media \ {p}
    /\ UNCHANGED <<values, attribute, translated>>

UpsertProductTranslation(p) ==
    /\ Exists(p)
    /\ OwnedEdit
    /\ translated' = translated \cup {p}
    /\ UNCHANGED <<values, attribute, media>>

DeleteProductTranslation(p) ==
    /\ p \in translated
    /\ OwnedEdit
    /\ translated' = translated \ {p}
    /\ UNCHANGED <<values, attribute, media>>

ProductRequest(p) ==
    \/ \E c \in ProductCalls : CreateProduct(c, p) \/ UpdateReadProduct(c, p) \/ RemoveProduct(c, p)
    \/ Attach(p) \/ Detach(p)
    \/ UpsertProductTranslation(p) \/ DeleteProductTranslation(p)

AttributeRequest(a) ==
    \/ CreateDefinition(a) \/ UpdateDefinition(a) \/ RemoveDefinition(a)
    \/ \E p \in ProductIds : SetProductAttribute(a, p)
    \/ \E k \in Skus : SetVariantAttribute(a, k)
    \/ \E v \in values : RemoveAttributeValue(v)

ProductsNext ==
    \/ \E p \in ProductIds : ProductRequest(p)
    \/ \E a \in Attributes : AttributeRequest(a)
    \/ \E c \in ProductCalls :
           \/ CreateVariants(c) \/ UpdateSaveProduct(c) \/ AnnounceProduct(c)
           \/ OnProductUpsert(c) \/ OnProductDeleted(c) \/ ProductCallDies(c)

ProductsSpec == ProductsInit /\ [][ProductsNext]_productVars

-----------------------------------------------------------------------------
(***************************************************************************)
(* Search finds no product that is removed or inactive, except while a     *)
(* call on it is under way and after calls on it have overlapped or died:  *)
(* every change of a product that matters to the index reaches it.         *)
(***************************************************************************)
SearchFindsWhatIsSold ==
    \A p \in found : BusyWith(p) \/ p \in disturbed \/ product[p].at = "active"
=============================================================================
