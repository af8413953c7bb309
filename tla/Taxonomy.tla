------------------------------ MODULE Taxonomy ------------------------------
(***************************************************************************)
(* The catalog's taxonomy: CategoriesService with the translations of      *)
(* categories, BrandsService and CollectionsService.                       *)
(*                                                                         *)
(* A category may be moved below another unless that would close a cycle:  *)
(* assertNoCycle walks from the new parent to the root, one query for each *)
(* ancestor, and the row is saved after the walk.  These calls are taken   *)
(* apart; the other requests are one statement each that matters.          *)
(***************************************************************************)
EXTENDS Integers, FiniteSets

CONSTANTS
    Categories, Slugs, Stores, Labels,
    TaxonomyCalls,      \* updates of categories under way at a time
    MaxTaxonomyEdits    \* bound: other requests

\* No id of a category is the absent parent of the roots.
ASSUME CategoriesAssumption == "root" \notin Categories

VARIABLES
    category,           \* the rows of categories
    categoryLocales,    \* translated categories (category_translations, one locale)
    labels,             \* brands and collections by their slugs
    move,               \* updates under way, with the row each read
    overlapped,         \* ghost: two updates of categories have overlapped
    taxonomyEdits

taxonomyVars == <<category, categoryLocales, labels, move, overlapped, taxonomyEdits>>

NoParent == "root"
Shared == "shared"      \* storeId null

NoCategory == [at |-> "none"]
CategoryRow == [at : {"present"}, parent : Categories \cup {NoParent}, slug : Slugs,
                scope : Stores \cup {Shared}]

Present(c) == category[c].at = "present"
Parents == {c \in Categories : Present(c)} \cup {NoParent}

IdleMove == [at |-> "idle"]
Underway(k) == move[k] # IdleMove

TaxonomyInit ==
    /\ category = [c \in Categories |-> NoCategory]
    /\ categoryLocales = {}
    /\ labels = [kind \in {"brand", "collection"} |-> {}]
    /\ move = [k \in TaxonomyCalls |-> IdleMove]
    /\ overlapped = FALSE
    /\ taxonomyEdits = 0

GoMove(k, call) == move' = [move EXCEPT ![k] = call]

\* A slug is unique among the shared categories and within each store.
SlugFree(c, slug, scope) ==
    \A d \in Categories \ {c} :
        Present(d) => category[d].slug # slug \/ category[d].scope # scope

TaxonomyEdit ==
    /\ taxonomyEdits < MaxTaxonomyEdits
    /\ taxonomyEdits' = taxonomyEdits + 1
    /\ UNCHANGED move

-----------------------------------------------------------------------------
\* A new category has an id that no call under way has seen.
FreshId(c) ==
    /\ category[c] = NoCategory
    /\ \A k \in TaxonomyCalls :
           Underway(k) => c \notin {move[k].id, move[k].row.parent} \cup move[k].seen

CreateCategory(c) ==
    /\ FreshId(c)
    /\ TaxonomyEdit
    /\ \E row \in CategoryRow :
           /\ row.parent \in Parents
           /\ SlugFree(c, row.slug, row.scope)
           /\ category' = [category EXCEPT ![c] = row]
    /\ UNCHANGED <<categoryLocales, labels, overlapped>>

\* Children lose their parent, translations go with the category.
RemoveCategory(c) ==
    /\ Present(c)
    /\ TaxonomyEdit
    /\ category' = [d \in Categories |->
           IF d = c THEN NoCategory
           ELSE IF Present(d) /\ category[d].parent = c
                THEN [category[d] EXCEPT !.parent = NoParent] ELSE category[d]]
    /\ categoryLocales' = categoryLocales \ {c}
    /\ UNCHANGED <<labels, overlapped>>

\* update reads the row; with a new parent it looks for it and walks from there.
MoveRead(k, c) ==
    /\ move[k] = IdleMove
    /\ Present(c)
    /\ \E slug \in Slugs, parent \in Parents \ {c} :
           GoMove(k, [at |-> IF parent = NoParent THEN "save" ELSE "walk", id |-> c,
                      row |-> [category[c] EXCEPT !.parent = parent, !.slug = slug],
                      current |-> parent, seen |-> {parent} \ {NoParent}])
    /\ overlapped' = (overlapped \/ \E j \in TaxonomyCalls : Underway(j))
    /\ UNCHANGED <<category, categoryLocales, labels, taxonomyEdits>>

\* An update that leaves the parent alone does not walk: it saves the one it read.
RenameRead(k, c) ==
    /\ move[k] = IdleMove
    /\ Present(c)
    /\ \E slug \in Slugs, scope \in Stores \cup {Shared} :
           GoMove(k, [at |-> "save", id |-> c, current |-> NoParent, seen |-> {},
                      row |-> [category[c] EXCEPT !.slug = slug, !.scope = scope]])
    /\ overlapped' = (overlapped \/ \E j \in TaxonomyCalls : Underway(j))
    /\ UNCHANGED <<category, categoryLocales, labels, taxonomyEdits>>

\* Wrong on purpose: only the new parent's own parent is looked at.
WalkParentOnly(k) ==
    /\ move[k].at = "walk"
    /\ LET p == category[move[k].current]
       IN  GoMove(k, IF p.at = "present" /\ p.parent = move[k].id THEN IdleMove
                     ELSE [move[k] EXCEPT !.at = "save"])
    /\ UNCHANGED <<category, categoryLocales, labels, overlapped, taxonomyEdits>>

\* One query of assertNoCycle.  A category seen before ends the walk, as the root does.
WalkUp(k) ==
    /\ move[k].at = "walk"
    /\ LET p == category[move[k].current]
           next == IF p.at = "present" THEN p.parent ELSE NoParent
       IN  GoMove(k, IF next = move[k].id THEN IdleMove
                     ELSE IF next = NoParent \/ next \in move[k].seen
                          THEN [move[k] EXCEPT !.at = "save"]
                          ELSE [move[k] EXCEPT !.current = next, !.seen = @ \cup {next}])
    /\ UNCHANGED <<category, categoryLocales, labels, overlapped, taxonomyEdits>>

\* The whole row is written; a row removed meanwhile is inserted again.  The call
\* fails when the slug is taken or the parent is gone.
MoveSave(k) ==
    /\ move[k].at = "save"
    /\ LET c == move[k].id  row == move[k].row
       IN  IF /\ SlugFree(c, row.slug, row.scope)
              /\ row.parent \in Parents
           THEN category' = [category EXCEPT ![c] = row]
           ELSE UNCHANGED category
    /\ GoMove(k, IdleMove)
    /\ UNCHANGED <<categoryLocales, labels, overlapped, taxonomyEdits>>

-----------------------------------------------------------------------------
UpsertCategoryTranslation(c) ==
    /\ Present(c)
    /\ TaxonomyEdit
    /\ categoryLocales' = categoryLocales \cup {c}
    /\ UNCHANGED <<category, labels, overlapped>>

DeleteCategoryTranslation(c) ==
    /\ c \in categoryLocales
    /\ TaxonomyEdit
    /\ categoryLocales' = categoryLocales \ {c}
    /\ UNCHANGED <<category, labels, overlapped>>

CreateLabel(kind, slug) ==
    /\ slug \notin labels[kind]
    /\ TaxonomyEdit
    /\ labels' = [labels EXCEPT ![kind] = @ \cup {slug}]
    /\ UNCHANGED <<category, categoryLocales, overlapped>>

UpdateLabel(kind, old, new) ==
    /\ old \in labels[kind]
    /\ new \notin labels[kind]
    /\ TaxonomyEdit
    /\ labels' = [labels EXCEPT ![kind] = (@ \ {old}) \cup {new}]
    /\ UNCHANGED <<category, categoryLocales, overlapped>>

RemoveLabel(kind, slug) ==
    /\ slug \in labels[kind]
    /\ TaxonomyEdit
    /\ labels' = [labels EXCEPT ![kind] = @ \ {slug}]
    /\ UNCHANGED <<category, categoryLocales, overlapped>>

CategoryRequest(c) ==
    \/ CreateCategory(c) \/ RemoveCategory(c)
    \/ UpsertCategoryTranslation(c) \/ DeleteCategoryTranslation(c)

BrandRequest ==
    \E slug \in Labels :
        \/ CreateLabel("brand", slug) \/ RemoveLabel("brand", slug)
        \/ \E new \in Labels : UpdateLabel("brand", slug, new)

CollectionRequest ==
    \E slug \in Labels :
        \/ CreateLabel("collection", slug) \/ RemoveLabel("collection", slug)
        \/ \E new \in Labels : UpdateLabel("collection", slug, new)

TaxonomyNext ==
    \/ \E c \in Categories :
           CategoryRequest(c) \/ \E k \in TaxonomyCalls : MoveRead(k, c) \/ RenameRead(k, c)
    \/ \E k \in TaxonomyCalls : WalkUp(k) \/ MoveSave(k)
    \/ BrandRequest \/ CollectionRequest

TaxonomySpec == TaxonomyInit /\ [][TaxonomyNext]_taxonomyVars

-----------------------------------------------------------------------------
\* Categories that never come to the root: each has a parent, and those of the
\* parents that are there are among them.
LeadNowhere(S) ==
    \A c \in S : /\ Present(c) /\ category[c].parent # NoParent
                 /\ Present(category[c].parent) => category[c].parent \in S

(***************************************************************************)
(* As long as no two updates have overlapped, every category leads to the  *)
(* root (the walk of assertNoCycle, line 217, over trees of any shape,     *)
(* with removals in between that cut branches off and rows that come       *)
(* back).  Two updates that overlap can close a cycle.                     *)
(***************************************************************************)
CyclesNeedTwoMoves ==
    overlapped \/ \A S \in SUBSET Categories : LeadNowhere(S) => S = {}
=============================================================================
