----------------------------- MODULE Locations -----------------------------
(***************************************************************************)
(* StoreService, WarehouseService, StoreWarehouseService and               *)
(* StoreChannelSettingsService.                                            *)
(*                                                                         *)
(* Stores and warehouses are kept alike: codes are unique, at most one     *)
(* row of each kind is the default (a partial unique index), and update    *)
(* and remove read the row first and write it later.  A new store is       *)
(* given the default warehouse and a row of settings by two listeners.     *)
(***************************************************************************)
EXTENDS Integers

CONSTANTS
    StoreIds, WarehouseIds, Codes,
    DefaultWarehouse,   \* the warehouse the migrations insert
    LocationCalls,      \* calls under way at a time
    MaxLocationEdits    \* bound: requests

ASSUME DefaultWarehouseAssumption == DefaultWarehouse \in WarehouseIds

ASSUME PlacesAssumption == StoreIds \cap WarehouseIds = {}

VARIABLES
    place,              \* the rows of stores and of warehouses
    link,               \* store_warehouses
    settings,           \* stores with a row in store_channel_settings
    locationCall,       \* calls under way
    kept,               \* ghost: the kinds whose default nobody took away
    locationEdits

locationVars == <<place, link, settings, locationCall, kept, locationEdits>>

Places == StoreIds \cup WarehouseIds
Kind(p) == IF p \in StoreIds THEN StoreIds ELSE WarehouseIds

NoPlace == [at |-> "none"]
PlaceRow == [at : {"present"}, code : Codes, default : BOOLEAN]
Stands(p) == place[p] # NoPlace

IdleLocation == [at |-> "idle"]

LocationsInit ==
    /\ \E code \in Codes :
           place = [p \in Places |->
               IF p = DefaultWarehouse THEN [at |-> "present", code |-> code, default |-> TRUE]
               ELSE NoPlace]
    /\ link = [l \in StoreIds \X WarehouseIds |-> "none"]
    /\ settings = {}
    /\ locationCall = [k \in LocationCalls |-> IdleLocation]
    /\ kept = {WarehouseIds}
    /\ locationEdits = 0

LocationEdit ==
    /\ locationEdits < MaxLocationEdits
    /\ locationEdits' = locationEdits + 1

GoLocation(k, call) == locationCall' = [locationCall EXCEPT ![k] = call]

\* Calls that have read a row of this kind and not yet written it.
Writers(kind) ==
    {k \in LocationCalls :
        locationCall[k].at \in {"save", "delete"} /\ locationCall[k].id \in kind}

CodeFree(p, code) == \A q \in Kind(p) \ {p} : Stands(q) => place[q].code # code
HasDefault(kind) == \E p \in kind : Stands(p) /\ place[p].default

\* repo.update({ isDefault: true }, { isDefault: false }) for the kind of p.
Demoted(p, rows) ==
    [q \in Places |-> IF q \in Kind(p) /\ rows[q] # NoPlace
                      THEN [rows[q] EXCEPT !.default = FALSE] ELSE rows[q]]

\* The partial unique index: p may be default, or no row of its kind may be besides.
OneDefault(p, rows) ==
    \A q \in Kind(p) \ {p} : rows[q] # NoPlace => ~(rows[q].default /\ rows[p].default)

-----------------------------------------------------------------------------
(***************************************************************************)
(* The transaction of create and of update: with isDefault, the default    *)
(* there was is demoted first; a code that is taken undoes that.           *)
(***************************************************************************)
\* Wrong on purpose: the demotion is committed on its own.
SavedApart(p, row, promote) ==
    LET demoted == IF promote THEN Demoted(p, place) ELSE place
        rows == [demoted EXCEPT ![p] = row]
    IN  IF CodeFree(p, row.code) /\ OneDefault(p, rows) THEN rows ELSE demoted

Saved(p, row, promote) ==
    LET rows == [(IF promote THEN Demoted(p, place) ELSE place) EXCEPT ![p] = row]
    IN  IF CodeFree(p, row.code) /\ OneDefault(p, rows) THEN rows ELSE place

CreatePlace(p) ==
    /\ ~Stands(p)
    /\ LocationEdit
    /\ \E row \in PlaceRow :
           /\ place' = Saved(p, row, row.default)
           /\ kept' = IF Writers(Kind(p)) # {} THEN kept \ {Kind(p)}
                      ELSE IF place'[p] = row /\ row.default THEN kept \cup {Kind(p)} ELSE kept
    /\ UNCHANGED link

CreateWarehouse(w) == CreatePlace(w) /\ UNCHANGED <<settings, locationCall>>

\* StoreCreated is published after the commit.
CreateStore(k, s) ==
    /\ locationCall[k] = IdleLocation
    /\ CreatePlace(s)
    /\ GoLocation(k, IF place'[s] = NoPlace THEN IdleLocation ELSE [at |-> "link", id |-> s])
    /\ UNCHANGED settings

\* update and remove look the row up; remove refuses the default.
UpdatePlaceRead(k, p) ==
    /\ locationCall[k] = IdleLocation
    /\ Stands(p)
    /\ LocationEdit
    /\ \E code \in Codes, default \in {"keep", "set", "clear"} :
           GoLocation(k, [at |-> "save", id |-> p, promote |-> default = "set",
                          row |-> [place[p] EXCEPT !.code = code,
                                       !.default = default # "clear" /\ (@ \/ default = "set")]])
    /\ kept' = IF Writers(Kind(p)) # {} THEN kept \ {Kind(p)} ELSE kept
    /\ UNCHANGED <<place, link, settings>>

UpdatePlaceSave(k) ==
    /\ locationCall[k].at = "save"
    /\ LET p == locationCall[k].id  row == locationCall[k].row
       IN  /\ place' = Saved(p, row, locationCall[k].promote)
           /\ kept' = IF place'[p] # row THEN kept
                      ELSE IF ~row.default /\ Stands(p) /\ place[p].default
                           THEN kept \ {Kind(p)}
                      ELSE IF row.default /\ Writers(Kind(p)) = {k}
                           THEN kept \cup {Kind(p)} ELSE kept
    /\ GoLocation(k, IdleLocation)
    /\ UNCHANGED <<link, settings, locationEdits>>

RemovePlaceRead(k, p) ==
    /\ locationCall[k] = IdleLocation
    /\ Stands(p) /\ ~place[p].default
    /\ LocationEdit
    /\ GoLocation(k, [at |-> "delete", id |-> p])
    /\ kept' = IF Writers(Kind(p)) # {} THEN kept \ {Kind(p)} ELSE kept
    /\ UNCHANGED <<place, link, settings>>

\* The foreign keys cascade to links and settings; they restrict the deletion of a
\* warehouse with stock, which then fails.
RemovePlaceDelete(k) ==
    /\ locationCall[k].at = "delete"
    /\ LET p == locationCall[k].id
       IN  \/ /\ place' = [place EXCEPT ![p] = NoPlace]
              /\ link' = [l \in DOMAIN link |-> IF p \in {l[1], l[2]} THEN "none" ELSE link[l]]
              /\ settings' = settings \ {p}
           \/ p \in WarehouseIds /\ UNCHANGED <<place, link, settings>>
    /\ GoLocation(k, IdleLocation)
    /\ UNCHANGED <<kept, locationEdits>>

-----------------------------------------------------------------------------
(***************************************************************************)
(* Which warehouses serve a store.                                         *)
(***************************************************************************)
\* One transaction: a link that becomes or stays primary is the only one.
Linked(s, w, primary) ==
    [l \in DOMAIN link |->
        IF l = <<s, w>> THEN IF primary \/ link[l] = "primary" THEN "primary" ELSE "linked"
        ELSE IF l[1] = s /\ link[l] = "primary" /\ primary THEN "linked" ELSE link[l]]

Link(s, w) ==
    /\ Stands(s) /\ Stands(w)
    /\ LocationEdit
    /\ \E primary \in BOOLEAN : link' = Linked(s, w, primary)
    /\ UNCHANGED <<place, settings, locationCall, kept>>

Unlink(k, s, w) ==
    /\ locationCall[k] = IdleLocation
    /\ link[<<s, w>>] # "none"
    /\ LocationEdit
    /\ link' = [link EXCEPT ![<<s, w>>] = "none"]
    /\ GoLocation(k, IF link[<<s, w>>] = "primary" THEN [at |-> "promote", id |-> s]
                     ELSE IdleLocation)
    /\ UNCHANGED <<place, settings, kept>>

\* The next link becomes primary, unless another one has: then the call fails.
UnlinkPromote(k) ==
    /\ locationCall[k].at = "promote"
    /\ LET s == locationCall[k].id
           others == {w \in WarehouseIds : link[<<s, w>>] # "none"}
       IN  IF others = {} \/ \E w \in others : link[<<s, w>>] = "primary"
           THEN UNCHANGED link
           ELSE \E w \in others : link' = [link EXCEPT ![<<s, w>>] = "primary"]
    /\ GoLocation(k, IdleLocation)
    /\ UNCHANGED <<place, settings, kept, locationEdits>>

\* ensureDefaultForStore, for StoreCreated.
OnStoreCreatedLink(k) ==
    /\ locationCall[k].at = "link"
    /\ LET s == locationCall[k].id
           default == {w \in WarehouseIds : Stands(w) /\ place[w].default}
       IN  IF Stands(s) /\ (\A w \in WarehouseIds : link[<<s, w>>] = "none")
           THEN \/ default = {} /\ UNCHANGED link
                \/ \E w \in default : link' = Linked(s, w, TRUE)
           ELSE UNCHANGED link
    /\ GoLocation(k, [locationCall[k] EXCEPT !.at = "settings"])
    /\ UNCHANGED <<place, settings, kept, locationEdits>>

\* ensureForStore, for StoreCreated.
OnStoreCreatedSettings(k) ==
    /\ locationCall[k].at = "settings"
    /\ settings' = settings \cup {s \in {locationCall[k].id} : Stands(s)}
    /\ GoLocation(k, IdleLocation)
    /\ UNCHANGED <<place, link, kept, locationEdits>>

\* getForStore and update give a store its row when it has none.
EnsureSettings(s) ==
    /\ Stands(s) /\ s \notin settings
    /\ LocationEdit
    /\ settings' = settings \cup {s}
    /\ UNCHANGED <<place, link, locationCall, kept>>

LocationCallDies(k) ==
    /\ locationCall[k] # IdleLocation
    /\ GoLocation(k, IdleLocation)
    /\ UNCHANGED <<place, link, settings, kept, locationEdits>>

StoreRequest(k, s) == CreateStore(k, s) \/ UpdatePlaceRead(k, s) \/ RemovePlaceRead(k, s)
WarehouseRequest(k, w) == CreateWarehouse(w) \/ UpdatePlaceRead(k, w) \/ RemovePlaceRead(k, w)
LinkRequest(k, s) == \E w \in WarehouseIds : Link(s, w) \/ Unlink(k, s, w)

LocationStep(k) ==
    \/ UpdatePlaceSave(k) \/ RemovePlaceDelete(k) \/ UnlinkPromote(k)
    \/ OnStoreCreatedLink(k) \/ OnStoreCreatedSettings(k) \/ LocationCallDies(k)

LocationsNext ==
    \E k \in LocationCalls :
        \/ \E s \in StoreIds : StoreRequest(k, s) \/ LinkRequest(k, s) \/ EnsureSettings(s)
        \/ \E w \in WarehouseIds : WarehouseRequest(k, w)
        \/ LocationStep(k)

LocationsSpec == LocationsInit /\ [][LocationsNext]_locationVars

-----------------------------------------------------------------------------
(***************************************************************************)
(* Stores and warehouses keep a default once they have one, until an       *)
(* update takes it away on purpose or two calls overlap: neither a failed  *)
(* promotion nor a deletion leaves none (resolveWarehouseId and the links  *)
(* of new stores count on one).                                            *)
(***************************************************************************)
DefaultIsKept == \A kind \in kept : HasDefault(kind)
=============================================================================
