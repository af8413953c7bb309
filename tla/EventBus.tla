------------------------------ MODULE EventBus ------------------------------
(***************************************************************************)
(* EventBusService, for one event: listeners subscribe and unsubscribe     *)
(* while publications are under way, each of which awaits one listener     *)
(* after the other.                                                        *)
(*                                                                         *)
(* A publication iterates over the array it found.  subscribe appends to   *)
(* the current array in place, unsubscribe replaces it by a filtered copy: *)
(* what a publication sees depends on which of them came between.          *)
(***************************************************************************)
EXTENDS Integers, Sequences, FiniteSetsExt

CONSTANTS
    Listeners,          \* the ids given to subscribe, each with its handler
    Publications,       \* publications under way at a time
    MaxBusEdits         \* bound: subscriptions, unsubscriptions, publications

ASSUME PublicationsAssumption == IsFiniteSet(Publications)

\* Arrays that someone holds: the current one, and one for each publication.
Arrays == 1 .. Cardinality(Publications) + 2

VARIABLES
    array,              \* the arrays of RegisteredListener
    current,            \* listeners.get(eventName): an array, or 0
    publication,
    busEdits

busVars == <<array, current, publication, busEdits>>

\* heard counts the calls of each listener, steady are the listeners that have been
\* subscribed all along (both ghosts); throws: a listener asked for that.
IdlePublication == [at |-> "idle"]

BusInit ==
    /\ array = [a \in Arrays |-> <<>>]
    /\ current = 0
    /\ publication = [k \in Publications |-> IdlePublication]
    /\ busEdits = 0

BusEdit ==
    /\ busEdits < MaxBusEdits
    /\ busEdits' = busEdits + 1

List == IF current = 0 THEN <<>> ELSE array[current]
Subscribed == Range(List)

\* Each caller of subscribe has an id of its own, so that filter drops one entry.
ListWithout(l) ==
    LET i == CHOOSE j \in DOMAIN List : List[j] = l
    IN  SubSeq(List, 1, i - 1) \o SubSeq(List, i + 1, Len(List))

Held == {current} \cup {publication[k].array : k \in {j \in Publications : publication[j].at = "running"}}
FreshArray == Min(Arrays \ Held)

Unsteady(l) ==
    [k \in Publications |-> IF publication[k].at = "running"
                            THEN [publication[k] EXCEPT !.steady = @ \ {l}] ELSE publication[k]]

-----------------------------------------------------------------------------
BusSubscribe(l) ==
    /\ l \notin Subscribed
    /\ BusEdit
    /\ current' = IF current = 0 THEN FreshArray ELSE current
    /\ array' = [array EXCEPT ![current'] = Append(List, l)]
    /\ UNCHANGED publication

\* Wrong on purpose: the listener is spliced out of the array itself.
UnsubscribeInPlace(l) ==
    /\ l \in Subscribed
    /\ BusEdit
    /\ array' = [array EXCEPT ![current] = ListWithout(l)]
    /\ UNCHANGED current
    /\ publication' = Unsteady(l)

Unsubscribe(l) ==
    /\ l \in Subscribed
    /\ BusEdit
    /\ IF Len(List) = 1
       THEN current' = 0 /\ UNCHANGED array
       ELSE /\ current' = FreshArray
            /\ array' = [array EXCEPT ![current'] = ListWithout(l)]
    /\ publication' = Unsteady(l)

\* The data has passed its schema; otherwise publish throws before this step.
Publish(k) ==
    /\ publication[k].at # "running"
    /\ BusEdit
    /\ publication' = [publication EXCEPT ![k] =
           [at |-> "running", array |-> current, next |-> 1, steady |-> Subscribed,
            heard |-> [l \in Listeners |-> 0], throws |-> FALSE]]
    /\ UNCHANGED <<array, current>>

Awaited(k) == IF publication[k].array = 0 THEN <<>> ELSE array[publication[k].array]

\* One handler settles.  A failure is logged and, with errorPolicy 'throw', kept for
\* the end: the listeners after it are called all the same.
PublishCall(k) ==
    /\ publication[k].at = "running"
    /\ publication[k].next <= Len(Awaited(k))
    /\ \E fails \in BOOLEAN :
           publication' = [publication EXCEPT
               ![k].next = @ + 1,
               ![k].heard[Awaited(k)[publication[k].next]] = @ + 1,
               ![k].throws = @ \/ fails]
    /\ UNCHANGED <<array, current, busEdits>>

PublishEnd(k) ==
    /\ publication[k].at = "running"
    /\ publication[k].next > Len(Awaited(k))
    /\ publication' = [publication EXCEPT ![k] =
           [at |-> IF @.throws THEN "threw" ELSE "done", heard |-> @.heard, steady |-> @.steady]]
    /\ UNCHANGED <<array, current, busEdits>>

BusNext ==
    \/ \E l \in Listeners : BusSubscribe(l) \/ Unsubscribe(l)
    \/ \E k \in Publications : Publish(k) \/ PublishCall(k) \/ PublishEnd(k)

BusSpec == BusInit /\ [][BusNext]_busVars

-----------------------------------------------------------------------------
(***************************************************************************)
(* A publication calls nobody twice, and a listener that stays subscribed  *)
(* from its start to its end exactly once, whoever comes and goes in the   *)
(* meantime and whichever handlers fail (publish iterates, line 94, over   *)
(* an array that subscribe, line 57, and unsubscribe, line 65, must not    *)
(* shift under it).                                                        *)
(***************************************************************************)
EachListenerOnce ==
    \A k \in Publications :
        publication[k].at \in {"done", "threw"} =>
            \A l \in Listeners :
                /\ publication[k].heard[l] <= 1
                /\ l \in publication[k].steady => publication[k].heard[l] = 1
=============================================================================
