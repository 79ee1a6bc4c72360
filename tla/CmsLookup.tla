------------------------------- MODULE CmsLookup -------------------------------
(***************************************************************************)
(* WebflowLookupService of services/webflow_lookup.py: one lookup of a     *)
(* page's record in the CMS, by its id or else by a walk through the       *)
(* collection for its slug, and of the references a position list holds.   *)
(* Editors change the collection while it is walked; every request may     *)
(* fail, and a failed one counts as "not there".                           *)
(***************************************************************************)
EXTENDS Naturals, Sequences, FiniteSets, FiniteSetsExt, SequencesExt, Subsequences

CONSTANTS
  Lookups,      \* the requests: [kind, by, configured, positions]
  Collections,  \* the sequences of items a collection may be
  Target,       \* the item that is looked up
  Listings,     \* the lists of its references: [support, oppose]
  PageSize,     \* page_size
  None

Kinds == {"bill", "organization", "legislator"}
Sides == {"support", "oppose"}

Parameters ==
  /\ PageSize \in Nat \ {0}
  /\ \A c \in Collections : IsList(c)
  /\ \A l \in Listings, side \in Sides : IsList(l[side])

VARIABLES
  ask,         \* the request
  collection,  \* the items of the collection it is for, in the API's order
  listing,     \* the references of the target: sequences of [id, inline]
  at,          \* the step
  offset,      \* where the walk is
  cache,       \* _org_cache or _bill_cache: the ids whose record is remembered
  fetch,       \* reference of the side being resolved -> its state
  shown,       \* the answer, or None
  disturbed    \* history: a request of the walk failed, or an editor was busy

vars == <<ask, collection, listing, at, offset, cache, fetch, shown, disturbed>>

Ids(refs) == [i \in DOMAIN refs |-> refs[i].id]
NoFetch == <<>>

TypeOK ==
  /\ ask \in Lookups /\ collection \in Collections /\ listing \in Listings
  /\ at \in {"asked", "by id", "walking", "over"} \cup Sides
  /\ offset \in Nat /\ \E n \in 0 .. offset : offset = n * PageSize
  /\ fetch = NoFetch \/ fetch \in Seq({"running", "given", "dropped"})
  /\ shown = None \/ shown.what \in {"nothing", "details", "none recorded", "positions"}
  /\ disturbed \in BOOLEAN

Init ==
  /\ ask \in Lookups /\ collection \in Collections /\ listing \in Listings
  /\ at = "asked" /\ offset = 0
  /\ cache \in {{}, {r.id : r \in {x \in ToSet(listing.support) : ~x.inline}}}
  /\ fetch = NoFetch /\ shown = None /\ disturbed = FALSE

-----------------------------------------------------------------------------
Nothing == [what |-> "nothing", support |-> <<>>, oppose |-> <<>>]
Ends(answer) == at' = "over" /\ shown' = answer /\ UNCHANGED fetch
NotFound == Ends(Nothing)

\* A request without an id and a slug is not made.
Begin ==
  /\ at = "asked"
  /\ \/ ask.by = {} /\ NotFound
     \/ "id" \in ask.by /\ at' = "by id" /\ UNCHANGED <<fetch, shown>>
     \/ ask.by = {"slug"} /\ at' = "walking" /\ UNCHANGED <<fetch, shown>>
  /\ UNCHANGED <<ask, collection, listing, offset, cache, disturbed>>

\* _resolve_*_references: what a record has inline or in memory is there at once.
Resolves(side) ==
  /\ at' = side
  /\ fetch' = [i \in DOMAIN listing[side] |->
                 LET ref == listing[side][i]
                 IN IF ref.inline \/ ref.id \in cache THEN "given"
                    ELSE IF ask.kind = "bill" /\ ~ask.configured THEN "dropped"
                    ELSE "running"]

\* The item is there: its facts, or the references of its positions.
Found ==
  IF ~ask.positions THEN Ends([Nothing EXCEPT !.what = "details"])
  ELSE IF listing.support = <<>> /\ listing.oppose = <<>>
    THEN Ends([Nothing EXCEPT !.what = "none recorded"])
    ELSE Resolves("support") /\ shown' = Nothing

\* A request by id is answered with the item, with 404, or not at all.
ById(kind, made) ==
  /\ at = "by id" /\ ask.kind = kind
  /\ \/ made /\ Found
     \/ "slug" \in ask.by /\ at' = "walking" /\ UNCHANGED <<fetch, shown>>
     \/ "slug" \notin ask.by /\ NotFound
  /\ UNCHANGED <<ask, collection, listing, offset, cache, disturbed>>

BillById == ById("bill", TRUE)
OrganizationById == ById("organization", ask.configured)
LegislatorById == ById("legislator", ask.configured)

Page == SubSeq(collection, offset + 1, Min({offset + PageSize, Len(collection)}))

\* Slip: the last page is missed when it has one item.
LastPageEarly(page, total) == offset + Len(page) + 1 >= total \/ Len(page) < PageSize
LastPage(page, total) == offset + Len(page) >= total \/ Len(page) < PageSize

\* A page of the walk for the slug; total: 0 where the answer does not tell.
PageAnswered(page, total) ==
  /\ disturbed' = (disturbed \/ total # Len(collection))
  /\ IF Target \in ToSet(page) THEN Found /\ UNCHANGED offset
     ELSE IF page = <<>> \/ LastPage(page, total) THEN NotFound /\ UNCHANGED offset
     ELSE offset' = offset + PageSize /\ UNCHANGED <<at, fetch, shown>>

PageFails == NotFound /\ disturbed' = TRUE /\ UNCHANGED offset

Walk(kind, made) ==
  /\ at = "walking" /\ ask.kind = kind
  /\ IF ~made THEN NotFound /\ UNCHANGED <<offset, disturbed>>
     ELSE \/ \E total \in {0, Len(collection)} : PageAnswered(Page, total)
          \/ PageFails
  /\ UNCHANGED <<ask, collection, listing, cache>>

WalkBills == Walk("bill", TRUE)
WalkOrganizations == Walk("organization", ask.configured)
WalkLegislators == Walk("legislator", ask.configured)

\* An editor adds, removes or moves items.
Edited ==
  /\ at = "walking"
  /\ collection' \in Collections \ {collection}
  /\ disturbed' = TRUE
  /\ UNCHANGED <<ask, listing, at, offset, cache, fetch, shown>>

-----------------------------------------------------------------------------
Running(kind, i) ==
  ask.kind = kind /\ at \in Sides /\ i \in DOMAIN fetch /\ fetch[i] = "running"

\* A reference is answered with a record that has a name: remembered for good;
\* or with none, or not at all: dropped.
Fetched(kind, i) ==
  /\ Running(kind, i)
  /\ \/ /\ fetch' = [fetch EXCEPT ![i] = "given"]
        /\ cache' = cache \cup {listing[at][i].id}
     \/ fetch' = [fetch EXCEPT ![i] = "dropped"] /\ UNCHANGED cache
  /\ UNCHANGED <<ask, collection, listing, at, offset, shown, disturbed>>

OrganizationFetched(i) == Fetched("bill", i)
BillFetched(i) == Fetched("organization", i)

\* Both lists are resolved, one after the other; what is shown is what is left,
\* sorted back into the order of the list.
Resolved(kind) ==
  /\ ask.kind = kind /\ at \in Sides
  /\ \A i \in DOMAIN fetch : fetch[i] # "running"
  /\ LET given == {i \in DOMAIN fetch : fetch[i] = "given"}
         side == Ids(Chosen(listing[at], given))
         answer == [shown EXCEPT ![at] = side]
     IN IF at = "support"
          THEN Resolves("oppose") /\ shown' = answer
          ELSE /\ Ends([answer EXCEPT !.what =
                    IF answer.support = <<>> /\ answer.oppose = <<>> THEN "none recorded"
                    ELSE "positions"])
  /\ UNCHANGED <<ask, collection, listing, offset, cache, disturbed>>

OrganizationsResolved == Resolved("bill")
BillsResolved == Resolved("organization")

Next ==
  \/ Begin \/ Edited
  \/ BillById \/ OrganizationById \/ LegislatorById
  \/ WalkBills \/ WalkOrganizations \/ WalkLegislators
  \/ \E i \in DOMAIN fetch : OrganizationFetched(i) \/ BillFetched(i)
  \/ OrganizationsResolved \/ BillsResolved

Spec == Init /\ [][Next]_vars

-----------------------------------------------------------------------------
(* A walk for the slug ends with "not found" only if the item is on no     *)
(* page, a request failed, or the pages moved under it: an item on the     *)
(* last page, or alone on it, is found.                                    *)
WalkFindsWhatIsThere ==
  at = "over" /\ shown = Nothing /\ "slug" \in ask.by /\ (ask.kind = "bill" \/ ask.configured)
    => disturbed \/ Target \notin ToSet(collection)

(* The positions shown are those of the record: each under its own side,   *)
(* in the record's order whatever order they were answered in, and each    *)
(* that is inline or remembered.                                           *)
ShownAsListed ==
  at = "over" /\ shown # None /\ shown.what = "positions" =>
    \A side \in Sides :
      /\ \E set \in SUBSET DOMAIN listing[side] : shown[side] = Ids(Chosen(listing[side], set))
      /\ \A ref \in ToSet(listing[side]) : ref.inline => ref.id \in ToSet(shown[side])
=============================================================================
