------------------------------- MODULE Listing -------------------------------
(***************************************************************************)
(* The paginated reads of the two contracts, over the lists that Registry  *)
(* and CampaignManager build up.                                           *)
(***************************************************************************)
EXTENDS CampaignManager, SequencesExt

CONSTANTS
    PageSize,  \* page_size of list_active_campaigns
    U32Max     \* the largest u32

ASSUME ListingAssumption == PageSize \in Nat \ {0} /\ U32Max \in Nat

Matches(type, wanted) == wanted = None \/ type = wanted

(* Mutant: one entry too many is passed over. *)
VisitedOneLate(page, start, limit, entry) ==
    IF page.end THEN page
    ELSE IF page.count <= start THEN [page EXCEPT !.count = @ + 1]
    ELSE IF Len(page.entries) >= limit THEN [page EXCEPT !.end = TRUE]
    ELSE [page EXCEPT !.count = @ + 1, !.entries = Append(@, entry)]

(* What an entry that passes the filter does to the page being filled: it  *)
(* is passed over, ends the loop or is taken.                              *)
Visited(page, start, limit, entry) ==
    IF page.end THEN page
    ELSE IF page.count < start THEN [page EXCEPT !.count = @ + 1]
    ELSE IF Len(page.entries) >= limit THEN [page EXCEPT !.end = TRUE]
    ELSE [page EXCEPT !.count = @ + 1, !.entries = Append(@, entry)]

EmptyPage == [count |-> 0, entries |-> <<>>, end |-> FALSE]

(* The loop over a list, taking from the entries kept by the filter.  The  *)
(* product page * limit traps on overflow.                                 *)
Paged(list, kept, page, limit) ==
    IF page * limit > U32Max THEN "Trap"
    ELSE LET filling[i \in 0 .. Len(list)] ==
                 IF i = 0 THEN EmptyPage
                 ELSE IF list[i] \in kept
                      THEN Visited(filling[i - 1], page * limit, limit, list[i])
                      ELSE filling[i - 1]
         IN  filling[Len(list)].entries

-----------------------------------------------------------------------------
Active(type, c) ==
    Exists(c) /\ campaigns[c].state = "Active" /\ Matches(campaigns[c].campaign_type, type)

list_active_campaigns(type, page) ==
    Paged(ids, {c \in Range(ids) : Active(type, c)}, page, PageSize)

(* Mutant: the filter is forgotten on the first page. *)
get_campaignsFiltersLater(filter, page, limit) ==
    Paged(index, {e \in Range(index) : page = 0 \/ Matches(e.campaign_type, filter)},
          page, limit)

get_campaigns(filter, page, limit) ==
    Paged(index, {e \in Range(index) : Matches(e.campaign_type, filter)}, page, limit)

-----------------------------------------------------------------------------
Types == CampaignTypes \cup {None}

(* The entries of a list that the filter keeps, in their order.            *)
Filtered(list, kept) ==
    LET upTo[i \in 0 .. Len(list)] ==
            IF i = 0 THEN <<>>
            ELSE IF list[i] \in kept THEN Append(upTo[i - 1], list[i]) ELSE upTo[i - 1]
    IN  upTo[Len(list)]

(* The pages of a list, one after the other, for as long as the product    *)
(* of page and limit fits a u32.                                           *)
Concatenated(Read(_), limit) ==
    FlattenSeq([n \in 1 .. (U32Max \div limit) + 1 |-> Read(n - 1)])

(* No page is longer than asked for, and none but the last is shorter.     *)
Filled(Read(_), limit) ==
    \A n \in 0 .. (U32Max \div limit) - 1 :
        /\ Len(Read(n)) <= limit
        /\ Read(n + 1) # <<>> => Len(Read(n)) = limit

(* campaign_manager lib.rs:274-318, "Paginated listing of Active           *)
(* campaigns".  Whoever reads page after page sees every active campaign   *)
(* of the type once, in order of creation, whatever was paused, drained or *)
(* created before; only the first U32Max are within reach.                 *)
ActivePagesListAll ==
    \A type \in Types :
        LET all == Filtered(ids, {c \in Range(ids) : Active(type, c)})
            Read(n) == list_active_campaigns(type, n) IN
        /\ IsPrefix(Concatenated(Read, PageSize), all)
        /\ Len(all) <= U32Max => Concatenated(Read, PageSize) = all
        /\ Filled(Read, PageSize)

(* registry lib.rs:151-190, "Return a paginated slice of the campaign      *)
(* index".  For every page size the pages give the entries of a type once  *)
(* each, in the order in which they were indexed, direct calls included.   *)
IndexPagesListAll ==
    \A type \in Types, limit \in 1 .. MaxIndex :
        LET all == Filtered(index, {e \in Range(index) : Matches(e.campaign_type, type)})
            Read(n) == get_campaigns(type, n, limit) IN
        /\ IsPrefix(Concatenated(Read, limit), all)
        /\ Len(all) <= U32Max => Concatenated(Read, limit) = all
        /\ Filled(Read, limit)
=============================================================================
