----------------------------- MODULE ProductPages -----------------------------
(***************************************************************************)
(* Query.products, and a client that follows its cursors while the         *)
(* catalogue is written, reset and restarted under it.                     *)
(***************************************************************************)
EXTENDS CatalogueReads

CONSTANTS
    Filters,    \* the product ids an argument category lets through, or its absence
    PageSizes,  \* the values of first the client asks with
    NoCursor    \* the argument after left out, or empty

ASSUME PagesAssumption ==
    /\ \A filter \in Filters : filter \subseteq ProductIds
    /\ PageSizes \subseteq Nat \ {0}
    /\ NoCursor \notin ProductIds

VARIABLE client  \* filter and first of its request, the next after, what it was shown

pageVars == <<catalogue, reply, client>>

InOrder(ids) ==
    CHOOSE list \in SetToSeqs(ids) :
        \A i, j \in DOMAIN list : i < j => Place(list[i]) < Place(list[j])

\* The store's answer: the rows that pass the filter, in the order of the seed.
Products(filter) == InOrder(DOMAIN catalogue.products \cap filter)

Holds(list, id) == \E i \in DOMAIN list : list[i] = id

FindIndex(list, id) ==
    IF Holds(list, id) THEN (CHOOSE i \in DOMAIN list : list[i] = id) - 1 ELSE -1

\* Mutant: a page begins with the product its cursor names.
StartAt(list, after) == IF after = NoCursor THEN 0 ELSE FindIndex(list, after)

Start(list, after) == IF after = NoCursor THEN 0 ELSE FindIndex(list, after) + 1

Page(list, first, after) == Slice(list, Start(list, after), Start(list, after) + first)

PagesInit ==
    /\ Init
    /\ client = [filter |-> {}, first |-> 1, after |-> NoCursor, shown |-> << >>, over |-> TRUE]

\* A client begins a list: without a cursor, or with one the list does not
\* hold, of another category's product or of none.
Open(filter, first, after) ==
    /\ ~Holds(Products(filter), after)
    /\ client' = [filter |-> filter, first |-> first, after |-> after,
                  shown |-> << >>, over |-> FALSE]
    /\ UNCHANGED <<catalogue, reply>>

\* It asks for the page behind what it was shown last; an empty one is the end.
Turn ==
    LET page == Page(Products(client.filter), client.first, client.after) IN
    /\ ~client.over
    /\ client' = IF page = << >> THEN [client EXCEPT !.over = TRUE]
                 ELSE [client EXCEPT !.after = Last(page), !.shown = @ \o page]
    /\ UNCHANGED <<catalogue, reply>>

PagesNext ==
    \/ Next /\ UNCHANGED client
    \/ \E filter \in Filters, first \in PageSizes, after \in ProductIds \cup {NoCursor} :
          Open(filter, first, after)
    \/ Turn

PagesSpec == PagesInit /\ [][PagesNext]_pageVars

-----------------------------------------------------------------------------
\* Query.products has no state of its own but the client's cursor.  Whatever is
\* written, reset or restarted between two pages, following the cursor of each
\* page's last product shows every product of the list once and in order, and
\* ends when all were shown and not before, whatever the size of the pages; a
\* cursor the list does not hold begins it, as no cursor does.
PagesShowAllOnce ==
    /\ IsPrefix(client.shown, Products(client.filter))
    /\ client.over => client.shown = Products(client.filter)
=============================================================================
