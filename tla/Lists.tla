------------------------------- MODULE Lists -------------------------------
(***************************************************************************)
(* GET /requests: the pages of a list, walked with the cursor of the last  *)
(* page while requests come in and change underneath.                      *)
(*                                                                         *)
(* A request is its id; what the list asks of it (filters, access level,   *)
(* ownership) is whether it matches, and that may change at any time.  Its *)
(* created_at is the start of the transaction that inserted it, so it may  *)
(* appear behind requests that are newer.                                  *)
(***************************************************************************)
EXTENDS Integers, Sequences, FiniteSets, SequencesExt

CONSTANTS
    Ids,        \* ids of requests, as numbers: they break the ties
    Times,      \* values of created_at
    PageLimit   \* limit of the query, from 1 to _MAX_PAGE_LIMIT

ListsAssumption == Ids \subseteq Int /\ Times \subseteq Int /\ PageLimit \in Nat \ {0}

VARIABLES
    table,    \* the rows committed so far: id -> created_at and whether it matches
    cursor,   \* next_cursor of the last page; {} for the first page and after the last
    pages,    \* the pages read in this walk: the requests in their order
    over,     \* whether the last page had no next_cursor
    steady,   \* history: requests that have matched since the walk began
    met       \* history: requests that have matched at any time since

vars == <<table, cursor, pages, over, steady, met>>

\* (created_at, id) in descending order.
Newer(a, b) == a.at > b.at \/ (a.at = b.at /\ a.id > b.id)

Matching(t) == {i \in DOMAIN t : t[i].matches}

Init ==
    /\ table = <<>> /\ cursor = {} /\ pages = <<>> /\ over = FALSE
    /\ steady = {} /\ met = {}

Key(i) == [at |-> table[i].at, id |-> i]

\* Mutant: the cursor is the instant alone.
Behind_instant(i) == \A c \in cursor : table[i].at < c.at

\* The condition of list_visible on the cursor.
Behind(i) == \A c \in cursor : Newer(c, Key(i))

\* ORDER BY created_at DESC, id DESC.
Ordered(rows) ==
    CHOOSE s \in SetToSeqs(rows) : \A m, n \in DOMAIN s : m < n => Newer(s[m], s[n])

\* RequestRepository.list_visible: up to limit + 1 rows.
ListVisible ==
    LET rows == Ordered({Key(i) : i \in {j \in Matching(table) : Behind(j)}})
    IN  SubSeq(rows, 1, IF Len(rows) > PageLimit THEN PageLimit + 1 ELSE Len(rows))

\* RequestService.list_requests: the next page, and the cursor of its last row when
\* there was one row more.
NextPage ==
    /\ ~over
    /\ LET rows  == ListVisible
           items == SubSeq(rows, 1, IF Len(rows) > PageLimit THEN PageLimit ELSE Len(rows))
       IN  /\ pages' = pages \o items
           /\ cursor' = IF Len(rows) > PageLimit THEN {items[Len(items)]} ELSE {}
           /\ over' = (Len(rows) <= PageLimit)
    /\ UNCHANGED <<table, steady, met>>

\* The list is opened anew.
StartOver ==
    /\ over
    /\ cursor' = {} /\ pages' = <<>> /\ over' = FALSE
    /\ steady' = Matching(table) /\ met' = Matching(table)
    /\ UNCHANGED table

\* An intake commits.
Insert(i, at) ==
    /\ i \notin DOMAIN table
    /\ table' = [j \in DOMAIN table \cup {i} |->
                   IF j = i THEN [at |-> at, matches |-> TRUE] ELSE table[j]]
    /\ met' = met \cup {i}
    /\ UNCHANGED <<cursor, pages, over, steady>>

\* A request enters or leaves what the list asks for: its status, category or partner
\* is written; created_at never is.
Change(i) ==
    /\ i \in DOMAIN table
    /\ table' = [table EXCEPT ![i].matches = ~@]
    /\ steady' = steady \ {i} /\ met' = met \cup {i}
    /\ UNCHANGED <<cursor, pages, over>>

Next ==
    \/ NextPage \/ StartOver
    \/ \E i \in Ids : Change(i) \/ \E at \in Times : Insert(i, at)

Spec == Init /\ [][Next]_vars
----------------------------------------------------------------------------
TypeOK ==
    /\ DOMAIN table \subseteq Ids /\ table \in [DOMAIN table -> [at : Times, matches : BOOLEAN]]
    /\ cursor = {} \/ \E at \in Times, i \in Ids : cursor = {[at |-> at, id |-> i]}
    /\ pages \in Seq([at : Times, id : Ids])
    /\ over \in BOOLEAN /\ steady \subseteq met /\ met \subseteq Ids

\* Pages read while requests come in, late ones among them, and enter and leave the
\* list: a walk shows a request at most once and in the order of the list, shows
\* every one that matched all the time, and none that never did.
PagesSound ==
    LET shown == {pages[n].id : n \in DOMAIN pages}
    IN  /\ \A m, n \in DOMAIN pages : m < n => Newer(pages[m], pages[n])
        /\ over => steady \subseteq shown
        /\ shown \subseteq met
============================================================================
