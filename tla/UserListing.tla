----------------------------- MODULE UserListing -----------------------------
(***************************************************************************)
(* GetAll of internal/usecase/user_usecase.go beside the handlers of       *)
(* Users: a list is a COUNT and a page, two statements outside any         *)
(* transaction; a search asks the index for ids and then PostgreSQL for    *)
(* the rows.  The writers of Users go on in between, and a search sees     *)
(* their documents only after the index has been refreshed.                *)
(***************************************************************************)
EXTENDS Users, Integers

CONSTANTS
    Listers,      \* requests of GET /users in flight
    Queries,      \* what they may ask for
    DefaultSize,  \* defaultPageSize
    MaxSize,      \* maxPageSize
    IntLimit,     \* integers are in -IntLimit .. IntLimit - 1
    ResultWindow  \* Elasticsearch's max_result_window

(***************************************************************************)
(* A keyword (matched against names) makes it a search.  The filter on the *)
(* role stands for all columns, that on deleted rows for the dates too.    *)
(***************************************************************************)
Query == [keyword : Names \cup {Nil}, role : Roles \cup {Nil}, deleted : BOOLEAN,
          page : Int, size : Int]

ASSUME ListingAssumption ==
    /\ Queries \subseteq Query
    /\ DefaultSize \in Nat \ {0}
    /\ MaxSize \in Nat \ {0}
    /\ IntLimit \in Nat \ {0}
    /\ ResultWindow \in Nat
    /\ IsFiniteSet(Ids)

VARIABLES
    query,       \* what each lister asks for
    lpc,         \* how far it has got
    total,       \* total_items of its answer
    hits,        \* ids that a search has found
    shown,       \* the rows of its answer, by id
    searchable,  \* the documents as of the index's last refresh
    still        \* history: the table has not changed since the lister's first statement

own == <<query, lpc, total, hits, shown, still>>
listing == <<own, searchable>>

(***************************************************************************)
(* Pagination.                                                             *)
(***************************************************************************)
Page(q) == IF q.page < 1 THEN 1 ELSE q.page

Size(q) == IF q.size < 1 THEN DefaultSize ELSE IF q.size > MaxSize THEN MaxSize ELSE q.size

Wrap(n) == ((n + IntLimit) % (2 * IntLimit)) - IntLimit

Offset(q) == Wrap((Page(q) - 1) * Size(q))

TotalPages(q, n) == (n + Size(q) - 1) \div Size(q)

\* How many of n rows are on the page; gorm leaves out an offset below one.
OnPage(q, n) ==
    LET rest == IF Offset(q) > 0 THEN n - Offset(q) ELSE n
    IN  IF rest < 0 THEN 0 ELSE IF rest > Size(q) THEN Size(q) ELSE rest

\* The pages that may be cut out of a set: the order is not modelled.
PagesOf(S, q) == {P \in SUBSET S : Cardinality(P) = OnPage(q, Cardinality(S))}

-----------------------------------------------------------------------------
LInit ==
    /\ Init
    /\ query \in [Listers -> Queries]
    /\ lpc = [l \in Listers |-> "received"]
    /\ total = [l \in Listers |-> 0]
    /\ hits = [l \in Listers |-> {}]
    /\ shown = [l \in Listers |-> [i \in {} |-> NoRow]]
    /\ searchable = es
    /\ still = [l \in Listers |-> TRUE]

LGoto(l, s) == lpc' = [lpc EXCEPT ![l] = s]

Show(l, P) == shown' = [shown EXCEPT ![l] = [i \in P |-> db[i]]] /\ LGoto(l, "done")

ExtraConditions(x, q) == q.role # Nil => x.role = q.role

\* Mutant: the count forgets about soft-deleted rows.
EntityConditionsAll(x, q) == x # NoRow /\ ExtraConditions(x, q)

\* The conditions of the count.
EntityConditions(x, q) == x # NoRow /\ (q.deleted \/ Active(x)) /\ ExtraConditions(x, q)

\* The conditions of the page.
BaseFilter(x, q) == x # NoRow /\ (q.deleted \/ Active(x))

Count(l) ==
    /\ lpc[l] = "received" /\ query[l].keyword = Nil
    /\ ConnFree
    /\ total' = [total EXCEPT ![l] = Cardinality({i \in Ids : EntityConditions(db[i], query[l])})]
    /\ LGoto(l, "counted")
    /\ still' = [still EXCEPT ![l] = TRUE]
    /\ UNCHANGED <<query, hits, shown, searchable>>

FindPage(l) ==
    /\ lpc[l] = "counted"
    /\ ConnFree
    /\ \E P \in PagesOf({i \in Ids : BaseFilter(db[i], query[l]) /\ ExtraConditions(db[i], query[l])}, query[l]) :
          Show(l, P)
    /\ UNCHANGED <<query, total, hits, searchable, still>>

Found(q) == {i \in Ids : searchable[i] # NoRow /\ searchable[i].name = q.keyword}

\* Elasticsearch refuses a negative "from" and a page beyond its window.
Searchable(q) == Offset(q) >= 0 /\ Offset(q) + Size(q) <= ResultWindow

\* The other filters are ignored; a page without hits has total_items 0.
Search(l) ==
    /\ lpc[l] = "received" /\ query[l].keyword # Nil
    /\ Searchable(query[l])
    /\ \E P \in PagesOf(Found(query[l]), query[l]) :
          /\ hits' = [hits EXCEPT ![l] = P]
          /\ total' = [total EXCEPT ![l] = IF P = {} THEN 0 ELSE Cardinality(Found(query[l]))]
          /\ LGoto(l, IF P = {} THEN "done" ELSE "found")
    /\ UNCHANGED <<query, shown, searchable, still>>

\* Mutant: the rows are looked up without "deleted_at IS NULL".
FindAnyByIDs(l) ==
    /\ lpc[l] = "found"
    /\ ConnFree
    /\ Show(l, {i \in hits[l] : db[i] # NoRow})
    /\ UNCHANGED <<query, total, hits, searchable, still>>

FindByIDs(l) ==
    /\ lpc[l] = "found"
    /\ ConnFree
    /\ Show(l, {i \in hits[l] : Active(db[i])})
    /\ UNCHANGED <<query, total, hits, searchable, still>>

\* The statements of a list, and of a search.
AtStatement(l) == lpc[l] \in {"counted", "found"} \/ (lpc[l] = "received" /\ query[l].keyword = Nil)

AtSearch(l) == lpc[l] = "received" /\ query[l].keyword # Nil

ListFails(l) ==
    /\ \/ "db" \in Faults /\ AtStatement(l)
       \/ "es" \in Faults /\ AtSearch(l)
       \/ AtSearch(l) /\ ~Searchable(query[l])
    /\ LGoto(l, "failed")
    /\ UNCHANGED <<query, total, hits, shown, searchable, still>>

\* Elasticsearch makes changes searchable once a second.
Refresh ==
    /\ searchable # es
    /\ searchable' = es
    /\ UNCHANGED own

List(l) == Count(l) \/ FindPage(l) \/ Search(l) \/ FindByIDs(l)

Listed(l) == lpc[l] \in {"done", "failed"}

ListingVars == <<vars, listing>>

\* A step of Users; the listers see nothing of it until they read.
Other ==
    /\ Next
    /\ still' = [l \in Listers |-> still[l] /\ (Listed(l) \/ db' = db)]
    /\ UNCHANGED <<query, lpc, total, hits, shown, searchable>>

LNext ==
    \/ Other
    \/ \E l \in Listers : (List(l) \/ ListFails(l)) /\ UNCHANGED vars
    \/ Refresh /\ UNCHANGED vars

LSpec == LInit /\ [][LNext]_ListingVars

\* No property needs a list to be answered.
LFairSpec == LSpec /\ Fairness

-----------------------------------------------------------------------------
(***************************************************************************)
(* Properties.                                                             *)
(***************************************************************************)

\* Every variable of the listers has its type.
ListingTypeOK ==
    /\ query \in [Listers -> Queries]
    /\ lpc \in [Listers -> {"received", "counted", "found", "done", "failed"}]
    /\ total \in [Listers -> Nat]
    /\ hits \in [Listers -> SUBSET Ids]
    /\ shown \in [Listers -> UNION {[P -> Row] : P \in SUBSET Ids}]
    /\ searchable \in [Ids -> Row \cup {NoRow}]
    /\ still \in [Listers -> BOOLEAN]

\* Whatever the writers do between the two reads of a list or a search, and
\* however old the index is, an answer shows versions that were committed and
\* that the caller asked for, deleted ones only on demand.
ListedAreWanted ==
    \A l \in Listers : \A i \in DOMAIN shown[l] :
        /\ shown[l][i] \in versions[i]
        /\ Active(shown[l][i]) \/ (query[l].keyword = Nil /\ query[l].deleted)
        /\ query[l].keyword = Nil => ExtraConditions(shown[l][i], query[l])

\* Does the offset of the page fit an integer?
InRange(q) == (Page(q) - 1) * Size(q) < IntLimit

\* The rows a client expects of its page: full pages before the last.
Expected(q, n) ==
    CASE Page(q) < TotalPages(q, n) -> Size(q)
      [] Page(q) = TotalPages(q, n) -> n - (Page(q) - 1) * Size(q)
      [] OTHER -> 0

\* A list shows as many rows as total_items and total_pages promise of that
\* page, unless the table changed between the two statements or the offset
\* overflowed; a search shows at most its total and its page.
TotalsAgree ==
    \A l \in Listers : lpc[l] = "done" =>
        LET n == Cardinality(DOMAIN shown[l]) IN
        IF query[l].keyword = Nil
        THEN still[l] /\ InRange(query[l]) => n = Expected(query[l], total[l])
        ELSE n <= total[l] /\ n <= Size(query[l])
=============================================================================
