-------------------------- MODULE UserListingProofs --------------------------
(***************************************************************************)
(* Proofs about UserListing for every table, query, page size, integer     *)
(* width and set of faults.  The listers read the stores and never write   *)
(* them, so LSpec implements Spec and the invariant of UsersProofs holds   *)
(* of it: every row of the table is in the history.                        *)
(***************************************************************************)
EXTENDS UserListing, UsersProofs, FiniteSetTheorems

\* What is counted, and what the page is cut from.
Counted(q) == {i \in Ids : EntityConditions(db[i], q)}

\* Between the two statements the count is that of the table, unless it has
\* changed; the hits of a search are within its total and its page.
Progress ==
    \A l \in Listers :
        /\ lpc[l] = "counted" =>
              query[l].keyword = Nil /\ (still[l] => total[l] = Cardinality(Counted(query[l])))
        /\ lpc[l] = "found" =>
              /\ query[l].keyword # Nil
              /\ Cardinality(hits[l]) <= total[l]
              /\ Cardinality(hits[l]) <= Size(query[l])

\* Nothing is shown before the last statement.
Untouched == \A l \in Listers : lpc[l] \in {"received", "counted", "found"} => DOMAIN shown[l] = {}

LInv == ListingTypeOK /\ ListedAreWanted /\ Progress /\ Untouched /\ TotalsAgree

-----------------------------------------------------------------------------
(***************************************************************************)
(* Pagination.                                                             *)
(***************************************************************************)

\* Pages and their sizes are positive, and the table's subsets are finite.
LEMMA PageFacts ==
    ASSUME NEW q \in Query
    PROVE  Page(q) \in Nat /\ Page(q) >= 1 /\ Size(q) \in Nat /\ Size(q) >= 1
<1>1. q.page \in Int /\ q.size \in Int
  BY DEF Query
<1>2. QED
  BY <1>1, ListingAssumption DEF Page, Size

\* A product of naturals is a natural and grows with its first factor.
LEMMA Product ==
    ASSUME NEW a \in Nat, NEW b \in Nat, NEW s \in Nat, a <= b
    PROVE  a * s \in Nat /\ b * s \in Nat /\ a * s <= b * s
  BY SMTT(30)

\* An offset that fits does not wrap.
LEMMA WrapFits ==
    ASSUME NEW k \in Nat, k < IntLimit
    PROVE  Wrap(k) = k
<1>1. IntLimit \in Nat /\ IntLimit > 0
  BY ListingAssumption
<1>2. k + IntLimit < 2 * IntLimit /\ k + IntLimit >= 0
  BY <1>1
<1>3. (k + IntLimit) % (2 * IntLimit) = k + IntLimit
  BY <1>1, <1>2, SMTT(30)
<1>4. QED
  BY <1>1, <1>3 DEF Wrap

\* Ceiling division brackets the number of rows.
LEMMA Ceiling ==
    ASSUME NEW q \in Query, NEW n \in Nat
    PROVE  /\ TotalPages(q, n) \in Nat
           /\ TotalPages(q, n) * Size(q) <= n + Size(q) - 1
           /\ n <= TotalPages(q, n) * Size(q)
<1>1. Size(q) \in Nat /\ Size(q) >= 1
  BY PageFacts
<1>2. PICK s \in Nat : s = Size(q) /\ s >= 1
  BY <1>1
<1>3. (n + s - 1) \div s \in Nat /\ ((n + s - 1) \div s) * s <= n + s - 1
      /\ n + s - 1 < ((n + s - 1) \div s) * s + s
  BY <1>2, SMTT(30)
<1>4. QED
  BY <1>2, <1>3 DEF TotalPages

\* The page gorm asks for is the one the metadata promises.
LEMMA PagePromised ==
    ASSUME NEW q \in Query, NEW n \in Nat, InRange(q)
    PROVE  OnPage(q, n) = Expected(q, n)
<1> DEFINE p == Page(q)
           s == Size(q)
           t == TotalPages(q, n)
           k == (p - 1) * s
<1>1. p \in Nat /\ p >= 1 /\ s \in Nat /\ s >= 1
  BY PageFacts
<1>2. t \in Nat /\ t * s <= n + s - 1 /\ n <= t * s
  BY Ceiling
<1>3. p - 1 \in Nat
  BY <1>1
<1>4. k \in Nat /\ k + s = p * s
  <2>1. PICK m \in Nat : m = p - 1
    BY <1>3
  <2>2. m * s \in Nat
    BY <2>1, <1>1, Product
  <2>3. (m + 1) * s = m * s + s
    BY <2>1, <1>1, SMTT(30)
  <2>4. QED
    BY <2>1, <2>2, <2>3, <1>1
<1>5. Offset(q) = k
  BY <1>4, WrapFits DEF InRange, Offset
<1>6. OnPage(q, n) = IF n - k < 0 THEN 0 ELSE IF n - k > s THEN s ELSE n - k
  <2>1. OnPage(q, n) = LET rest == IF k > 0 THEN n - k ELSE n
                       IN  IF rest < 0 THEN 0 ELSE IF rest > s THEN s ELSE rest
    BY <1>5 DEF OnPage
  <2>2. (IF k > 0 THEN n - k ELSE n) = n - k
    BY <1>4
  <2>3. QED
    BY <2>1, <2>2
<1> HIDE DEF k
<1>7. CASE p < t
  <2>1. (p + 1) * s <= t * s
    BY <1>1, <1>2, <1>7, Product
  <2>2. (p + 1) * s = p * s + s
    BY <1>1, SMTT(30)
  <2>3. k + s + s <= n + s - 1
    BY <2>1, <2>2, <1>1, <1>2, <1>4
  <2>4. OnPage(q, n) = s
    BY <2>3, <1>1, <1>4, <1>6
  <2>5. QED
    BY <2>4, <1>1, <1>2, <1>7 DEF Expected
<1>8. CASE p = t
  <2>1. k + s <= n + s - 1 /\ n <= k + s
    BY <1>1, <1>2, <1>4, <1>8
  <2>2. OnPage(q, n) = n - k
    BY <2>1, <1>1, <1>4, <1>6
  <2>3. QED
    BY <2>2, <1>1, <1>2, <1>8 DEF Expected, k
<1>9. CASE p > t
  <2>1. t * s <= (p - 1) * s
    BY <1>1, <1>2, <1>3, <1>9, Product
  <2>2. n <= k
    BY <2>1, <1>1, <1>2, <1>4 DEF k
  <2>3. OnPage(q, n) = 0
    BY <2>2, <1>1, <1>4, <1>6
  <2>4. QED
    BY <2>3, <1>1, <1>2, <1>9 DEF Expected
<1>10. QED
  BY <1>1, <1>2, <1>7, <1>8, <1>9

\* The same query for another page.
At(q, p) == [q EXCEPT !.page = p]

\* The rows, by their position in the table's order, that page p shows.
Shows(q, n, p, k) == Offset(At(q, p)) < k /\ k <= Offset(At(q, p)) + OnPage(At(q, p), n)

\* Where a page begins and ends, for the pages whose offset fits.
LEMMA PageBounds ==
    ASSUME NEW q \in Query, NEW n \in Nat, NEW m \in Nat,
           m < TotalPages(q, n), TotalPages(q, n) * Size(q) <= IntLimit
    PROVE  /\ Offset(At(q, m + 1)) = m * Size(q)
           /\ OnPage(At(q, m + 1), n) =
                 IF m + 1 < TotalPages(q, n) THEN Size(q) ELSE n - m * Size(q)
           /\ OnPage(At(q, m + 1), n) <= Size(q)
<1> DEFINE r == At(q, m + 1)
           s == Size(q)
           t == TotalPages(q, n)
<1>1. r \in Query /\ Page(r) = m + 1 /\ Size(r) = s /\ TotalPages(r, n) = t
  BY DEF At, Query, Page, Size, TotalPages
<1>2. s \in Nat /\ s >= 1 /\ t \in Nat /\ t * s <= n + s - 1 /\ n <= t * s
  BY PageFacts, Ceiling
<1>3. m * s \in Nat /\ (m + 1) * s = m * s + s /\ (m + 1) * s <= t * s
  <2>1. (m + 1) * s = m * s + s
    BY <1>2, SMTT(30)
  <2>2. QED
    BY <2>1, <1>2, Product
<1>4. m * s < IntLimit
  BY <1>2, <1>3, ListingAssumption
<1> HIDE DEF r, s, t
<1>5. (Page(r) - 1) * Size(r) = m * s
  <2>1. Page(r) - 1 = m
    BY <1>1
  <2>2. QED
    BY <1>1, <2>1
<1>6. InRange(r) /\ Offset(r) = m * s
  BY <1>3, <1>4, <1>5, WrapFits DEF InRange, Offset
<1>7. OnPage(r, n) = Expected(r, n)
  BY <1>1, <1>6, PagePromised
<1>8. Expected(r, n) = IF m + 1 < t THEN s ELSE n - m * s
  <2>1. CASE m + 1 < t
    BY <1>1, <2>1 DEF Expected
  <2>2. CASE ~(m + 1 < t)
    <3>1. m + 1 = t
      BY <1>2, <2>2 DEF t
    <3>2. ~(Page(r) < TotalPages(r, n)) /\ Page(r) = TotalPages(r, n)
      BY <1>1, <1>2, <3>1
    <3>3. QED
      BY <1>1, <1>5, <2>2, <3>2 DEF Expected
  <2>3. QED
    BY <2>1, <2>2
<1>9. n - m * s <= s \/ m + 1 < t
  <2>1. CASE m + 1 = t
    BY <1>2, <1>3, <2>1
  <2>2. QED
    BY <1>2, <2>1 DEF t
<1>10. QED
  BY <1>2, <1>3, <1>6, <1>7, <1>8, <1>9 DEF r, s, t

\* The pages up to total_pages partition the table: every row is on one of them
\* and on no other, whatever the page size, as long as the offsets fit.
THEOREM PagesPartition ==
    ASSUME NEW q \in Query, NEW n \in Nat, NEW k \in 1 .. n,
           TotalPages(q, n) * Size(q) <= IntLimit
    PROVE  \E p \in 1 .. TotalPages(q, n) :
              /\ Shows(q, n, p, k)
              /\ \A o \in 1 .. TotalPages(q, n) : Shows(q, n, o, k) => o = p
<1>1. PICK s \in Nat : s = Size(q) /\ s >= 1
  BY PageFacts
<1>2. PICK t \in Nat : t = TotalPages(q, n) /\ n <= t * s
  BY <1>1, Ceiling
<1>3. PICK m \in Nat : m * s <= k - 1 /\ k - 1 < m * s + s
  <2>1. k - 1 \in Nat
    OBVIOUS
  <2>2. PICK j \in Nat : j = k - 1
    BY <2>1
  <2>3. j \div s \in Nat /\ (j \div s) * s <= j /\ j < (j \div s) * s + s
    BY <1>1, SMTT(30)
  <2>4. QED
    BY <2>2, <2>3
<1>4. m < t
  <2>1. m * s \in Nat /\ (t <= m => t * s <= m * s /\ t * s \in Nat)
    BY <1>1, Product
  <2>2. QED
    BY <1>2, <1>3, <2>1
<1>5. m * s \in Nat
  BY <1>1, Product
<1>6. Shows(q, n, m + 1, k)
  <2>1. /\ Offset(At(q, m + 1)) = m * s
        /\ OnPage(At(q, m + 1), n) = IF m + 1 < t THEN s ELSE n - m * s
    BY <1>1, <1>2, <1>4, PageBounds
  <2>2. QED
    BY <1>1, <1>3, <1>5, <2>1 DEF Shows
<1>7. ASSUME NEW o \in 1 .. t, Shows(q, n, o, k)
      PROVE  o = m + 1
  <2>1. PICK i \in Nat : o = i + 1 /\ i < t
    BY <1>2
  <2>2. i * s < k /\ k <= i * s + s /\ i * s \in Nat
    <3>1. i * s \in Nat
      BY <1>1, Product
    <3>2. /\ Offset(At(q, i + 1)) = i * s
          /\ OnPage(At(q, i + 1), n) = (IF i + 1 < t THEN s ELSE n - i * s)
          /\ OnPage(At(q, i + 1), n) <= s
      BY <1>1, <1>2, <2>1, PageBounds
    <3>3. OnPage(At(q, i + 1), n) \in Int
      BY <1>1, <3>1, <3>2
    <3>4. QED
      BY <1>1, <1>7, <2>1, <3>1, <3>2, <3>3 DEF Shows
  <2>3. ~(i < m)
    <3>1. i < m => (i + 1) * s <= m * s
      BY <1>1, Product
    <3>2. (i + 1) * s = i * s + s
      BY <1>1, SMTT(30)
    <3>3. QED
      BY <1>1, <1>3, <1>5, <2>2, <3>1, <3>2
  <2>4. ~(m < i)
    <3>1. m < i => (m + 1) * s <= i * s
      BY <1>1, Product
    <3>2. (m + 1) * s = m * s + s
      BY <1>1, SMTT(30)
    <3>3. QED
      BY <1>1, <1>3, <1>5, <2>2, <3>1, <3>2
  <2>5. QED
    BY <2>1, <2>3, <2>4
<1>8. m + 1 \in 1 .. TotalPages(q, n)
  BY <1>2, <1>4
<1>9. QED
  BY <1>2, <1>6, <1>7, <1>8

-----------------------------------------------------------------------------
(***************************************************************************)
(* The listers do not disturb the directory.                               *)
(***************************************************************************)

\* Without the listers' variables, every step is one of Users or a stutter.
LEMMA Underlying == LSpec => Spec
<1>1. LInit => Init
  BY DEF LInit
<1>2. [LNext]_ListingVars => [Next]_vars
  BY DEF LNext, Other, ListingVars
<1>3. QED
  BY <1>1, <1>2, PTL DEF LSpec, Spec

\* With listers beside them the handlers still implement the directory, and
\* what is proved of them alone holds of both together.
THEOREM ListersAreHarmless ==
    LSpec => ImplementsDirectory /\ []SomeoneProceeds /\ []StaleOnlyIfOvertaken
  BY Underlying, Refinement, NoDeadlock, StaleForAReason, PTL

\* What a lister may show is in the history, and stays there.
LEMMA VersionsGrow ==
    TypeOK /\ [Next]_vars => \A i \in Ids : versions[i] \subseteq versions'[i]
<1> SUFFICES ASSUME TypeOK, [Next]_vars
             PROVE  \A i \in Ids : versions[i] \subseteq versions'[i]
  OBVIOUS
<1>1. ASSUME NEW r \in Requests, StoreRow(r)
      PROVE  \A i \in Ids : versions[i] \subseteq versions'[i]
  BY <1>1 DEF StoreRow, TypeOK
<1>2. ASSUME NEW r \in Requests, Write(r) \/ Read(r) \/ LogAsync(r) \/ Fault(r)
      PROVE  UNCHANGED versions \/ StoreRow(r)
  BY <1>2 DEF Write, Read, Fault, Exists, Begin, Create, FindByID, Save, SoftDelete, SyncES, Commit,
     Invalidate, LogAsync, CacheGet, CacheLoad, CacheSet, StatementFails, CommitReplyLost,
     SyncFails, Crash, stores
<1>3. ASSUME NEW i \in Ids, Expire(i)
      PROVE  UNCHANGED versions
  BY <1>3 DEF Expire
<1>4. QED
  BY <1>1, <1>2, <1>3 DEF Next, Terminated, vars

\* A set of rows cut from the table is finite, and as large as its page.
LEMMA CutFacts ==
    ASSUME NEW S \in SUBSET Ids, NEW q \in Query, NEW P \in PagesOf(S, q)
    PROVE  /\ P \subseteq S
           /\ Cardinality(S) \in Nat
           /\ Cardinality(P) \in Nat
           /\ Cardinality(P) = OnPage(q, Cardinality(S))
           /\ Cardinality(P) <= Cardinality(S)
           /\ Cardinality(P) <= Size(q)
<1>1. P \subseteq S /\ Cardinality(P) = OnPage(q, Cardinality(S))
  BY DEF PagesOf
<1>2. IsFiniteSet(S)
  BY ListingAssumption, FS_Subset
<1>3. Cardinality(S) \in Nat /\ Cardinality(P) \in Nat /\ Cardinality(P) <= Cardinality(S)
  BY <1>1, <1>2, FS_Subset, FS_CardinalityType
<1>4. Size(q) \in Nat
  BY PageFacts
<1>5. Offset(q) \in Int
  <2>1. Page(q) \in Nat
    BY PageFacts
  <2>2. (Page(q) - 1) * Size(q) \in Int
    BY <1>4, <2>1, SMTT(30)
  <2>3. IntLimit \in Nat /\ 2 * IntLimit \in Nat /\ 2 * IntLimit > 0
    BY ListingAssumption
  <2>4. \A k \in Int : k % (2 * IntLimit) \in Int
    BY <2>3
  <2>5. QED
    BY <2>2, <2>3, <2>4 DEF Offset, Wrap
<1>6. OnPage(q, Cardinality(S)) <= Size(q)
  <2>1. \A x \in Int : (IF x < 0 THEN 0 ELSE IF x > Size(q) THEN Size(q) ELSE x) <= Size(q)
    BY <1>4
  <2>2. (IF Offset(q) > 0 THEN Cardinality(S) - Offset(q) ELSE Cardinality(S)) \in Int
    BY <1>3, <1>5
  <2>3. QED
    BY <2>1, <2>2 DEF OnPage
<1>7. QED
  BY <1>1, <1>3, <1>6

-----------------------------------------------------------------------------
(***************************************************************************)
(* The invariant.                                                          *)
(***************************************************************************)

\* A lister's query is one of Query.
LEMMA QueryFacts == ListingTypeOK => \A l \in Listers : query[l] \in Query
  BY ListingAssumption DEF ListingTypeOK

\* Both statements select the same rows.
LEMMA SameConditions ==
    \A q \in Query, i \in Ids :
        BaseFilter(db[i], q) /\ ExtraConditions(db[i], q) <=> EntityConditions(db[i], q)
  BY DEF BaseFilter, EntityConditions

LEMMA InitListing == LInit /\ TypeOK => LInv
<1> SUFFICES ASSUME LInit, TypeOK
             PROVE  LInv
  OBVIOUS
<1>1. \A l \in Listers : shown[l] = [i \in {} |-> NoRow] /\ DOMAIN shown[l] = {}
  BY DEF LInit
<1>2. [i \in {} |-> NoRow] \in UNION {[P -> Row] : P \in SUBSET Ids}
  <2>1. [i \in {} |-> NoRow] \in [{} -> Row]
    OBVIOUS
  <2>2. QED
    BY <2>1
<1>3. ListingTypeOK
  BY <1>2 DEF LInit, ListingTypeOK, TypeOK
<1>4. QED
  BY <1>1, <1>3 DEF LInit, LInv, ListedAreWanted, Progress, Untouched, TotalsAgree

LEMMA OtherListing == LInv /\ TypeOK /\ Other => LInv'
<1> SUFFICES ASSUME LInv, TypeOK, Other
             PROVE  LInv'
  OBVIOUS
<1>1. ListingTypeOK'
  BY DEF LInv, Other, ListingTypeOK
<1>2. ListedAreWanted'
  BY VersionsGrow DEF LInv, Other, ListingTypeOK, ListedAreWanted, ExtraConditions
<1>3. Progress'
  <2>1. ASSUME NEW l \in Listers, lpc[l] = "counted", still'[l]
        PROVE  still[l] /\ Counted(query[l])' = Counted(query[l])
    BY <2>1 DEF Other, Listed, LInv, ListingTypeOK, Counted, EntityConditions, ExtraConditions
  <2>2. QED
    BY <2>1 DEF LInv, Progress, Other
<1>4. TotalsAgree'
  <2>1. ASSUME NEW l \in Listers, lpc[l] = "done", still'[l]
        PROVE  still[l]
    BY <2>1 DEF Other, LInv, ListingTypeOK
  <2>2. QED
    BY <2>1 DEF LInv, TotalsAgree, Other
<1>5. Untouched'
  BY DEF LInv, Untouched, Other
<1>6. QED
  BY <1>1, <1>2, <1>3, <1>4, <1>5 DEF LInv

LEMMA CountListing ==
    ASSUME LInv, TypeOK, NEW l \in Listers, Count(l), UNCHANGED vars
    PROVE  LInv'
<1>1. Counted(query[l]) \subseteq Ids /\ Cardinality(Counted(query[l])) \in Nat
  BY ListingAssumption, FS_Subset, FS_CardinalityType DEF Counted
<1>2. /\ total' = [total EXCEPT ![l] = Cardinality(Counted(query[l]))]
      /\ lpc' = [lpc EXCEPT ![l] = "counted"]
      /\ still' = [still EXCEPT ![l] = TRUE]
      /\ UNCHANGED <<query, hits, shown, searchable, db, versions>>
  BY DEF Count, Counted, LGoto, vars
<1>3. ListingTypeOK'
  BY <1>1, <1>2 DEF LInv, ListingTypeOK
<1>4. ListedAreWanted'
  BY <1>2 DEF LInv, ListedAreWanted, ExtraConditions
<1>5. Progress'
  <2>1. \A q : Counted(q)' = Counted(q)
    BY <1>2 DEF Counted, EntityConditions, ExtraConditions
  <2>2. QED
    BY <1>2, <2>1 DEF LInv, ListingTypeOK, Progress, Count
<1>6. TotalsAgree'
  BY <1>2 DEF LInv, ListingTypeOK, TotalsAgree
<1>7. Untouched'
  BY <1>2 DEF LInv, ListingTypeOK, Untouched, Count
<1>8. QED
  BY <1>3, <1>4, <1>5, <1>6, <1>7 DEF LInv

\* Showing committed rows that were asked for, as many as the total promises.
LEMMA ShowListing ==
    ASSUME LInv, TypeOK, History, NEW l \in Listers, NEW P \in SUBSET Ids,
           \A i \in P : /\ db[i] \in Row
                        /\ Active(db[i]) \/ (query[l].keyword = Nil /\ query[l].deleted)
                        /\ query[l].keyword = Nil => ExtraConditions(db[i], query[l]),
           IF query[l].keyword = Nil
           THEN still[l] /\ InRange(query[l]) => Cardinality(P) = Expected(query[l], total[l])
           ELSE Cardinality(P) <= total[l] /\ Cardinality(P) <= Size(query[l]),
           Show(l, P), UNCHANGED <<query, total, hits, searchable, still, db, versions>>
    PROVE  LInv'
<1>1. /\ shown' = [shown EXCEPT ![l] = [i \in P |-> db[i]]]
      /\ lpc' = [lpc EXCEPT ![l] = "done"]
  BY DEF Show, LGoto
<1>2. [i \in P |-> db[i]] \in UNION {[Q -> Row] : Q \in SUBSET Ids}
  <2>1. [i \in P |-> db[i]] \in [P -> Row]
    OBVIOUS
  <2>2. QED
    BY <2>1
<1>3. /\ shown'[l] = [i \in P |-> db[i]]
      /\ lpc'[l] = "done"
      /\ \A k \in Listers \ {l} : shown'[k] = shown[k] /\ lpc'[k] = lpc[k]
  BY <1>1 DEF LInv, ListingTypeOK
<1>4. ListingTypeOK'
  BY <1>1, <1>2 DEF LInv, ListingTypeOK
<1>5. ListedAreWanted'
  <2>1. \A i \in P : db[i] \in versions[i]
    BY UsersAssumption DEF History
  <2>2. QED
    BY <1>3, <2>1 DEF LInv, ListedAreWanted, ExtraConditions
<1>6. Progress'
  <2>1. \A q : Counted(q)' = Counted(q)
    BY DEF Counted, EntityConditions, ExtraConditions
  <2>2. QED
    BY <1>3, <2>1 DEF LInv, Progress
<1>7. TotalsAgree'
  <2>1. DOMAIN shown'[l] = P
    BY <1>3
  <2>2. QED
    BY <1>3, <2>1 DEF LInv, TotalsAgree
<1>8. Untouched'
  BY <1>3 DEF LInv, Untouched
<1>9. QED
  BY <1>4, <1>5, <1>6, <1>7, <1>8 DEF LInv

LEMMA FindPageListing ==
    ASSUME LInv, TypeOK, History, NEW l \in Listers, FindPage(l), UNCHANGED vars
    PROVE  LInv'
<1>1. query[l] \in Query
  BY QueryFacts DEF LInv
<1>2. {i \in Ids : BaseFilter(db[i], query[l]) /\ ExtraConditions(db[i], query[l])} = Counted(query[l])
  BY <1>1, SameConditions DEF Counted
<1>3. PICK P \in PagesOf(Counted(query[l]), query[l]) : Show(l, P)
  BY <1>2 DEF FindPage
<1>4. Counted(query[l]) \in SUBSET Ids
  BY DEF Counted
<1>5. P \in SUBSET Ids /\ P \subseteq Counted(query[l])
  BY <1>1, <1>3, <1>4, CutFacts
<1>6. query[l].keyword = Nil
  BY DEF LInv, Progress, FindPage
<1>7. \A i \in P : /\ db[i] \in Row
                   /\ Active(db[i]) \/ (query[l].keyword = Nil /\ query[l].deleted)
                   /\ query[l].keyword = Nil => ExtraConditions(db[i], query[l])
  BY <1>5, <1>6 DEF Counted, EntityConditions, TypeOK
<1>8. still[l] /\ InRange(query[l]) => Cardinality(P) = Expected(query[l], total[l])
  <2>1. Cardinality(Counted(query[l])) \in Nat
    BY <1>1, <1>3, <1>4, CutFacts
  <2>2. Cardinality(P) = OnPage(query[l], Cardinality(Counted(query[l])))
    BY <1>1, <1>3, <1>4, CutFacts
  <2>3. still[l] => total[l] = Cardinality(Counted(query[l]))
    BY DEF LInv, Progress, FindPage
  <2>4. QED
    BY <1>1, <2>1, <2>2, <2>3, PagePromised
<1>9. UNCHANGED <<query, total, hits, searchable, still, db, versions>>
  BY DEF FindPage, vars
<1>10. QED
  BY <1>3, <1>5, <1>6, <1>7, <1>8, <1>9, ShowListing

LEMMA SearchListing ==
    ASSUME LInv, TypeOK, NEW l \in Listers, Search(l), UNCHANGED vars
    PROVE  LInv'
<1> DEFINE F == Found(query[l])
<1>1. query[l] \in Query
  BY QueryFacts DEF LInv
<1>2. F \in SUBSET Ids
  BY DEF Found
<1>3. PICK P \in PagesOf(F, query[l]) :
          /\ hits' = [hits EXCEPT ![l] = P]
          /\ total' = [total EXCEPT ![l] = IF P = {} THEN 0 ELSE Cardinality(F)]
          /\ lpc' = [lpc EXCEPT ![l] = IF P = {} THEN "done" ELSE "found"]
  BY DEF Search, LGoto
<1>4. P \subseteq Ids /\ Cardinality(F) \in Nat /\ Cardinality(P) <= Cardinality(F)
      /\ Cardinality(P) <= Size(query[l])
  BY <1>1, <1>2, <1>3, CutFacts
<1> HIDE DEF F
<1>5. UNCHANGED <<query, shown, searchable, still, db, versions>> /\ query[l].keyword # Nil
      /\ lpc[l] = "received"
  BY DEF Search, vars
<1>6. ListingTypeOK'
  BY <1>3, <1>4, <1>5 DEF LInv, ListingTypeOK
<1>7. ListedAreWanted'
  BY <1>5 DEF LInv, ListedAreWanted, ExtraConditions
<1>8. Progress'
  <2>1. \A q : Counted(q)' = Counted(q)
    BY <1>5 DEF Counted, EntityConditions, ExtraConditions
  <2>2. QED
    BY <1>3, <1>4, <1>5, <2>1 DEF LInv, ListingTypeOK, Progress
<1>9. TotalsAgree'
  <2>1. CASE P = {}
    <3>1. DOMAIN shown[l] = {} /\ Cardinality(DOMAIN shown[l]) = 0
      BY <1>5, FS_EmptySet DEF LInv, Untouched
    <3>2. Size(query[l]) \in Nat
      BY <1>1, PageFacts
    <3>3. total'[l] = 0 /\ Size(query[l])' = Size(query[l])
      BY <1>3, <1>5, <2>1 DEF LInv, ListingTypeOK, Size
    <3>4. \A k \in Listers \ {l} : lpc'[k] = lpc[k] /\ total'[k] = total[k]
      BY <1>3 DEF LInv, ListingTypeOK
    <3>5. 0 <= total'[l] /\ 0 <= Size(query[l])
      BY <3>2, <3>3
    <3>6. QED
      BY <1>5, <3>1, <3>3, <3>4, <3>5 DEF LInv, TotalsAgree
  <2>2. CASE P # {}
    BY <1>3, <1>5, <2>2 DEF LInv, ListingTypeOK, TotalsAgree
  <2>3. QED
    BY <2>1, <2>2
<1>10. Untouched'
  BY <1>3, <1>5 DEF LInv, ListingTypeOK, Untouched
<1>11. QED
  BY <1>6, <1>7, <1>8, <1>9, <1>10 DEF LInv

LEMMA FindByIDsListing ==
    ASSUME LInv, TypeOK, History, NEW l \in Listers, FindByIDs(l), UNCHANGED vars
    PROVE  LInv'
<1> DEFINE P == {i \in hits[l] : Active(db[i])}
<1>1. hits[l] \subseteq Ids /\ query[l].keyword # Nil
      /\ Cardinality(hits[l]) <= total[l] /\ Cardinality(hits[l]) <= Size(query[l])
  BY DEF LInv, ListingTypeOK, Progress, FindByIDs
<1>2. IsFiniteSet(hits[l])
  BY <1>1, ListingAssumption, FS_Subset
<1>3. Cardinality(P) \in Nat /\ Cardinality(hits[l]) \in Nat /\ Cardinality(P) <= Cardinality(hits[l])
  BY <1>2, FS_Subset, FS_CardinalityType
<1>4. Size(query[l]) \in Nat /\ total[l] \in Nat
  BY QueryFacts, PageFacts DEF LInv, ListingTypeOK
<1>5. Cardinality(P) <= total[l] /\ Cardinality(P) <= Size(query[l])
  BY <1>1, <1>3, <1>4
<1>6. \A i \in P : Active(db[i]) /\ db[i] \in Row
  BY <1>1 DEF TypeOK, Active
<1>7. Show(l, P) /\ UNCHANGED <<query, total, hits, searchable, still, db, versions>>
  BY DEF FindByIDs, vars
<1>8. QED
  BY <1>1, <1>5, <1>6, <1>7, ShowListing

LEMMA FailListing ==
    ASSUME LInv, NEW l \in Listers, ListFails(l), UNCHANGED vars
    PROVE  LInv'
<1>1. /\ lpc' = [lpc EXCEPT ![l] = "failed"]
      /\ UNCHANGED <<query, total, hits, shown, searchable, still, db, versions>>
  BY DEF ListFails, LGoto, vars
<1>2. \A q : Counted(q)' = Counted(q)
  BY <1>1 DEF Counted, EntityConditions, ExtraConditions
<1>3. ListingTypeOK' /\ ListedAreWanted'
  BY <1>1 DEF LInv, ListingTypeOK, ListedAreWanted, ExtraConditions
<1>4. Progress' /\ TotalsAgree'
  BY <1>1, <1>2 DEF LInv, ListingTypeOK, Progress, TotalsAgree
<1>5. Untouched'
  BY <1>1 DEF LInv, ListingTypeOK, Untouched
<1>6. QED
  BY <1>3, <1>4, <1>5 DEF LInv

\* A refresh of the index touches no lister.
LEMMA RefreshListing ==
    ASSUME LInv, TypeOK, Refresh, UNCHANGED vars
    PROVE  LInv'
<1>1. searchable' = es /\ UNCHANGED <<query, lpc, total, hits, shown, still, db, versions>>
  BY DEF Refresh, own, vars
<1>2. \A q : Counted(q)' = Counted(q)
  BY <1>1 DEF Counted, EntityConditions, ExtraConditions
<1>3. ListingTypeOK' /\ ListedAreWanted'
  BY <1>1 DEF LInv, ListingTypeOK, TypeOK, ListedAreWanted, ExtraConditions
<1>4. Progress' /\ Untouched' /\ TotalsAgree'
  BY <1>1, <1>2 DEF LInv, Progress, Untouched, TotalsAgree
<1>5. QED
  BY <1>3, <1>4 DEF LInv

LEMMA NextListing == LInv /\ TypeOK /\ History /\ [LNext]_ListingVars => LInv'
<1> SUFFICES ASSUME LInv, TypeOK, History, [LNext]_ListingVars
             PROVE  LInv'
  OBVIOUS
<1>1. CASE Other
  BY <1>1, OtherListing
<1>2. ASSUME NEW l \in Listers, List(l), UNCHANGED vars
      PROVE  LInv'
  BY <1>2, CountListing, FindPageListing, SearchListing, FindByIDsListing DEF List
<1>3. ASSUME NEW l \in Listers, ListFails(l), UNCHANGED vars
      PROVE  LInv'
  BY <1>3, FailListing
<1>4. CASE Refresh /\ UNCHANGED vars
  BY <1>4, RefreshListing
<1>5. CASE UNCHANGED ListingVars
  <2>1. \A q : Counted(q)' = Counted(q)
    BY <1>5 DEF ListingVars, vars, Counted, EntityConditions, ExtraConditions
  <2>2. ListingTypeOK' /\ ListedAreWanted'
    BY <1>5 DEF ListingVars, listing, own, vars, LInv, ListingTypeOK, ListedAreWanted, ExtraConditions
  <2>3. Progress' /\ Untouched' /\ TotalsAgree'
    BY <1>5, <2>1 DEF ListingVars, listing, own, vars, LInv, Progress, Untouched, TotalsAgree
  <2>4. QED
    BY <2>2, <2>3 DEF LInv
<1>6. QED
  BY <1>1, <1>2, <1>3, <1>4, <1>5 DEF LNext

\* The listers' invariant holds beside that of the directory.
THEOREM ListingInductive == LSpec => []LInv
<1>1. LSpec => []IInv
  BY Underlying, Inductive, PTL
<1>2. IInv => TypeOK /\ History
  BY DEF IInv, Local, RowLocks
<1>3. LInit /\ IInv => LInv
  BY <1>2, InitListing
<1>4. LInv /\ IInv /\ [LNext]_ListingVars => LInv'
  BY <1>2, NextListing
<1>5. QED
  BY <1>1, <1>3, <1>4, PTL DEF LSpec

\* The variables of the listers keep their types.
THEOREM ListingTypeCorrect == LSpec => []ListingTypeOK
<1>1. LInv => ListingTypeOK
  BY DEF LInv
<1>2. QED
  BY <1>1, ListingInductive, PTL

\* Lists and searches show committed rows that were asked for, whatever the
\* writers do between the reads (FindAll, FindByIDs, searchViaES).
THEOREM ListsAreWanted == LSpec => []ListedAreWanted
<1>1. LInv => ListedAreWanted
  BY DEF LInv
<1>2. QED
  BY <1>1, ListingInductive, PTL

\* The page and its metadata agree while the table does not change, for every
\* page, page size and number of rows whose offset fits an integer.
THEOREM PagesAgree == LSpec => []TotalsAgree
<1>1. LInv => TotalsAgree
  BY DEF LInv
<1>2. QED
  BY <1>1, ListingInductive, PTL
=============================================================================
