--------------------------- MODULE ReadersProofs ----------------------------
(***************************************************************************)
(* What a fetch that ends well has read, for any listing, any number of    *)
(* pages, windows and segments, and any changes meanwhile.                 *)
(***************************************************************************)
EXTENDS Readers, FiniteSetTheorems, SequenceTheorems, WellFoundedInduction, TLAPS

-----------------------------------------------------------------------------
(* The order of an answer and its pages.                                   *)

Ahead(i, s, w) == {j \in Matches(listed, s, w) : Sooner(j, i)}

ListingOK == listed \in [Item -> Dates \cup {None}]

LEMMA SoonerOrders ==
    ASSUME ListingOK, NEW s, NEW w, NEW i \in Matches(listed, s, w), NEW j \in Matches(listed, s, w),
           NEW k \in Matches(listed, s, w)
    PROVE  /\ ~Sooner(i, i)
           /\ i # j => Sooner(i, j) \/ Sooner(j, i)
           /\ Sooner(i, j) /\ Sooner(j, k) => Sooner(i, k)
<1>1. \A x \in Matches(listed, s, w) : x \in Int /\ listed[x] \in Int
    BY WalkAssumption DEF ListingOK, Matches
<1> QED
    BY <1>1 DEF Sooner

LEMMA MatchesFinite ==
    ASSUME NEW s, NEW w, NEW S, S \subseteq Matches(listed, s, w)
    PROVE  IsFiniteSet(S) /\ Cardinality(S) \in Nat
<1>1. S \subseteq Item
    BY DEF Matches
<1>2. IsFiniteSet(S)
    BY <1>1, FS_Subset, WalkAssumption
<1> QED
    BY <1>2, FS_CardinalityType

\* An event's rank is below the size of the answer and above those of the events before it.
LEMMA Ranks ==
    ASSUME ListingOK, NEW s, NEW w, NEW i \in Matches(listed, s, w), NEW j \in Matches(listed, s, w)
    PROVE  /\ Rank(i, s, w) \in Nat
           /\ Rank(i, s, w) < Cardinality(Matches(listed, s, w))
           /\ Sooner(j, i) => /\ Ahead(j, s, w) \subseteq Ahead(i, s, w)
                              /\ Ahead(j, s, w) # Ahead(i, s, w)
                              /\ Rank(j, s, w) < Rank(i, s, w)
<1> DEFINE M == Matches(listed, s, w)
<1>1. /\ IsFiniteSet(M) /\ Cardinality(M) \in Nat
      /\ IsFiniteSet(Ahead(i, s, w)) /\ Cardinality(Ahead(i, s, w)) \in Nat
      /\ IsFiniteSet(Ahead(j, s, w)) /\ Cardinality(Ahead(j, s, w)) \in Nat
    BY MatchesFinite DEF Ahead
<1>2. Rank(i, s, w) = Cardinality(Ahead(i, s, w)) /\ Rank(j, s, w) = Cardinality(Ahead(j, s, w))
    BY DEF Rank, Ahead
<1>3. Ahead(i, s, w) \subseteq M /\ i \notin Ahead(i, s, w)
    BY SoonerOrders DEF Ahead
<1>4. Cardinality(Ahead(i, s, w)) < Cardinality(M)
    BY <1>1, <1>3, FS_Subset
<1>5. ASSUME Sooner(j, i)
      PROVE  /\ Ahead(j, s, w) \subseteq Ahead(i, s, w) /\ Ahead(j, s, w) # Ahead(i, s, w)
             /\ Cardinality(Ahead(j, s, w)) < Cardinality(Ahead(i, s, w))
    <2>1. Ahead(j, s, w) \subseteq Ahead(i, s, w)
        BY <1>5, SoonerOrders DEF Ahead
    <2>2. j \in Ahead(i, s, w) /\ j \notin Ahead(j, s, w)
        BY <1>5, SoonerOrders DEF Ahead
    <2> QED
        BY <1>1, <2>1, <2>2, FS_Subset
<1> QED
    BY <1>1, <1>2, <1>4, <1>5

\* Ranks have no gaps: when no event has a rank from a on up to b, none has one from a on.
LEMMA NoGap ==
    ASSUME ListingOK, NEW s, NEW w, NEW a \in Nat, NEW b \in Nat, a <= b,
           \A i \in Matches(listed, s, w) : Rank(i, s, w) \notin a..b
    PROVE  \A i \in Matches(listed, s, w) : Rank(i, s, w) < a
<1> DEFINE M == Matches(listed, s, w)
           T == {i \in M : ~(Rank(i, s, w) < a)}
           R == StrictSubsetOrdering(Item)
           F == {Ahead(i, s, w) : i \in T}
<1> SUFFICES ASSUME T # {}
             PROVE  FALSE
    OBVIOUS
<1>1. IsWellFoundedOn(R, FiniteSubsetsOf(Item))
    BY FS_StrictSubsetOrderingWellFounded
<1>2. F \subseteq FiniteSubsetsOf(Item) /\ F # {}
    <2>1. ASSUME NEW i \in T
          PROVE  Ahead(i, s, w) \in FiniteSubsetsOf(Item)
        <3>1. Ahead(i, s, w) \subseteq M /\ Ahead(i, s, w) \subseteq Item
            BY DEF Ahead, Matches
        <3> QED
            BY <3>1, MatchesFinite DEF FiniteSubsetsOf
    <2> QED
        BY <2>1
<1>3. PICK A \in F : \A B \in F : ~(<<B, A>> \in R)
    <2> HIDE DEF F, R
    <2> QED
        BY <1>1, <1>2, WFMin
<1>4. PICK i \in T : A = Ahead(i, s, w)
    OBVIOUS
<1>5. ASSUME NEW j \in Ahead(i, s, w)
      PROVE  j \in M /\ Rank(j, s, w) \in 0..(a - 1)
    <2>1. j \in M /\ Sooner(j, i)
        BY DEF Ahead
    <2>2. /\ Ahead(j, s, w) \subseteq Ahead(i, s, w) /\ Ahead(j, s, w) # Ahead(i, s, w)
          /\ Rank(j, s, w) \in Nat
        BY <2>1, Ranks
    <2>3. CASE j \in T
        <3>1. Ahead(j, s, w) \in SUBSET Item /\ Ahead(i, s, w) \in SUBSET Item
            BY DEF Ahead, Matches
        <3>2. <<Ahead(j, s, w), A>> \in R
            BY <1>4, <2>2, <3>1 DEF StrictSubsetOrdering
        <3> QED
            BY <1>3, <2>3, <3>2
    <2>4. CASE j \notin T
        <3>1. Rank(j, s, w) < a
            BY <2>1, <2>4
        <3> QED
            BY <2>1, <2>2, <3>1
    <2> QED
        BY <2>3, <2>4
<1>6. IsFiniteSet(0..(a - 1)) /\ Cardinality(0..(a - 1)) = a
    <2>1. 0 \in Int /\ a - 1 \in Int
        OBVIOUS
    <2>2. Cardinality(0..(a - 1)) = IF 0 > a - 1 THEN 0 ELSE (a - 1) - 0 + 1
        BY <2>1, FS_Interval
    <2>3. IsFiniteSet(0..(a - 1))
        BY <2>1, FS_Interval
    <2> QED
        BY <2>2, <2>3
<1>7. Cardinality(Ahead(i, s, w)) <= a
    <2> DEFINE f == [j \in Ahead(i, s, w) |-> Rank(j, s, w)]
    <2>1. f \in Injection(Ahead(i, s, w), 0..(a - 1))
        <3>1. f \in [Ahead(i, s, w) -> 0..(a - 1)]
            BY <1>5
        <3>2. ASSUME NEW j \in Ahead(i, s, w), NEW k \in Ahead(i, s, w), j # k
              PROVE  f[j] # f[k]
            <4>1. j \in M /\ k \in M
                BY DEF Ahead
            <4>2. Sooner(j, k) \/ Sooner(k, j)
                BY <3>2, <4>1, SoonerOrders
            <4>3. /\ Rank(j, s, w) \in Nat /\ Rank(k, s, w) \in Nat
                  /\ Rank(j, s, w) < Rank(k, s, w) \/ Rank(k, s, w) < Rank(j, s, w)
                BY <4>1, <4>2, Ranks
            <4> QED
                BY <4>3
        <3> HIDE DEF f
        <3> QED
            BY <3>1, <3>2 DEF Injection, IsInjective
    <2>2. Injection(Ahead(i, s, w), 0..(a - 1)) # {}
        BY <2>1
    <2> HIDE DEF f
    <2>3. IsFiniteSet(Ahead(i, s, w)) /\ Cardinality(Ahead(i, s, w)) <= Cardinality(0..(a - 1))
        BY <1>6, <2>1, FS_Injection DEF ExistsInjection
    <2> QED
        BY <1>6, <2>3
<1>8. i \in M /\ Rank(i, s, w) \in Nat /\ ~(Rank(i, s, w) < a)
    BY Ranks
<1>9. Rank(i, s, w) <= a
    BY <1>7 DEF Rank, Ahead
<1>10. Rank(i, s, w) \in a..b
    BY <1>8, <1>9
<1> QED
    BY <1>8, <1>10

-----------------------------------------------------------------------------
(* What has been read so far.                                              *)

LEMMA WindowCount ==
    /\ Len(Windows) \in Nat \ {0} /\ DOMAIN Windows = 1..Len(Windows)
    /\ Len(Segments) \in Nat \ {0} /\ DOMAIN Segments = 1..Len(Segments)
<1> DEFINE n == (HorizonDays + WindowDays - 1) \div WindowDays
<1>1. n \in Nat \ {0}
    <2>1. HorizonDays \in Nat \ {0} /\ WindowDays \in Nat \ {0}
        BY WalkAssumption
    <2> QED
        BY <2>1
<1>2. DOMAIN Windows = 1..n
    BY DEF Windows
<1>3. Len(Windows) = n
    <2> HIDE DEF n
    <2>1. Windows \in Seq({Windows[k] : k \in 1..n})
        <3>1. Windows = [k \in 1..n |-> Windows[k]]
            BY DEF Windows, n
        <3> QED
            BY <1>1, <3>1
    <2> QED
        BY <1>1, <1>2, <2>1
<1>4. Segments \in Seq({Segments[k] : k \in DOMAIN Segments}) /\ Segments # <<>>
    BY WalkAssumption
<1> HIDE DEF n
<1> QED
    BY <1>1, <1>2, <1>3, <1>4

WalkOK ==
    /\ ListingOK
    /\ state \in {"idle", "ask", "done", "failed", "drift"}
    /\ segment \in 1..Len(Segments) /\ window \in 1..Len(Windows)
    /\ page \in Nat
    /\ collected \in [Item -> Dates \cup {None}]
    /\ asRead \in [Queries -> SUBSET Item]

LEMMA PageNumbers ==
    ASSUME NEW p \in Nat
    PROVE  /\ p * PageSize \in Nat /\ (p + 1) * PageSize = p * PageSize + PageSize
           /\ PageSize \in Nat \ {0} /\ MaxPages \in Nat \ {0} /\ Cap \in Nat \ {0}
           /\ MaxPages * PageSize \in Nat
           /\ p + 1 >= MaxPages => (p + 1) * PageSize >= MaxPages * PageSize
<1>1. PageSize \in Nat \ {0} /\ MaxPages \in Nat \ {0} /\ Cap \in Nat \ {0}
    BY WalkAssumption
<1>2. p * PageSize \in Nat /\ (p + 1) * PageSize = p * PageSize + PageSize /\ MaxPages * PageSize \in Nat
    BY <1>1
<1>3. ASSUME p + 1 >= MaxPages
      PROVE  (p + 1) * PageSize >= MaxPages * PageSize
    BY <1>1, <1>3
<1> QED
    BY <1>1, <1>2, <1>3

Before(q) == q[1] < segment \/ (q[1] = segment /\ q[2] < window)

Whole(q) ==
    \/ q \in disturbed \cup truncated
    \/ Cardinality(asRead[q]) > MaxPages * PageSize
    \/ \A i \in asRead[q] : Keep(i) => collected[i] # None

\* The pages of the query in progress that were read, unless it was disturbed.
PagesRead ==
    LET here == <<segment, window>>
        all  == Matches(listed, segment, window)
    IN \/ here \in disturbed
       \/ /\ asRead[here] = all
          /\ Cardinality(all) > Cap => here \in truncated
          /\ \A i \in all : Rank(i, segment, window) < page * PageSize /\ Keep(i) => collected[i] # None

ReadInv ==
    /\ WalkOK
    /\ state = "ask" => \A q \in Queries : Before(q) => Whole(q)
    /\ state = "ask" /\ page > 0 => PagesRead
    /\ state = "done" => \A q \in Queries : Whole(q)

LEMMA ReadInvInit == Init => ReadInv
<1> SUFFICES ASSUME Init PROVE ReadInv
    OBVIOUS
<1>1. WalkOK
    BY WindowCount DEF Init, WalkInit, WalkOK, ListingOK
<1> QED
    BY <1>1 DEF Init, WalkInit, ReadInv

LEMMA HereIsAQuery ==
    ASSUME WalkOK
    PROVE  <<segment, window>> \in Queries
BY WindowCount DEF WalkOK, Queries

LEMMA WalkOKStep ==
    ASSUME WalkOK, WalkNext
    PROVE  WalkOK'
<1>1. CASE Fetch
    BY <1>1, WindowCount DEF Fetch, WalkOK, ListingOK
<1>2. CASE Receive
    <2>1. segment' \in 1..Len(Segments) /\ window' \in 1..Len(Windows) /\ page' \in Nat
        BY <1>2, WindowCount DEF Receive, Advance, WalkOK
    <2>2. state' \in {"idle", "ask", "done", "failed", "drift"}
        BY <1>2 DEF Receive, Advance, Ended, WalkOK
    <2>3. collected' \in [Item -> Dates \cup {None}] /\ listed' = listed
        BY <1>2 DEF Receive, WalkOK, ListingOK
    <2>4. asRead' \in [Queries -> SUBSET Item]
        <3>1. Matches(listed, segment, window) \subseteq Item
            BY DEF Matches
        <3>2. asRead' = asRead \/ asRead' = [asRead EXCEPT ![<<segment, window>>] = Matches(listed, segment, window)]
            BY <1>2 DEF Receive
        <3> QED
            BY <3>1, <3>2 DEF WalkOK
    <2> QED
        BY <2>1, <2>2, <2>3, <2>4 DEF WalkOK, ListingOK
<1>3. CASE RateLimited \/ Error
    BY <1>3 DEF RateLimited, Error, WalkOK, ListingOK, query, harvest
<1>4. ASSUME NEW i \in Item, NEW day \in Dates \cup {None}, Change(i, day)
      PROVE  WalkOK'
    BY <1>4 DEF Change, WalkOK, ListingOK, query
<1> QED
    BY <1>1, <1>2, <1>3, <1>4 DEF WalkNext, Request

\* A change elsewhere leaves the answer to the query in progress as it is.
LEMMA ChangeLeavesAnswer ==
    ASSUME WalkOK, NEW x \in Item, NEW day, Change(x, day), NEW s, NEW w,
           x \notin Matches(listed, s, w) \cup Matches(listed', s, w)
    PROVE  /\ Matches(listed', s, w) = Matches(listed, s, w)
           /\ \A i \in Matches(listed, s, w) : Rank(i, s, w)' = Rank(i, s, w)
<1>1. \A i \in Item : i # x => listed'[i] = listed[i]
    BY DEF Change, WalkOK, ListingOK
<1>2. ASSUME NEW i \in Item
      PROVE  i \in Matches(listed', s, w) <=> i \in Matches(listed, s, w)
    BY <1>1 DEF Matches
<1>3. Matches(listed', s, w) = Matches(listed, s, w)
    <2>1. Matches(listed', s, w) \subseteq Item /\ Matches(listed, s, w) \subseteq Item
        BY DEF Matches
    <2> QED
        BY <1>2, <2>1
<1>4. ASSUME NEW i \in Matches(listed, s, w)
      PROVE  Rank(i, s, w)' = Rank(i, s, w)
    <2>1. \A j \in Matches(listed, s, w) : listed'[j] = listed[j]
        BY <1>1 DEF Matches
    <2>2. \A j \in Matches(listed, s, w) : Sooner(j, i)' <=> Sooner(j, i)
        BY <2>1 DEF Sooner
    <2>3. {j \in Matches(listed', s, w) : Sooner(j, i)'} = {j \in Matches(listed, s, w) : Sooner(j, i)}
        BY <1>3, <2>2, Zenon
    <2> QED
        BY <2>3 DEF Rank
<1> QED
    BY <1>3, <1>4

LEMMA ChangeKeepsReadInv ==
    ASSUME ReadInv, NEW x \in Item, NEW day \in Dates \cup {None}, Change(x, day)
    PROVE  ReadInv'
<1> DEFINE here == <<segment, window>>
           M == Matches(listed, segment, window)
<1>1. WalkOK /\ WalkOK'
    BY WalkOKStep DEF WalkNext, ReadInv
<1>2. /\ UNCHANGED <<state, segment, window, page, collected, truncated, asRead>>
      /\ disturbed \subseteq disturbed'
    BY DEF Change, query
<1>3. \A q \in Queries : (Before(q)' <=> Before(q)) /\ (Whole(q) => Whole(q)')
    BY <1>2 DEF Before, Whole
<1>4. ASSUME state = "ask", page > 0
      PROVE  PagesRead'
    <2>1. PagesRead
        BY <1>4 DEF ReadInv
    <2>2. CASE here \in disturbed'
        BY <1>2, <2>2 DEF PagesRead
    <2>3. CASE here \notin disturbed'
        <3>1. x \notin M \cup Matches(listed', segment, window)
            BY <1>4, <2>3 DEF Change
        <3>2. /\ Matches(listed', segment, window) = M
              /\ \A i \in M : Rank(i, segment, window)' = Rank(i, segment, window)
            <4>1. /\ Matches(listed', segment, window) = M
                  /\ \A i \in M : Cardinality({j \in Matches(listed', segment, window) : Sooner(j, i)'})
                        = Rank(i, segment, window)
                BY <1>1, <3>1, ChangeLeavesAnswer DEF Rank
            <4> QED
                BY <1>2, <4>1 DEF Rank
        <3>3. /\ asRead[here] = M
              /\ Cardinality(M) > Cap => here \in truncated
              /\ \A i \in M : Rank(i, segment, window) < page * PageSize /\ Keep(i) => collected[i] # None
            BY <1>2, <2>1, <2>3 DEF PagesRead
        <3> QED
            BY <1>2, <3>2, <3>3 DEF PagesRead
    <2> QED
        BY <2>2, <2>3
<1> QED
    BY <1>1, <1>2, <1>3, <1>4 DEF ReadInv

\* What the page just received adds: every event ranked up to the end of this page.
PagesNowRead ==
    LET here == <<segment, window>>
        all  == Matches(listed, segment, window)
    IN \/ here \in disturbed'
       \/ /\ asRead'[here] = all
          /\ Cardinality(all) > Cap => here \in truncated'
          /\ \A i \in all : Rank(i, segment, window) < (page + 1) * PageSize /\ Keep(i) => collected'[i] # None

LEMMA ReceiveReads ==
    ASSUME ReadInv, Receive
    PROVE  /\ PagesNowRead
           /\ \A q \in Queries : q # <<segment, window>> /\ Whole(q) => Whole(q)'
<1> DEFINE here == <<segment, window>>
           M == Matches(listed, segment, window)
<1>1. /\ collected' = [i \in Item |-> IF i \in PageOf(segment, window, page) /\ Keep(i)
                                      THEN listed[i] ELSE collected[i]]
      /\ truncated' = IF page = 0 /\ Cardinality(M) > Cap THEN truncated \cup {here} ELSE truncated
      /\ asRead' = IF page = 0 THEN [asRead EXCEPT ![here] = M] ELSE asRead
      /\ disturbed' = disturbed /\ state = "ask"
    BY DEF Receive
<1>2. WalkOK /\ here \in Queries
    BY HereIsAQuery DEF ReadInv
<1>3. \A i \in Item : collected[i] # None => collected'[i] # None
    <2>1. \A i \in PageOf(segment, window, page) : listed[i] # None
        BY DEF PageOf, Matches
    <2> QED
        BY <1>1, <2>1
<1>4. \A q \in Queries : q # here => asRead'[q] = asRead[q] /\ asRead[q] \subseteq Item
    BY <1>1, <1>2 DEF WalkOK
<1>5. \A q \in Queries : q # here /\ Whole(q) => Whole(q)'
    BY <1>1, <1>3, <1>4 DEF Whole
<1>6. PagesNowRead
    <2> SUFFICES ASSUME here \notin disturbed
                 PROVE  /\ asRead'[here] = M
                        /\ Cardinality(M) > Cap => here \in truncated'
                        /\ \A i \in M : Rank(i, segment, window) < (page + 1) * PageSize /\ Keep(i)
                                           => collected'[i] # None
        BY <1>1 DEF PagesNowRead
    <2>1. page > 0 => /\ asRead[here] = M
                      /\ Cardinality(M) > Cap => here \in truncated
                      /\ \A i \in M : Rank(i, segment, window) < page * PageSize /\ Keep(i)
                                         => collected[i] # None
        BY <1>1 DEF ReadInv, PagesRead
    <2>2. page \in Nat
        BY <1>2 DEF WalkOK
    <2>3. asRead'[here] = M /\ (Cardinality(M) > Cap => here \in truncated')
        BY <1>1, <1>2, <2>1, <2>2 DEF WalkOK
    <2>4. ASSUME NEW i \in M, Rank(i, segment, window) < (page + 1) * PageSize, Keep(i)
          PROVE  collected'[i] # None
        <3>1. /\ Rank(i, segment, window) \in Nat /\ page * PageSize \in Nat
              /\ (page + 1) * PageSize = page * PageSize + PageSize /\ PageSize \in Nat
            BY <1>2, <2>2, Ranks, PageNumbers DEF WalkOK
        <3>2. i \in Item /\ listed[i] # None
            BY DEF Matches
        <3>3. CASE Rank(i, segment, window) < page * PageSize
            <4>1. page > 0
                BY SMTT(30), <2>2, <3>1, <3>3, WalkAssumption
            <4> QED
                BY <1>3, <2>1, <2>4, <3>2, <3>3, <4>1
        <3>4. CASE ~(Rank(i, segment, window) < page * PageSize)
            <4>1. Rank(i, segment, window) \in (page * PageSize)..((page + 1) * PageSize - 1)
                BY <2>4, <3>1, <3>4
            <4>2. i \in PageOf(segment, window, page)
                BY <4>1 DEF PageOf
            <4> QED
                BY <1>1, <2>4, <3>2, <4>2
        <3> QED
            BY <3>3, <3>4
    <2> QED
        BY <2>3, <2>4
<1> QED
    BY <1>5, <1>6

\* At the last page the query has been read whole, or it is one that the collector reports
\* or its limit leaves out.
LEMMA LastPageIsEnough ==
    ASSUME ReadInv, Receive,
           LastPage(page, PageOf(segment, window, page), Cardinality(Matches(listed, segment, window)))
    PROVE  \A q \in Queries : q = <<segment, window>> => Whole(q)'
<1> SUFFICES ASSUME NEW q \in Queries, q = <<segment, window>>
             PROVE  Whole(q)'
    OBVIOUS
<1> DEFINE here == <<segment, window>>
           M == Matches(listed, segment, window)
           items == PageOf(segment, window, page)
           total == Cardinality(M)
<1>1. WalkOK /\ page \in Nat /\ UNCHANGED <<listed, disturbed>> /\ ListingOK
    BY DEF Receive, ReadInv, WalkOK
<1>2. PagesNowRead
    BY ReceiveReads
<1>3. CASE here \in disturbed'
    BY <1>3 DEF Whole
<1>4. ASSUME here \notin disturbed'
      PROVE  Whole(q)'
    <2>1. /\ asRead'[here] = M
          /\ total > Cap => here \in truncated'
          /\ \A i \in M : Rank(i, segment, window) < (page + 1) * PageSize /\ Keep(i) => collected'[i] # None
        BY <1>2, <1>4 DEF PagesNowRead
    <2>2. /\ page * PageSize \in Nat /\ (page + 1) * PageSize = page * PageSize + PageSize
          /\ PageSize \in Nat \ {0} /\ MaxPages * PageSize \in Nat /\ Cap \in Nat
          /\ page + 1 >= MaxPages => (page + 1) * PageSize >= MaxPages * PageSize
        BY <1>1, PageNumbers, WalkAssumption
    <2>3. total \in Nat
        BY MatchesFinite
    <2>4. \A i \in M : Rank(i, segment, window) \in Nat /\ Rank(i, segment, window) < total
        BY <1>1, Ranks
    <2>5. CASE items = {}
        <3> DEFINE a == page * PageSize
                   b == (page + 1) * PageSize - 1
        <3>1. a \in Nat /\ b \in Nat /\ a <= b /\ a < (page + 1) * PageSize
            BY <2>2
        <3>2. \A i \in M : Rank(i, segment, window) \notin a..b
            BY <2>5 DEF PageOf
        <3> HIDE DEF a, b
        <3>3. \A i \in M : Rank(i, segment, window) < a
            BY <1>1, <3>1, <3>2, NoGap
        <3>4. \A i \in M : Rank(i, segment, window) < (page + 1) * PageSize
            BY <2>2, <2>4, <3>1, <3>3
        <3> QED
            BY <2>1, <3>4 DEF Whole
    <2>6. CASE (page + 1) * PageSize >= total
        <3>1. \A i \in M : Rank(i, segment, window) < (page + 1) * PageSize
            BY <2>2, <2>3, <2>4, <2>6
        <3> QED
            BY <2>1, <3>1 DEF Whole
    <2>7. CASE page + 1 >= MaxPages
        <3>1. CASE total > MaxPages * PageSize
            BY <2>1, <3>1 DEF Whole
        <3>2. CASE ~(total > MaxPages * PageSize)
            BY <2>2, <2>3, <2>6, <2>7, <3>2
        <3> QED
            BY <3>1, <3>2
    <2>8. CASE (page + 1) * PageSize >= Cap
        <3>1. CASE total > Cap
            BY <2>1, <3>1 DEF Whole
        <3>2. CASE ~(total > Cap)
            BY <2>2, <2>3, <2>6, <2>8, <3>2
        <3> QED
            BY <3>1, <3>2
    <2> QED
        BY <2>5, <2>6, <2>7, <2>8 DEF LastPage
<1> QED
    BY <1>3, <1>4

LEMMA ReceiveKeepsReadInv ==
    ASSUME ReadInv, Receive
    PROVE  ReadInv'
<1> DEFINE here == <<segment, window>>
           last == LastPage(page, PageOf(segment, window, page), Cardinality(Matches(listed, segment, window)))
<1>1. WalkOK /\ WalkOK' /\ here \in Queries /\ state = "ask" /\ UNCHANGED <<listed, disturbed>>
    BY WalkOKStep, HereIsAQuery DEF ReadInv, WalkNext, Request, Receive
<1>2. /\ \A q \in Queries : Before(q) /\ q # here => Whole(q)'
      /\ PagesNowRead
    BY <1>1, ReceiveReads DEF ReadInv
<1>3. \A q \in Queries : /\ q[1] \in 1..Len(Segments) /\ q[2] \in 1..Len(Windows)
                         /\ q = <<q[1], q[2]>>
    BY WindowCount DEF Queries
<1>4. CASE ~last
    <2>1. page' = page + 1 /\ UNCHANGED <<segment, window, state>>
        BY <1>4 DEF Receive, Advance
    <2>2. \A q \in Queries : Before(q)' => Before(q) /\ q # here
        BY <1>1, <2>1 DEF Before, WalkOK
    <2>3. PagesRead'
        <3>1. \A i : Rank(i, segment, window)' = Rank(i, segment, window)
            BY <1>1, <2>1 DEF Rank, Sooner
        <3> QED
            BY <1>1, <1>2, <2>1, <3>1 DEF PagesNowRead, PagesRead
    <2> QED
        BY <1>1, <1>2, <2>1, <2>2, <2>3 DEF ReadInv
<1>5. CASE last
    <2>1. \A q \in Queries : q = here => Whole(q)'
        BY <1>5, LastPageIsEnough
    <2>2. /\ page' = 0
          /\ IF window < Len(Windows) THEN window' = window + 1 /\ UNCHANGED <<segment, state>>
             ELSE IF segment < Len(Segments) THEN window' = 1 /\ segment' = segment + 1 /\ UNCHANGED state
             ELSE TRUE
        BY <1>5 DEF Receive, Advance
    <2>3. \A q \in Queries : q = here \/ Before(q) => Whole(q)'
        BY <1>2, <2>1
    <2>4. CASE window < Len(Windows)
        <3>1. \A q \in Queries : Before(q)' => q = here \/ Before(q)
            BY <1>1, <1>3, <2>2, <2>4, WindowCount DEF Before, WalkOK
        <3> QED
            BY <1>1, <2>2, <2>3, <2>4, <3>1 DEF ReadInv
    <2>5. CASE ~(window < Len(Windows)) /\ segment < Len(Segments)
        <3>1. \A q \in Queries : Before(q)' => q = here \/ Before(q)
            BY <1>1, <1>3, <2>2, <2>5, WindowCount DEF Before, WalkOK
        <3> QED
            BY <1>1, <2>2, <2>3, <2>5, <3>1 DEF ReadInv
    <2>6. CASE ~(window < Len(Windows)) /\ ~(segment < Len(Segments))
        <3>1. \A q \in Queries : q = here \/ Before(q)
            BY <1>1, <1>3, <2>6, WindowCount DEF Before, WalkOK
        <3>2. state' # "ask"
            BY <1>5, <2>6 DEF Receive, Advance, Ended
        <3> QED
            BY <1>1, <2>3, <3>1, <3>2 DEF ReadInv
    <2> QED
        BY <2>4, <2>5, <2>6
<1> QED
    BY <1>4, <1>5

LEMMA ReadInvStep ==
    ASSUME ReadInv, [Next]_vars
    PROVE  ReadInv'
<1>1. CASE Fetch
    <2>1. WalkOK'
        BY <1>1, WalkOKStep DEF ReadInv, WalkNext
    <2>2. /\ state' = "ask" /\ page' = 0
          /\ \A q \in Queries : ~Before(q)'
        BY <1>1, WindowCount DEF Fetch, Before, Queries
    <2> QED
        BY <2>1, <2>2 DEF ReadInv, WalkOK
<1>2. CASE Receive
    BY <1>2, ReceiveKeepsReadInv
<1>3. CASE RateLimited \/ Error
    <2>1. WalkOK'
        BY <1>3, WalkOKStep DEF ReadInv, WalkNext, Request
    <2>2. /\ UNCHANGED <<listed, segment, window, page, harvest>>
          /\ state = "ask" /\ state' \in {"ask", "failed"}
        BY <1>3 DEF RateLimited, Error, query
    <2>3. /\ \A q \in Queries : (Before(q)' <=> Before(q)) /\ (Whole(q)' <=> Whole(q))
          /\ PagesRead' <=> PagesRead
        BY <2>2 DEF Before, Whole, PagesRead, Rank, Sooner, harvest
    <2> QED
        BY <2>1, <2>2, <2>3 DEF ReadInv
<1>4. ASSUME NEW i \in Item, NEW day \in Dates \cup {None}, Change(i, day)
      PROVE  ReadInv'
    BY <1>4, ChangeKeepsReadInv
<1>5. CASE UNCHANGED walkVars
    BY <1>5 DEF walkVars, query, harvest, ReadInv, WalkOK, ListingOK, Before, Whole, PagesRead, Rank, Sooner
<1> QED
    BY <1>1, <1>2, <1>3, <1>4, <1>5 DEF Next, WalkNext, Request, vars

\* A Ticketmaster fetch that ends well has every kept event of every window that stood still
\* while its pages were read, apart from windows it reports and those too long for its pages
\* (ticketmaster.py:327-404): for any listing, limits and changes, and any number of fetches.
THEOREM WindowsAreRead == Spec => []WindowsAreComplete
<1>1. ReadInv => WindowsAreComplete
    BY DEF ReadInv, Whole, WindowsAreComplete
<1> QED
    BY <1>1, ReadInvInit, ReadInvStep, PTL DEF Spec

-----------------------------------------------------------------------------
(* The listing of the Paramount.                                           *)

BoardOK == board \in Seq(Post) /\ IsInjective(board)

\* A sequence that names every element of a finite set once.
LEMMA SequenceOfSet ==
    ASSUME NEW S, IsFiniteSet(S)
    PROVE  SetToSeq(S) \in Seq(S) /\ IsInjective(SetToSeq(S))
<1> DEFINE n == Cardinality(S)
<1>1. n \in Nat /\ ExistsBijection(1..n, S)
    BY FS_CardinalityType
<1>2. PICK f \in Bijection(1..n, S) : TRUE
    BY <1>1 DEF ExistsBijection
<1>3. f \in [1..n -> S] /\ IsInjective(f)
    BY <1>2 DEF Bijection, Injection
<1>4. SetToSeq(S) \in [1..n -> S] /\ IsInjective(SetToSeq(S))
    <2> HIDE DEF n
    <2> QED
        BY <1>3 DEF SetToSeq, n
<1> QED
    BY <1>1, <1>4

LEMMA AddedInFront ==
    ASSUME BoardOK, NEW i \in Post \ ToSet(board)
    PROVE  LET new == <<i>> \o board
           IN /\ new \in Seq(Post) /\ IsInjective(new)
              /\ Len(new) = Len(board) + 1 /\ new[1] = i
              /\ \A k \in DOMAIN board : k + 1 \in DOMAIN new /\ new[k + 1] = board[k]
              /\ \A k \in DOMAIN new : k = 1 \/ (k - 1 \in DOMAIN board /\ new[k] = board[k - 1])
<1> DEFINE new == <<i>> \o board
<1>1. board \in Seq(Post) /\ <<i>> \in Seq(Post)
    BY DEF BoardOK
<1>2. /\ new \in Seq(Post) /\ Len(new) = Len(board) + 1 /\ new[1] = i
      /\ \A k \in 1..Len(board) : new[k + 1] = board[k]
      /\ \A k \in 1..Len(new) : k = 1 \/ (k - 1 \in 1..Len(board) /\ new[k] = board[k - 1])
    BY <1>1
<1>3. \A k \in DOMAIN board : board[k] # i
    BY DEF ToSet
<1>4. ASSUME NEW a \in DOMAIN new, NEW b \in DOMAIN new, new[a] = new[b]
      PROVE  a = b
    <2>1. DOMAIN new = 1..Len(new) /\ DOMAIN board = 1..Len(board)
        BY <1>1, <1>2
    <2> HIDE DEF new
    <2>2. CASE a = 1 \/ b = 1
        BY <1>2, <1>3, <1>4, <2>1, <2>2
    <2>3. CASE a # 1 /\ b # 1
        <3>1. board[a - 1] = board[b - 1] /\ a - 1 \in DOMAIN board /\ b - 1 \in DOMAIN board
            BY <1>2, <1>4, <2>1, <2>3
        <3>2. a - 1 = b - 1
            BY <3>1 DEF BoardOK, IsInjective
        <3> QED
            BY <2>1, <3>2
    <2> QED
        BY <2>2, <2>3
<1> QED
    BY <1>1, <1>2, <1>4 DEF IsInjective

LEMMA RemovedAt ==
    ASSUME BoardOK, NEW r \in DOMAIN board
    PROVE  LET new == RemoveAt(board, r)
           IN /\ new \in Seq(Post) /\ IsInjective(new)
              /\ \A k \in DOMAIN board : /\ k < r => k \in DOMAIN new /\ new[k] = board[k]
                                         /\ k > r => k - 1 \in DOMAIN new /\ new[k - 1] = board[k]
              /\ \A k \in DOMAIN new : \/ k < r /\ k \in DOMAIN board /\ new[k] = board[k]
                                       \/ k >= r /\ k + 1 \in DOMAIN board /\ new[k] = board[k + 1]
<1> DEFINE left == SubSeq(board, 1, r - 1)
           right == SubSeq(board, r + 1, Len(board))
           new == RemoveAt(board, r)
<1>1. board \in Seq(Post) /\ DOMAIN board = 1..Len(board) /\ Len(board) \in Nat /\ r \in 1..Len(board)
    BY DEF BoardOK
<1>2. /\ left \in Seq(Post) /\ Len(left) = r - 1
      /\ \A k \in 1..(r - 1) : left[k] = board[k]
    <2>1. \A k \in 1..(r - 1) : board[k] \in Post
        BY <1>1
    <2>2. /\ left \in Seq(Post) /\ Len(left) = IF 1 <= r - 1 THEN (r - 1) - 1 + 1 ELSE 0
          /\ \A k \in 1..((r - 1) - 1 + 1) : left[k] = board[1 + k - 1]
        BY <1>1, <2>1, SubSeqProperties
    <2> HIDE DEF left
    <2> QED
        BY <1>1, <2>2
<1>3. /\ right \in Seq(Post) /\ Len(right) = Len(board) - r
      /\ \A k \in 1..(Len(board) - r) : right[k] = board[r + k]
    <2>1. \A k \in (r + 1)..Len(board) : board[k] \in Post
        BY <1>1
    <2>2. /\ right \in Seq(Post) /\ Len(right) = IF r + 1 <= Len(board) THEN Len(board) - (r + 1) + 1 ELSE 0
          /\ \A k \in 1..(Len(board) - (r + 1) + 1) : right[k] = board[r + 1 + k - 1]
        BY <1>1, <2>1, SubSeqProperties
    <2> HIDE DEF right
    <2>3. Len(board) - (r + 1) + 1 = Len(board) - r /\ Len(right) = Len(board) - r
        BY <1>1, <2>2
    <2>4. ASSUME NEW k \in 1..(Len(board) - r)
          PROVE  right[k] = board[r + k]
        <3>1. right[k] = board[r + 1 + k - 1]
            BY <2>2, <2>3
        <3>2. r + 1 + k - 1 = r + k
            BY <1>1
        <3> QED
            BY <3>1, <3>2
    <2> QED
        BY <2>2, <2>3, <2>4
<1>4. /\ new \in Seq(Post) /\ Len(new) = Len(board) - 1
      /\ \A k \in 1..(Len(board) - 1) : new[k] = IF k < r THEN board[k] ELSE board[k + 1]
    <2>1. new = left \o right
        BY DEF RemoveAt
    <2> HIDE DEF left, right, new
    <2>2. /\ new \in Seq(Post) /\ Len(new) = Len(left) + Len(right)
          /\ \A k \in 1..(Len(left) + Len(right)) :
                new[k] = IF k <= Len(left) THEN left[k] ELSE right[k - Len(left)]
        BY <1>2, <1>3, <2>1, ConcatProperties
    <2>3. Len(left) = r - 1 /\ Len(left) + Len(right) = Len(board) - 1
        BY <1>1, <1>2, <1>3
    <2>4. ASSUME NEW k \in 1..(Len(board) - 1)
          PROVE  new[k] = IF k < r THEN board[k] ELSE board[k + 1]
        <3>1. new[k] = IF k <= r - 1 THEN left[k] ELSE right[k - (r - 1)]
            BY <2>2, <2>3
        <3>2. CASE k < r
            BY <1>1, <1>2, <3>1, <3>2
        <3>3. CASE ~(k < r)
            <4>1. k - (r - 1) \in 1..(Len(board) - r) /\ r + (k - (r - 1)) = k + 1
                BY <1>1, <3>3
            <4>2. right[k - (r - 1)] = board[k + 1]
                BY <1>3, <4>1
            <4> QED
                BY <1>1, <3>1, <3>3, <4>2
        <3> QED
            BY <3>2, <3>3
    <2> QED
        BY <2>2, <2>3, <2>4
<1>5. DOMAIN new = 1..(Len(board) - 1)
    BY <1>4
<1> HIDE DEF new
<1>6. ASSUME NEW a \in DOMAIN new, NEW b \in DOMAIN new, new[a] = new[b]
      PROVE  a = b
    <2> DEFINE old(k) == IF k < r THEN k ELSE k + 1
    <2>1. /\ old(a) \in DOMAIN board /\ old(b) \in DOMAIN board
          /\ board[old(a)] = board[old(b)]
        BY <1>1, <1>4, <1>5, <1>6
    <2>2. old(a) = old(b)
        BY <2>1 DEF BoardOK, IsInjective
    <2> QED
        BY <1>1, <1>5, <2>2
<1> QED
    BY <1>1, <1>4, <1>5, <1>6 DEF new, IsInjective

\* The set of numbers up to n has a greatest member.
LEMMA GreatestUpTo ==
    ASSUME NEW n \in Nat, NEW T, T \subseteq 1..n, T # {}
    PROVE  /\ Max(T) \in T
           /\ \A x \in T : Max(T) >= x
<1> DEFINE Above == {(t + 1)..n : t \in T}
           R == StrictSubsetOrdering(Nat)
<1>1. IsWellFoundedOn(R, FiniteSubsetsOf(Nat))
    BY FS_StrictSubsetOrderingWellFounded
<1>2. Above \subseteq FiniteSubsetsOf(Nat) /\ Above # {}
    <2>1. ASSUME NEW t \in T
          PROVE  (t + 1)..n \in FiniteSubsetsOf(Nat)
        <3>1. t + 1 \in Int /\ n \in Int /\ (t + 1)..n \subseteq Nat
            OBVIOUS
        <3>2. IsFiniteSet((t + 1)..n)
            BY <3>1, FS_Interval
        <3> QED
            BY <3>1, <3>2 DEF FiniteSubsetsOf
    <2> QED
        BY <2>1
<1>3. PICK I \in Above : \A J \in Above : ~(<<J, I>> \in R)
    <2> HIDE DEF Above, R
    <2> QED
        BY <1>1, <1>2, WFMin
<1>4. PICK x \in T : I = (x + 1)..n
    OBVIOUS
<1>5. ASSUME NEW y \in T
      PROVE  x >= y
    <2>1. x \in 1..n /\ y \in 1..n
        OBVIOUS
    <2>2. ASSUME x < y
          PROVE  FALSE
        <3>1. (y + 1)..n \subseteq (x + 1)..n /\ y \in (x + 1)..n /\ y \notin (y + 1)..n
            BY <2>1, <2>2
        <3>2. (y + 1)..n # (x + 1)..n /\ (y + 1)..n \in SUBSET Nat /\ (x + 1)..n \in SUBSET Nat
            BY <2>1, <3>1
        <3>3. <<(y + 1)..n, (x + 1)..n>> \in R
            BY <3>1, <3>2 DEF StrictSubsetOrdering
        <3> QED
            BY <1>3, <1>4, <3>3
    <2> QED
        BY <2>1, <2>2
<1> QED
    BY <1>5 DEF Max

\* The sale state of a post with the tag "sold-out", in whatever order its tags come.
LEMMA SoldOutWins ==
    ASSUME NEW i \in Post, "sold-out" \in ToSet(PostAbout[i].tags)
    PROVE  TagStatus(PostAbout[i].tags) = "sold_out"
<1> DEFINE tags == PostAbout[i].tags
           says == [tag \in {"on-sale-now", "on-sale-fri", "sold-out"} |->
                       CASE tag = "on-sale-now" -> "on_sale"
                         [] tag = "on-sale-fri" -> "coming_soon"
                         [] tag = "sold-out"    -> "sold_out"]
           telling == {k \in DOMAIN tags : tags[k] \in DOMAIN says}
           effective == {k \in telling : tags[k] = "sold-out" \/ \A j \in telling : k <= j}
<1>1. tags \in Seq(STRING) /\ DOMAIN tags = 1..Len(tags) /\ Len(tags) \in Nat
    BY ParamountAssumption
<1>2. PICK k \in DOMAIN tags : tags[k] = "sold-out"
    BY DEF ToSet
<1>3. k \in telling /\ k \in effective
    BY <1>2
<1>4. effective \subseteq 1..Len(tags) /\ effective # {}
    BY <1>1, <1>3
<1> HIDE DEF tags
<1>5. Max(effective) \in effective /\ \A x \in effective : Max(effective) >= x
    <2> HIDE DEF effective
    <2> QED
        BY <1>1, <1>4, GreatestUpTo
<1>6. tags[Max(effective)] = "sold-out"
    <2> DEFINE m == Max(effective)
    <2>1. m \in effective /\ m >= k
        BY <1>3, <1>5
    <2>2. m \in 1..Len(tags) /\ k \in 1..Len(tags)
        BY <1>1, <1>4, <2>1
    <2> HIDE DEF m
    <2>3. CASE \A j \in telling : m <= j
        <3>1. m = k
            BY <1>3, <2>1, <2>2, <2>3
        <3> QED
            BY <1>2, <3>1 DEF m
    <2>4. CASE ~(\A j \in telling : m <= j)
        BY <2>1, <2>4 DEF m
    <2> QED
        BY <2>3, <2>4
<1>7. telling # {} /\ TagStatus(tags) = says[tags[Max(effective)]]
    BY <1>3 DEF TagStatus
<1>8. TagStatus(tags) = says["sold-out"]
    <2> HIDE DEF says, effective
    <2> QED
        BY <1>6, <1>7
<1> QED
    BY <1>8 DEF tags

LEMMA LastPageNumber ==
    \A n \in Nat : Min({n, PageLimit}) = IF n <= PageLimit THEN n ELSE PageLimit
<1> SUFFICES ASSUME NEW n \in Nat
             PROVE  Min({n, PageLimit}) = IF n <= PageLimit THEN n ELSE PageLimit
    OBVIOUS
<1>1. PageLimit \in Nat
    BY ParamountAssumption
<1>2. \A x \in {n, PageLimit} : (\A y \in {n, PageLimit} : x =< y)
                                   <=> x = IF n <= PageLimit THEN n ELSE PageLimit
    BY <1>1
<1>3. (IF n <= PageLimit THEN n ELSE PageLimit) \in {n, PageLimit}
    OBVIOUS
<1> QED
    BY <1>2, <1>3 DEF Min

-----------------------------------------------------------------------------
(* What the pages have passed over.                                        *)

PmOK ==
    /\ BoardOK
    /\ pmState \in {"idle", "ask", "done", "failed", "drift"}
    /\ pmPage \in 1..PageLimit /\ totalPages \in Nat
    /\ posted \in Nat /\ removals \in Nat
    /\ boardAsRead \in Seq(Post) /\ IsInjective(boardAsRead)
    /\ taken = [i \in Post |-> taken[i]]
    /\ \A i \in Post : taken[i] = Absent \/ taken[i] = MapPost(i)

Missed(k) == /\ boardAsRead[k] \notin unposted
             /\ MapPost(boardAsRead[k]) # Absent
             /\ taken[boardAsRead[k]] = Absent

\* Posts that no page to come will have, if they do not move.
Passed == {k \in DOMAIN boardAsRead :
              Missed(k) /\ \E j \in DOMAIN board :
                              j <= (pmPage - 1) * PerPage /\ board[j] = boardAsRead[k]}

Skipped == {k \in DOMAIN boardAsRead :
               Missed(k) /\ k + posted <= Min({totalPages, PageLimit}) * PerPage}

\* A post that is still listed has moved down by no more than what was added.
NotFarDown ==
    \A k \in DOMAIN boardAsRead : boardAsRead[k] \notin unposted
        => \E j \in DOMAIN board : board[j] = boardAsRead[k] /\ j <= k + posted

PmInv ==
    /\ PmOK
    /\ pmState = "ask" /\ pmPage > 1 =>
           /\ pmPage <= Min({totalPages, PageLimit})
           /\ NotFarDown
           /\ Cardinality(Passed) <= removals
    /\ pmState = "done" => Cardinality(Skipped) <= removals

LEMMA PmInvInit == PmInit => PmInv
<1> SUFFICES ASSUME PmInit PROVE PmInv
    OBVIOUS
<1>1. BoardOK
    BY SequenceOfSet, ParamountAssumption DEF PmInit, BoardOK
<1>2. PageLimit \in Nat \ {0}
    BY ParamountAssumption
<1>3. << >> \in Seq(Post) /\ IsInjective(<< >>)
    BY DEF IsInjective
<1> QED
    BY <1>1, <1>2, <1>3 DEF PmInit, PmInv, PmOK

\* A set of posts that has at most one more than another.
LEMMA OneMore ==
    ASSUME NEW S, IsFiniteSet(S), NEW T, NEW x, T \subseteq S \cup {x}
    PROVE  /\ IsFiniteSet(T) /\ Cardinality(T) \in Nat /\ Cardinality(S) \in Nat
           /\ Cardinality(T) <= Cardinality(S) + 1
           /\ T \subseteq S => Cardinality(T) <= Cardinality(S)
<1>1. /\ IsFiniteSet(S \cup {x}) /\ Cardinality(S) \in Nat
      /\ Cardinality(S \cup {x}) \in {Cardinality(S), Cardinality(S) + 1}
    BY FS_AddElement, FS_CardinalityType
<1>2. /\ IsFiniteSet(T) /\ Cardinality(T) \in Nat
      /\ Cardinality(T) <= Cardinality(S \cup {x})
    BY <1>1, FS_Subset, FS_CardinalityType
<1>3. T \subseteq S => Cardinality(T) <= Cardinality(S)
    BY FS_Subset
<1> QED
    BY <1>1, <1>2, <1>3

LEMMA PassedFinite ==
    ASSUME PmOK
    PROVE  /\ IsFiniteSet(Passed) /\ IsFiniteSet(Skipped)
           /\ Cardinality(Passed) \in Nat /\ Cardinality(Skipped) \in Nat
<1>1. DOMAIN boardAsRead = 1..Len(boardAsRead) /\ Len(boardAsRead) \in Int /\ 1 \in Int
    BY DEF PmOK
<1>2. IsFiniteSet(DOMAIN boardAsRead)
    BY <1>1, FS_Interval
<1>3. Passed \subseteq DOMAIN boardAsRead /\ Skipped \subseteq DOMAIN boardAsRead
    BY DEF Passed, Skipped
<1> QED
    BY <1>2, <1>3, FS_Subset, FS_CardinalityType

\* The next page takes what it shows of the posts.
LEMMA ReceiveTakes ==
    ASSUME PmOK, PmReceive
    PROVE  /\ \A i \in Post : taken'[i] = Absent => taken[i] = Absent
           /\ \A j \in DOMAIN board :
                 /\ (pmPage - 1) * PerPage < j /\ j <= pmPage * PerPage
                 /\ MapPost(board[j]) # Absent
                 => taken'[board[j]] # Absent
           /\ \A i \in Post : taken'[i] = Absent \/ taken'[i] = MapPost(i)
           /\ taken' = [i \in Post |-> taken'[i]]
<1> DEFINE items == PostsOf(board, pmPage)
<1>1. taken' = [i \in Post |-> IF i \in items /\ MapPost(i) # Absent THEN MapPost(i) ELSE taken[i]]
    BY DEF PmReceive
<1>2. ASSUME NEW j \in DOMAIN board, (pmPage - 1) * PerPage < j, j <= pmPage * PerPage
      PROVE  board[j] \in items /\ board[j] \in Post
    BY <1>2 DEF PostsOf, PmOK, BoardOK
<1> HIDE DEF items
<1> QED
    BY <1>1, <1>2 DEF PmOK

LEMMA PmReceiveOK ==
    ASSUME PmOK, PmReceive
    PROVE  PmOK'
<1>1. /\ taken' = [i \in Post |-> taken'[i]]
      /\ \A i \in Post : taken'[i] = Absent \/ taken'[i] = MapPost(i)
    BY ReceiveTakes
<1>2. totalPages' \in Nat
    <2>1. Len(board) \in Nat /\ PerPage \in Nat \ {0}
        BY ParamountAssumption DEF PmOK, BoardOK
    <2>2. PagesOf(board) \in Nat
        BY <2>1 DEF PagesOf
    <2> QED
        BY <2>2 DEF PmReceive, PmOK
<1>3. pmPage' \in 1..PageLimit /\ pmState' \in {"idle", "ask", "done", "failed", "drift"}
    <2>1. Follows(pmPage, totalPages') => pmPage + 1 <= PageLimit
        <3>1. PageLimit \in Nat /\ pmPage \in Nat
            BY ParamountAssumption DEF PmOK
        <3>2. Min({totalPages', PageLimit}) = IF totalPages' <= PageLimit THEN totalPages' ELSE PageLimit
            BY <1>2, LastPageNumber
        <3> QED
            BY <1>2, <3>1, <3>2 DEF Follows
    <2> QED
        BY <2>1, ParamountAssumption DEF PmReceive, PmOK
<1>4. /\ board' = board /\ posted' \in Nat /\ removals' \in Nat
      /\ boardAsRead' \in Seq(Post) /\ IsInjective(boardAsRead')
    BY DEF PmReceive, PmOK, BoardOK
<1> QED
    BY <1>1, <1>2, <1>3, <1>4 DEF PmOK, BoardOK

\* After the first page: every post is where it was read.
LEMMA FirstPage ==
    ASSUME PmInv, PmReceive, pmPage = 1
    PROVE  PmInv'
<1>1. PmOK /\ PmOK'
    BY PmReceiveOK DEF PmInv
<1>2. /\ boardAsRead' = board /\ posted' = 0 /\ unposted' = {} /\ removals' = 0
      /\ board' = board /\ totalPages' \in Nat
    BY <1>1, SMTT(30) DEF PmReceive, PmOK
<1>3. PerPage \in Nat \ {0} /\ DOMAIN board \subseteq Nat \ {0}
    <2>1. PerPage \in Nat \ {0}
        BY ParamountAssumption
    <2>2. board \in Seq(Post)
        BY <1>1 DEF PmOK, BoardOK
    <2> QED
        BY <2>1, <2>2
<1>4. \A k \in DOMAIN board : k <= PerPage => ~Missed(k)'
    <2> SUFFICES ASSUME NEW k \in DOMAIN board, k <= PerPage, MapPost(board[k]) # Absent
                 PROVE  taken'[board[k]] # Absent
        BY <1>2 DEF Missed
    <2>1. (pmPage - 1) * PerPage < k /\ k <= pmPage * PerPage
        BY <1>3
    <2> QED
        BY <1>1, <2>1, ReceiveTakes
<1>5. CASE Follows(pmPage, totalPages')
    <2>1. pmPage' = 2 /\ pmState' = "ask" /\ pmPage' <= Min({totalPages', PageLimit})
        BY <1>5 DEF PmReceive, Follows
    <2>2. NotFarDown'
        BY <1>2, <1>3 DEF NotFarDown
    <2>3. Passed' = {}
        <3> SUFFICES ASSUME NEW k \in Passed'
                     PROVE  FALSE
            OBVIOUS
        <3>1. PICK j \in DOMAIN board : j <= (pmPage' - 1) * PerPage /\ board[j] = board[k]
            BY <1>2 DEF Passed
        <3>2. k \in DOMAIN board /\ Missed(k)'
            BY <1>2 DEF Passed
        <3>3. j = k
            BY <1>1, <3>1, <3>2 DEF PmOK, BoardOK, IsInjective
        <3>4. k <= PerPage
            BY <1>3, <2>1, <3>1, <3>3
        <3> QED
            BY <1>4, <3>2, <3>4
    <2> QED
        BY <1>1, <1>2, <2>1, <2>2, <2>3, FS_EmptySet DEF PmInv
<1>6. CASE ~Follows(pmPage, totalPages')
    <2>1. pmState' # "ask"
        BY <1>6 DEF PmReceive
    <2>2. Skipped' = {}
        <3> SUFFICES ASSUME NEW k \in Skipped'
                     PROVE  FALSE
            OBVIOUS
        <3>1. /\ k \in DOMAIN board /\ Missed(k)'
              /\ k + 0 <= Min({totalPages', PageLimit}) * PerPage
            BY <1>2 DEF Skipped
        <3>2. Min({totalPages', PageLimit}) \in {0, 1}
            BY <1>2, <1>6, LastPageNumber, ParamountAssumption DEF Follows
        <3>3. k <= PerPage
            BY <1>3, <3>1, <3>2
        <3> QED
            BY <1>4, <3>1, <3>3
    <2> QED
        BY <1>1, <1>2, <2>1, <2>2, FS_EmptySet DEF PmInv
<1> QED
    BY <1>5, <1>6

LEMMA LaterPage ==
    ASSUME PmInv, PmReceive, pmPage > 1
    PROVE  PmInv'
<1>1. PmOK /\ PmOK' /\ pmState = "ask"
    BY PmReceiveOK DEF PmInv, PmReceive
<1>2. UNCHANGED <<board, boardAsRead, posted, unposted, removals, totalPages>>
    BY <1>1 DEF PmReceive, PmOK
<1>3. /\ pmPage <= Min({totalPages, PageLimit}) /\ NotFarDown /\ Cardinality(Passed) <= removals
      /\ Min({totalPages, PageLimit}) \in Nat /\ PerPage \in Nat /\ pmPage \in Nat
      /\ removals \in Nat
    <2>1. Min({totalPages, PageLimit}) \in Nat
        BY <1>1, LastPageNumber, ParamountAssumption DEF PmOK
    <2>2. PerPage \in Nat /\ PageLimit \in Nat
        BY ParamountAssumption
    <2> QED
        BY <1>1, <2>1, <2>2 DEF PmInv, PmOK
<1>4. ASSUME NEW k \in DOMAIN boardAsRead, Missed(k)', NEW j \in DOMAIN board,
             board[j] = boardAsRead[k], j <= pmPage * PerPage
      PROVE  k \in Passed
    <2>1. Missed(k)
        <3>1. boardAsRead[k] \in Post
            BY <1>1 DEF PmOK
        <3> QED
            BY <1>1, <1>2, <1>4, <3>1, ReceiveTakes DEF Missed
    <2>2. j \in Nat /\ (pmPage - 1) * PerPage \in Int
        <3>1. board \in Seq(Post)
            BY <1>1 DEF PmOK, BoardOK
        <3>2. pmPage - 1 \in Int /\ PerPage \in Int
            BY <1>3
        <3>3. (pmPage - 1) * PerPage \in Int
            BY <3>2
        <3> QED
            BY <3>1, <3>3
    <2>3. j <= (pmPage - 1) * PerPage
        BY <1>1, <1>2, <1>4, <2>2, ReceiveTakes DEF Missed
    <2> QED
        BY <1>4, <2>1, <2>3 DEF Passed
<1>5. CASE Follows(pmPage, totalPages')
    <2>1. pmPage' = pmPage + 1 /\ pmState' = "ask" /\ pmPage' <= Min({totalPages', PageLimit})
        BY <1>1, <1>5 DEF PmReceive, Follows
    <2>2. Passed' \subseteq Passed
        <3>1. (pmPage' - 1) * PerPage = pmPage * PerPage
            BY <1>3, <2>1
        <3> QED
            BY <1>2, <1>4, <3>1 DEF Passed
    <2>3. Cardinality(Passed') <= removals'
        BY <1>1, <1>2, <1>3, <2>2, PassedFinite, OneMore
    <2>4. NotFarDown'
        BY <1>2, <1>3 DEF NotFarDown
    <2> QED
        BY <1>1, <2>1, <2>3, <2>4 DEF PmInv
<1>6. CASE ~Follows(pmPage, totalPages')
    <2>1. pmState' # "ask"
        BY <1>6 DEF PmReceive
    <2>2. Min({totalPages, PageLimit}) = pmPage
        BY <1>2, <1>3, <1>6 DEF Follows
    <2>3. Skipped' \subseteq Passed
        <3> SUFFICES ASSUME NEW k \in Skipped'
                     PROVE  k \in Passed
            OBVIOUS
        <3>1. k \in DOMAIN boardAsRead /\ Missed(k)' /\ k + posted <= pmPage * PerPage
            BY <1>2, <2>2 DEF Skipped
        <3>2. PICK j \in DOMAIN board : board[j] = boardAsRead[k] /\ j <= k + posted
            BY <1>2, <1>3, <3>1 DEF NotFarDown, Missed
        <3>3. j \in Int /\ k \in Int /\ posted \in Int
            BY <1>1, <3>1 DEF PmOK, BoardOK
        <3>4. pmPage * PerPage \in Int
            BY <1>3
        <3>5. j <= pmPage * PerPage
            BY <3>1, <3>2, <3>3, <3>4
        <3> QED
            BY <1>4, <3>1, <3>2, <3>5
    <2>4. Cardinality(Skipped') <= removals'
        BY <1>1, <1>2, <1>3, <2>3, PassedFinite, OneMore
    <2> QED
        BY <1>1, <2>1, <2>4 DEF PmInv
<1> QED
    BY <1>5, <1>6

LEMMA EditKeepsPmInv ==
    ASSUME PmInv, PmEdit
    PROVE  PmInv'
<1>1. /\ UNCHANGED <<progress, boardAsRead>>
      /\ \/ \E i \in Post \ ToSet(board) :
               board' = <<i>> \o board /\ posted' = posted + 1 /\ UNCHANGED <<unposted, removals>>
         \/ \E k \in DOMAIN board :
               /\ board' = RemoveAt(board, k)
               /\ unposted' = unposted \cup {board[k]} /\ removals' = removals + 1
               /\ UNCHANGED posted
    BY DEF PmEdit
<1>2. PmOK /\ BoardOK
    BY DEF PmInv, PmOK
<1>3. PmOK'
    <2>1. BoardOK'
        BY <1>1, <1>2, AddedInFront, RemovedAt DEF BoardOK
    <2>2. (posted' = posted + 1 /\ removals' = removals) \/ (posted' = posted /\ removals' = removals + 1)
        BY <1>1
    <2>3. posted' \in Nat /\ removals' \in Nat
        BY <1>2, <2>2 DEF PmOK
    <2>4. UNCHANGED <<pmState, pmPage, totalPages, taken, boardAsRead>>
        BY <1>1 DEF progress
    <2> QED
        BY <1>2, <2>1, <2>3, <2>4 DEF PmOK
<1>4. /\ unposted \subseteq unposted' /\ posted <= posted' /\ removals <= removals'
      /\ posted \in Nat /\ posted' \in Nat /\ removals \in Nat /\ removals' \in Nat
    <2>1. \/ posted' = posted + 1 /\ removals' = removals /\ unposted' = unposted
          \/ posted' = posted /\ removals' = removals + 1 /\ unposted \subseteq unposted'
        BY <1>1
    <2> QED
        BY <1>2, <2>1 DEF PmOK
<1>5. \A k \in DOMAIN boardAsRead : Missed(k)' => Missed(k)
    BY <1>1, <1>4 DEF Missed, progress
<1>6. pmState = "done" => Cardinality(Skipped') <= removals'
    <2> HAVE pmState = "done"
    <2>1. Min({totalPages, PageLimit}) \in Nat /\ PerPage \in Nat
        BY <1>2, LastPageNumber, ParamountAssumption DEF PmOK
    <2>2. Min({totalPages, PageLimit}) * PerPage \in Nat /\ DOMAIN boardAsRead \subseteq Nat
        BY <1>2, <2>1 DEF PmOK
    <2>3. Skipped' \subseteq Skipped
        <3> SUFFICES ASSUME NEW k \in Skipped'
                     PROVE  k \in Skipped
            OBVIOUS
        <3>1. /\ k \in DOMAIN boardAsRead /\ Missed(k)
              /\ k + posted' <= Min({totalPages, PageLimit}) * PerPage
            BY <1>1, <1>5 DEF Skipped, progress
        <3>2. k + posted <= Min({totalPages, PageLimit}) * PerPage
            BY <1>4, <2>2, <3>1
        <3> QED
            BY <3>1, <3>2 DEF Skipped
    <2>4. Cardinality(Skipped') <= Cardinality(Skipped) /\ Cardinality(Skipped) <= removals
        BY <1>2, <2>3, PassedFinite, FS_Subset DEF PmInv
    <2>5. Cardinality(Skipped') \in Nat /\ Cardinality(Skipped) \in Nat
        BY <1>2, <2>3, PassedFinite, OneMore
    <2> QED
        BY <1>4, <2>4, <2>5
<1>7. ASSUME pmState = "ask", pmPage > 1
      PROVE  NotFarDown' /\ Cardinality(Passed') <= removals'
    <2> DEFINE bound == (pmPage - 1) * PerPage
    <2>1. NotFarDown /\ Cardinality(Passed) <= removals
        BY <1>7 DEF PmInv
    <2>2. /\ DOMAIN boardAsRead \subseteq Nat /\ DOMAIN board \subseteq Nat /\ DOMAIN board' \subseteq Nat
          /\ bound \in Nat
        <3>1. pmPage - 1 \in Nat /\ PerPage \in Nat
            BY <1>2, <1>7, ParamountAssumption DEF PmOK
        <3>2. bound \in Nat
            BY <3>1
        <3>3. boardAsRead \in Seq(Post) /\ board \in Seq(Post) /\ board' \in Seq(Post)
            BY <1>2, <1>3 DEF PmOK, BoardOK
        <3> QED
            BY <3>2, <3>3
    <2>3. ASSUME NEW i \in Post \ ToSet(board), board' = <<i>> \o board, posted' = posted + 1,
                 UNCHANGED <<unposted, removals>>
          PROVE  NotFarDown' /\ Cardinality(Passed') <= removals'
        <3>1. /\ board'[1] = i
              /\ \A k \in DOMAIN board : k + 1 \in DOMAIN board' /\ board'[k + 1] = board[k]
              /\ \A k \in DOMAIN board' : k = 1 \/ (k - 1 \in DOMAIN board /\ board'[k] = board[k - 1])
            BY <1>2, <2>3, AddedInFront
        <3>2. NotFarDown'
            <4> SUFFICES ASSUME NEW k \in DOMAIN boardAsRead, boardAsRead[k] \notin unposted
                         PROVE  \E j \in DOMAIN board' : board'[j] = boardAsRead[k] /\ j <= k + posted'
                BY <1>1, <2>3 DEF NotFarDown
            <4>1. PICK j \in DOMAIN board : board[j] = boardAsRead[k] /\ j <= k + posted
                BY <2>1 DEF NotFarDown
            <4>2. j + 1 <= k + posted' /\ board'[j + 1] = boardAsRead[k] /\ j + 1 \in DOMAIN board'
                BY <1>4, <2>2, <2>3, <3>1, <4>1
            <4> QED
                BY <4>2
        <3>3. Passed' \subseteq Passed
            <4> SUFFICES ASSUME NEW k \in Passed'
                         PROVE  k \in Passed
                OBVIOUS
            <4>1. k \in DOMAIN boardAsRead /\ Missed(k)
                BY <1>1, <1>5 DEF Passed
            <4>2. PICK j \in DOMAIN board' : j <= bound /\ board'[j] = boardAsRead[k]
                BY <1>1 DEF Passed, progress
            <4>3. boardAsRead[k] \in ToSet(board)
                BY <2>1, <4>1 DEF NotFarDown, Missed, ToSet
            <4>4. j # 1
                BY <3>1, <4>2, <4>3
            <4>5. j - 1 \in DOMAIN board /\ board[j - 1] = boardAsRead[k]
                BY <3>1, <4>2, <4>4
            <4>6. j - 1 <= bound
                BY <2>2, <4>2
            <4> QED
                BY <4>1, <4>5, <4>6 DEF Passed
        <3>4. /\ Cardinality(Passed') <= Cardinality(Passed)
              /\ Cardinality(Passed') \in Nat /\ Cardinality(Passed) \in Nat
            BY <1>2, <3>3, PassedFinite, OneMore
        <3> QED
            BY <1>4, <2>1, <2>3, <3>2, <3>4
    <2>4. ASSUME NEW r \in DOMAIN board, board' = RemoveAt(board, r),
                 unposted' = unposted \cup {board[r]}, removals' = removals + 1, posted' = posted
          PROVE  NotFarDown' /\ Cardinality(Passed') <= removals'
        <3>1. /\ \A k \in DOMAIN board : /\ k < r => k \in DOMAIN board' /\ board'[k] = board[k]
                                         /\ k > r => k - 1 \in DOMAIN board' /\ board'[k - 1] = board[k]
              /\ \A k \in DOMAIN board' : \/ k < r /\ k \in DOMAIN board /\ board'[k] = board[k]
                                          \/ k >= r /\ k + 1 \in DOMAIN board /\ board'[k] = board[k + 1]
            BY <1>2, <2>4, RemovedAt
        <3>2. NotFarDown'
            <4> SUFFICES ASSUME NEW k \in DOMAIN boardAsRead, boardAsRead[k] \notin unposted'
                         PROVE  \E j \in DOMAIN board' : board'[j] = boardAsRead[k] /\ j <= k + posted'
                BY <1>1 DEF NotFarDown
            <4>1. PICK j \in DOMAIN board : board[j] = boardAsRead[k] /\ j <= k + posted
                BY <2>1, <2>4 DEF NotFarDown
            <4>2. j # r
                BY <2>4, <4>1
            <4>3. CASE j < r
                BY <2>4, <3>1, <4>1, <4>3
            <4>4. CASE j > r
                <5>1. j - 1 \in DOMAIN board' /\ board'[j - 1] = boardAsRead[k]
                    BY <3>1, <4>1, <4>4
                <5>2. j - 1 <= k + posted'
                    BY <1>4, <2>2, <2>4, <4>1
                <5> QED
                    BY <5>1, <5>2
            <4> QED
                BY <2>2, <4>2, <4>3, <4>4
        <3>3. ASSUME NEW k \in Passed'
              PROVE  k \in DOMAIN boardAsRead /\ (k \in Passed \/ boardAsRead[k] = board[bound + 1])
            <4>1. k \in DOMAIN boardAsRead /\ Missed(k)
                BY <1>1, <1>5 DEF Passed
            <4>2. PICK j \in DOMAIN board' : j <= bound /\ board'[j] = boardAsRead[k]
                BY <1>1 DEF Passed, progress
            <4>3. CASE j < r /\ j \in DOMAIN board /\ board'[j] = board[j]
                BY <4>1, <4>2, <4>3 DEF Passed
            <4>4. CASE j >= r /\ j + 1 \in DOMAIN board /\ board'[j] = board[j + 1]
                <5>1. CASE j + 1 <= bound
                    BY <4>1, <4>2, <4>4, <5>1 DEF Passed
                <5>2. CASE ~(j + 1 <= bound)
                    <6>1. j = bound
                        BY <2>2, <4>2, <5>2
                    <6> QED
                        BY <4>1, <4>2, <4>4, <6>1
                <5> QED
                    BY <5>1, <5>2
            <4> QED
                BY <3>1, <4>2, <4>3, <4>4
        <3>4. \E x : Passed' \subseteq Passed \cup {x}
            <4>1. CASE \E k \in Passed' : boardAsRead[k] = board[bound + 1]
                <5>1. PICK x \in Passed' : boardAsRead[x] = board[bound + 1]
                    BY <4>1
                <5>2. \A k \in Passed' : k \in Passed \/ k = x
                    BY <1>2, <3>3, <5>1 DEF PmOK, IsInjective
                <5> QED
                    BY <5>2
            <4>2. CASE ~(\E k \in Passed' : boardAsRead[k] = board[bound + 1])
                BY <3>3, <4>2
            <4> QED
                BY <4>1, <4>2
        <3>5. PICK x : Passed' \subseteq Passed \cup {x}
            BY <3>4
        <3>6. Cardinality(Passed') <= Cardinality(Passed) + 1 /\ Cardinality(Passed') \in Nat
              /\ Cardinality(Passed) \in Nat
            BY <1>2, <3>5, PassedFinite, OneMore
        <3> QED
            BY <1>4, <2>1, <2>4, <3>2, <3>6
    <2> QED
        BY <1>1, <2>3, <2>4
<1>8. UNCHANGED <<pmState, pmPage, totalPages>>
    BY <1>1 DEF progress
<1> QED
    BY <1>3, <1>6, <1>7, <1>8 DEF PmInv

LEMMA PmInvStep ==
    ASSUME PmInv, [Next]_vars
    PROVE  PmInv'
<1>1. CASE PmFetch
    <2>1. PmOK'
        <3>1. << >> \in Seq(Post) /\ IsInjective(<< >>) /\ PageLimit \in Nat \ {0}
            BY ParamountAssumption DEF IsInjective
        <3> QED
            BY <1>1, <3>1 DEF PmFetch, PmInv, PmOK, BoardOK
    <2> QED
        BY <1>1, <2>1 DEF PmFetch, PmInv
<1>2. CASE PmReceive
    <2>1. pmPage = 1 \/ pmPage > 1
        BY DEF PmInv, PmOK
    <2> QED
        BY <1>2, <2>1, FirstPage, LaterPage
<1>3. ASSUME NEW how \in {"failed", "drift"}, PmFails(how)
      PROVE  PmInv'
    <2>1. PmOK'
        BY <1>3 DEF PmFails, PmInv, PmOK, BoardOK
    <2> QED
        BY <1>3, <2>1 DEF PmFails, PmInv
<1>4. CASE PmEdit
    BY <1>4, EditKeepsPmInv
<1>5. CASE UNCHANGED pmVars
    <2>1. /\ UNCHANGED <<pmState, pmPage, totalPages, posted, removals, boardAsRead, taken, board>>
          /\ unposted' = unposted
        BY <1>5 DEF pmVars, progress
    <2>2. PmOK' /\ (NotFarDown' <=> NotFarDown)
        BY <2>1 DEF PmInv, PmOK, BoardOK, NotFarDown
    <2>3. Passed' = Passed /\ Skipped' = Skipped
        BY <2>1 DEF Passed, Skipped, Missed
    <2> QED
        BY <2>1, <2>2, <2>3 DEF PmInv
<1> QED
    BY <1>1, <1>2, <1>3, <1>4, <1>5 DEF Next, PmNext, PmRequest, vars

LEMMA PmInvIsEnough == PmInv => PagesAreComplete
<1> SUFFICES ASSUME PmInv, pmState = "done"
             PROVE  PagesAreComplete
    BY DEF PagesAreComplete
<1> DEFINE reach == Min({totalPages, PageLimit}) * PerPage
           due == {k \in DOMAIN boardAsRead :
                       /\ boardAsRead[k] \notin unposted
                       /\ MapPost(boardAsRead[k]) # Absent
                       /\ k + posted <= reach}
           skipped == {k \in due : taken[boardAsRead[k]] = Absent}
<1>1. skipped = Skipped
    BY DEF Skipped, Missed
<1>2. Cardinality(skipped) <= removals
    BY <1>1 DEF PmInv
<1>3. ASSUME NEW i \in Post, taken[i] # Absent, "sold-out" \in ToSet(PostAbout[i].tags)
      PROVE  taken[i].status = "sold_out"
    <2>1. taken[i] = MapPost(i)
        BY <1>3 DEF PmInv, PmOK
    <2>2. taken[i].status = TagStatus(PostAbout[i].tags)
        BY <1>3, <2>1 DEF MapPost
    <2> QED
        BY <1>3, <2>2, SoldOutWins
<1> QED
    BY <1>2, <1>3 DEF PagesAreComplete

\* A Paramount fetch that ends well has every post that was listed throughout and that its
\* pages reach, but for one post per removal, and no sold-out post as anything else
\* (paramount.py:99-122, 206-235): for any number of pages and posts, and any edits of the
\* listing between the requests.
THEOREM PagesAreRead == Spec => []PagesAreComplete
<1>1. Init => PmInv
    BY PmInvInit DEF Init
<1> QED
    BY <1>1, PmInvStep, PmInvIsEnough, PTL DEF Spec

-----------------------------------------------------------------------------
(* Types.                                                                  *)

Page(u) == IF u = "store" THEN StorePage ELSE FilmPage

BuOK ==
    /\ site \in [Url -> StorePage \cup FilmPage] /\ \A u \in Url : site[u] \in Page(u)
    /\ validator = [u \in Url |-> validator[u]]
    /\ \A u \in Url : validator[u] \in Page(u) \cup {Missing}
    /\ before = [u \in Url |-> before[u]]
    /\ \A u \in Url : before[u] \in Page(u) \cup {Missing}
    /\ buPc = "again_store" => copy["store"] = Missing
    /\ buPc = "again_films" => copy["store"] # Missing /\ copy["films"] = Missing

LEMMA BuInitOK == BuInit => BuOK
<1> SUFFICES ASSUME BuInit PROVE BuOK
    OBVIOUS
<1>1. /\ (CHOOSE page_1 \in StorePage : TRUE) \in StorePage
      /\ (CHOOSE page_1 \in FilmPage : TRUE) \in FilmPage
    BY BullockAssumption
<1> QED
    BY <1>1 DEF BuInit, BuOK, Url, Page, Nothing

LEMMA BuStepOK ==
    ASSUME BuOK, NEW copies, NEW stored, BuStep(copies, stored),
           stored = validator \/ stored = [validator EXCEPT ![Asked] = site[Asked]]
    PROVE  BuOK'
<1>1. Asked \in Url
    BY DEF Asked, Url
<1>2. /\ stored = [u \in Url |-> stored[u]]
      /\ \A u \in Url : stored[u] \in Page(u) \cup {Missing}
    BY <1>1 DEF BuOK
<1>3. validator' = before \/ validator' = stored
    BY DEF BuStep
<1>4. /\ buPc' = "again_store" => copies["store"] = Missing
      /\ buPc' = "again_films" => copies["store"] # Missing /\ copies["films"] = Missing
    <2>1. buPc' \in {"drift", "failed", After(copies, buPc)}
        BY DEF BuStep
    <2>2. /\ After(copies, buPc) = "again_store" => copies["store"] = Missing
          /\ After(copies, buPc) = "again_films" => copies["store"] # Missing /\ copies["films"] = Missing
        BY DEF After
    <2> QED
        BY <2>1, <2>2
<1>5. copy' = copies /\ site' = site /\ before' = before
    BY DEF BuStep
<1>6. /\ validator' = [u \in Url |-> validator'[u]]
      /\ \A u \in Url : validator'[u] \in Page(u) \cup {Missing}
    BY <1>2, <1>3 DEF BuOK
<1> QED
    BY <1>4, <1>5, <1>6 DEF BuOK

LEMMA BuOKStep ==
    ASSUME BuOK, [Next]_vars
    PROVE  BuOK'
<1>1. CASE BuFetch
    BY <1>1 DEF BuFetch, BuOK
<1>2. CASE BuUnchanged
    BY <1>2, BuStepOK DEF BuUnchanged
<1>3. ASSUME NEW sent \in BOOLEAN, BuReceive(sent)
      PROVE  BuOK'
    BY <1>3, BuStepOK DEF BuReceive
<1>4. CASE BuError
    BY <1>4 DEF BuError, BuOK
<1>5. CASE BuEdit
    <2>1. UNCHANGED <<validator, before, buPc, copy>>
        BY <1>5 DEF BuEdit
    <2>2. site' \in [Url -> StorePage \cup FilmPage] /\ \A u \in Url : site'[u] \in Page(u)
        BY <1>5 DEF BuEdit, BuOK, Url, Page
    <2> QED
        BY <2>1, <2>2 DEF BuOK
<1>6. CASE UNCHANGED buVars
    BY <1>6 DEF buVars, BuOK
<1> QED
    BY <1>1, <1>2, <1>3, <1>4, <1>5, <1>6 DEF Next, BuNext, BuRequest, vars

LEMMA WalkTypesInit == WalkInit => WalkTypeOK
<1> SUFFICES ASSUME WalkInit PROVE WalkTypeOK
    OBVIOUS
<1>1. {MaxPages, PageSize, Cap} \subseteq Nat \ {0} /\ Retries \in Nat
    BY WalkAssumption
<1>2. 0 * PageSize = 0
    BY <1>1
<1> QED
    BY <1>1, <1>2, WindowCount DEF WalkInit, WalkTypeOK

LEMMA WalkTypesStep ==
    ASSUME ReadInv, WalkTypeOK, [Next]_vars
    PROVE  WalkTypeOK'
<1>1. /\ MaxPages \in Nat \ {0} /\ PageSize \in Nat \ {0} /\ Cap \in Nat \ {0} /\ Retries \in Nat
      /\ 0 * PageSize = 0
    BY WalkAssumption
<1>2. WalkOK /\ (WalkNext \/ UNCHANGED walkVars)
    BY DEF ReadInv, Next, vars
<1>3. CASE WalkNext
    <2>1. WalkOK'
        BY <1>2, <1>3, WalkOKStep
    <2>2. CASE Receive
        <3>1. received' \in Nat
            <4>1. PageOf(segment, window, page) \subseteq Matches(listed, segment, window)
                BY DEF PageOf
            <4>2. Cardinality(PageOf(segment, window, page)) \in Nat
                BY <4>1, MatchesFinite
            <4> QED
                BY <2>2, <4>2 DEF Receive, WalkTypeOK
        <3>2. page' \in 0..(MaxPages - 1) /\ page' * PageSize < Cap /\ attempt' = 0
            <4>1. \/ page' = 0
                  \/ /\ page' = page + 1
                     /\ ~LastPage(page, PageOf(segment, window, page), Cardinality(Matches(listed, segment, window)))
                BY <2>2 DEF Receive, Advance
            <4>2. page \in Nat /\ page + 1 \in Nat /\ (page + 1) * PageSize \in Nat
                BY <1>1, PageNumbers DEF WalkTypeOK
            <4>3. attempt' = 0
                BY <2>2 DEF Receive, Advance
            <4>4. CASE page' = 0
                BY <1>1, <4>3, <4>4
            <4>5. ASSUME page' = page + 1,
                         ~LastPage(page, PageOf(segment, window, page), Cardinality(Matches(listed, segment, window)))
                  PROVE  page' \in 0..(MaxPages - 1) /\ page' * PageSize < Cap
                <5>1. ~(page + 1 >= MaxPages) /\ ~((page + 1) * PageSize >= Cap)
                    BY <4>5 DEF LastPage
                <5> QED
                    BY <1>1, <4>2, <4>5, <5>1
            <4> QED
                BY <4>1, <4>3, <4>4, <4>5
        <3>3. /\ listed' \in [Item -> Dates \cup {None}] /\ collected' \in [Item -> Dates \cup {None}]
              /\ state' \in {"idle", "ask", "done", "failed", "drift"}
              /\ segment' \in 1..Len(Segments) /\ window' \in 1..Len(Windows)
            BY <2>1 DEF WalkOK, ListingOK
        <3>4. attempt' \in 0..Retries
            BY <1>1, <3>2
        <3> QED
            BY <3>1, <3>2, <3>3, <3>4, Zenon DEF WalkTypeOK
    <2>3. CASE Fetch
        BY <1>1, <2>1, <2>3 DEF Fetch, WalkOK, ListingOK, WalkTypeOK
    <2>4. CASE RateLimited \/ Error
        <3>1. UNCHANGED <<segment, window, page, received>> /\ (attempt' \in {0, attempt}
                \/ (attempt < Retries /\ attempt' = attempt + 1))
            BY <2>4 DEF RateLimited, Error, query, harvest
        <3>2. attempt' \in 0..Retries
            BY <1>1, <3>1 DEF WalkTypeOK
        <3> QED
            BY <2>1, <3>1, <3>2 DEF WalkOK, ListingOK, WalkTypeOK
    <2>5. ASSUME NEW i \in Item, NEW day \in Dates \cup {None}, Change(i, day)
          PROVE  WalkTypeOK'
        BY <2>1, <2>5 DEF Change, query, WalkOK, ListingOK, WalkTypeOK
    <2> QED
        BY <1>3, <2>2, <2>3, <2>4, <2>5 DEF WalkNext, Request
<1>4. CASE UNCHANGED walkVars
    BY <1>4 DEF walkVars, query, harvest, WalkTypeOK
<1> QED
    BY <1>2, <1>3, <1>4

LEMMA PageHolds ==
    ASSUME PmOK, NEW p \in Nat \ {0}
    PROVE  /\ IsFiniteSet(PostsOf(board, p))
           /\ Cardinality(PostsOf(board, p)) \in Nat
           /\ Cardinality(PostsOf(board, p)) <= PerPage
<1> DEFINE a == (p - 1) * PerPage
           b == p * PerPage
           K == {k \in DOMAIN board : a < k /\ k <= b}
           f == [k \in K |-> board[k]]
<1>1. PerPage \in Nat /\ a \in Int /\ b \in Int /\ b = a + PerPage
    BY ParamountAssumption
<1>2. DOMAIN board \subseteq Int
    BY DEF PmOK, BoardOK
<1>3. IsFiniteSet((a + 1)..b) /\ Cardinality((a + 1)..b) <= PerPage
    <2>1. a + 1 \in Int
        BY <1>1
    <2> HIDE DEF a, b
    <2>2. /\ IsFiniteSet((a + 1)..b)
          /\ Cardinality((a + 1)..b) = IF a + 1 > b THEN 0 ELSE b - (a + 1) + 1
        BY <1>1, <2>1, FS_Interval
    <2> QED
        BY <1>1, <2>2
<1>4. IsFiniteSet(K) /\ Cardinality(K) <= PerPage /\ Cardinality(K) \in Nat
    <2>1. K \subseteq (a + 1)..b
        <3> HIDE DEF a, b
        <3> QED
            BY <1>1, <1>2
    <2> HIDE DEF a, b, K
    <2>2. /\ IsFiniteSet(K) /\ Cardinality(K) <= Cardinality((a + 1)..b)
          /\ Cardinality(K) \in Nat /\ Cardinality((a + 1)..b) \in Nat
        BY <1>3, <2>1, FS_Subset, FS_CardinalityType
    <2> QED
        BY <1>1, <1>3, <2>2
<1>5. PostsOf(board, p) = {board[k] : k \in K}
    BY DEF PostsOf
<1>6. f \in Surjection(K, PostsOf(board, p))
    <2> HIDE DEF K
    <2> QED
        BY <1>5 DEF Surjection
<1> HIDE DEF f, K
<1>7. /\ IsFiniteSet(PostsOf(board, p))
      /\ Cardinality(PostsOf(board, p)) <= Cardinality(K)
    BY <1>4, <1>6, FS_Surjection DEF ExistsSurjection
<1>8. Cardinality(PostsOf(board, p)) \in Nat
    BY <1>7, FS_CardinalityType
<1> QED
    BY <1>1, <1>4, <1>7, <1>8

\* Every page read so far has at most PerPage posts.
PmCount ==
    /\ returned \in Nat /\ totalPages \in Nat
    /\ pmState = "ask" => /\ returned <= (pmPage - 1) * PerPage
                          /\ pmPage > 1 => pmPage <= totalPages
    /\ returned <= totalPages * PerPage

LEMMA PmCountReceive ==
    ASSUME PmOK, PmCount, PmReceive
    PROVE  PmCount'
<1> DEFINE n == Cardinality(PostsOf(board, pmPage))
<1>1. PmOK' /\ pmState = "ask" /\ PerPage \in Nat \ {0} /\ pmPage \in Nat \ {0} /\ PageLimit \in Nat
    BY PmReceiveOK, ParamountAssumption DEF PmReceive, PmOK
<1>2. n \in Nat /\ n <= PerPage /\ returned' = returned + n
    BY <1>1, PageHolds DEF PmReceive
<1>3. /\ (pmPage - 1) * PerPage \in Nat /\ pmPage * PerPage = (pmPage - 1) * PerPage + PerPage
      /\ pmPage * PerPage \in Nat
    BY <1>1
<1>4. returned' \in Nat /\ returned' <= pmPage * PerPage
    BY <1>1, <1>2, <1>3 DEF PmCount
<1>5. totalPages' \in Nat
    BY <1>1 DEF PmOK
<1>6. pmPage <= totalPages' \/ (pmPage = 1 /\ totalPages' = 0 /\ n = 0 /\ returned = 0)
    <2>1. CASE pmPage > 1
        BY <1>1, <2>1 DEF PmCount, PmReceive
    <2>2. CASE pmPage = 1 /\ totalPages' # 0
        BY <1>5, <2>2
    <2>3. CASE pmPage = 1 /\ totalPages' = 0
        <3>1. Len(board) \in Nat /\ (Len(board) + PerPage - 1) \div PerPage = 0
            BY <1>1, <2>3 DEF PmOK, BoardOK, PmReceive, PagesOf
        <3>2. Len(board) = 0
            BY <1>1, <3>1
        <3>3. DOMAIN board = {}
            BY <3>2 DEF PmOK, BoardOK
        <3>4. PostsOf(board, pmPage) = {}
            BY <3>3 DEF PostsOf
        <3>5. n = 0
            BY <3>4, FS_EmptySet
        <3>6. returned = 0
            BY <1>1, <2>3 DEF PmCount
        <3> QED
            BY <2>3, <3>5, <3>6
    <2> QED
        BY <1>1, <2>1, <2>2, <2>3
<1>7. returned' <= totalPages' * PerPage
    <2>1. CASE pmPage <= totalPages'
        <3>1. pmPage * PerPage <= totalPages' * PerPage /\ totalPages' * PerPage \in Nat
            <4>1. \A x, y, z \in Nat : x <= y => x * z <= y * z /\ y * z \in Nat
                <5> SUFFICES ASSUME NEW x \in Nat, NEW y \in Nat, NEW z \in Nat, x <= y
                             PROVE  x * z <= y * z /\ y * z \in Nat
                    OBVIOUS
                <5>1. (y - x) \in Nat /\ (y - x) * z \in Nat /\ y * z = x * z + (y - x) * z
                    OBVIOUS
                <5>2. x * z \in Nat /\ y * z \in Nat
                    OBVIOUS
                <5> QED
                    BY <5>1, <5>2
            <4> QED
                BY <1>1, <1>5, <2>1, <4>1
        <3> QED
            BY <1>3, <1>4, <3>1
    <2>2. CASE pmPage = 1 /\ totalPages' = 0 /\ n = 0 /\ returned = 0
        <3>1. returned' = 0 /\ totalPages' * PerPage = 0
            BY <1>1, <1>2, <2>2
        <3> QED
            BY <3>1
    <2> QED
        BY <1>6, <2>1, <2>2
<1>8. CASE Follows(pmPage, totalPages')
    <2>1. pmPage' = pmPage + 1 /\ pmPage' - 1 = pmPage
        BY <1>1, <1>8 DEF PmReceive
    <2>2. pmPage' <= totalPages'
        <3>1. Min({totalPages', PageLimit}) = IF totalPages' <= PageLimit THEN totalPages' ELSE PageLimit
            BY <1>5, LastPageNumber
        <3> QED
            BY <1>1, <1>5, <1>8, <2>1, <3>1 DEF Follows
    <2> QED
        BY <1>4, <1>5, <1>7, <2>1, <2>2 DEF PmCount
<1>9. CASE ~Follows(pmPage, totalPages')
    <2>1. pmState' # "ask"
        BY <1>9 DEF PmReceive
    <2> QED
        BY <1>4, <1>5, <1>7, <2>1 DEF PmCount
<1> QED
    BY <1>8, <1>9

LEMMA PmCountStep ==
    ASSUME PmOK, PmCount, [Next]_vars
    PROVE  PmCount'
<1>1. CASE PmReceive
    BY <1>1, PmCountReceive
<1>2. CASE PmFetch
    <2>1. (1 - 1) * PerPage = 0 /\ 1 * PerPage \in Nat
        BY ParamountAssumption
    <2> QED
        BY <1>2, <2>1 DEF PmFetch, PmCount
<1>3. ASSUME NEW how \in {"failed", "drift"}, PmFails(how)
      PROVE  PmCount'
    BY <1>3 DEF PmFails, PmCount
<1>4. CASE PmEdit \/ UNCHANGED pmVars
    <2>1. UNCHANGED <<pmState, pmPage, totalPages, returned>>
        BY <1>4 DEF PmEdit, pmVars, progress
    <2> QED
        BY <2>1 DEF PmCount
<1> QED
    BY <1>1, <1>2, <1>3, <1>4 DEF Next, PmNext, PmRequest, vars

\* The variables of the three collectors keep their types; a page is asked for within every
\* limit, and Bullock reads a page again only if it has none of it (ticketmaster.py:400-403,
\* paramount.py:212, bullock_imax.py:151-158).
THEOREM ReadersTypeCorrect == Spec => []TypeOK
<1> DEFINE Inv == ReadInv /\ WalkTypeOK /\ PmInv /\ PmCount /\ BuOK
<1>1. Init => Inv
    <2> SUFFICES ASSUME Init PROVE Inv
        OBVIOUS
    <2>1. PmCount
        <3>1. (1 - 1) * PerPage = 0 /\ 1 * PerPage \in Nat
            BY ParamountAssumption
        <3> QED
            BY <3>1 DEF Init, PmInit, PmCount
    <2> QED
        BY <2>1, ReadInvInit, WalkTypesInit, PmInvInit, BuInitOK DEF Init
<1>2. Inv /\ [Next]_vars => Inv'
    BY ReadInvStep, WalkTypesStep, PmInvStep, PmCountStep, BuOKStep DEF PmInv
<1>3. Inv => TypeOK
    <2> SUFFICES ASSUME Inv PROVE TypeOK
        OBVIOUS
    <2>1. validator["store"] \in StorePage \cup {Missing} /\ validator["films"] \in FilmPage \cup {Missing}
        BY DEF BuOK, Url, Page
    <2> QED
        BY <2>1 DEF TypeOK, PmInv, PmOK, BoardOK, PmCount, BuOK
<1> HIDE DEF Inv
<1> QED
    BY <1>1, <1>2, <1>3, PTL DEF Spec

-----------------------------------------------------------------------------
(* The dates of the museum's films.                                        *)

\* What the fetch says of a film whose card prints that run.
Kept(run, dates, said) ==
    \/ said = run
    \/ /\ said = [run EXCEPT !.start = Missing]
       /\ dates[1] = [day |-> LeapDay, year |-> Missing]
       /\ run.start.year < run.end.year

LEMMA OnlyOne ==
    ASSUME NEW i \in Int
    PROVE  Min({i}) = i /\ Max({i}) = i
  BY DEF Min, Max

\* The first and the last part of a range with its years.
LEMMA DatesOfAPrint ==
    ASSUME NEW run, NEW dates, PrintedAs(run, dates), dates # << >>,
           DateRange(dates).start # Missing => Exists(DateRange(dates).start)
    PROVE  Kept(run, dates, DateRange(dates))
<1> DEFINE D == [day : Nat, year : Int]
<1>d. Missing \notin Int /\ Missing \notin D
    BY MuseumAssumption
<1>1. CASE Date(run.start) /\ run = [start |-> run.start, end |-> Missing] /\ dates = <<run.start>>
    <2>1. run.start \in D /\ Exists(run.start)
        BY <1>1 DEF Date
    <2>2. Dated(dates) = {1} /\ Len(dates) = 1 /\ dates[1] = run.start
        BY <1>1, <1>d, <2>1 DEF Dated
    <2>3. Build(run.start, run.start.year) = run.start
        BY <1>d, <2>1 DEF Build
    <2>4. Min(Dated(dates)) = 1 /\ ~(Len(dates) > 1)
        BY <2>2, OnlyOne
    <2>5. DateRange(dates) = [start |-> run.start, end |-> Missing]
        BY <2>2, <2>3, <2>4 DEF DateRange
    <2> QED
        BY <1>1, <2>5 DEF Kept
<1>2. CASE /\ Date(run.start) /\ Date(run.end) /\ run = [start |-> run.start, end |-> run.end]
           /\ ~Precedes(run.end, run.start)
           /\ dates = <<run.start, run.end>>
    <2>1. run.start \in D /\ Exists(run.start) /\ run.end \in D /\ Exists(run.end)
        BY <1>2 DEF Date
    <2>2. Dated(dates) = {1, 2} /\ Len(dates) = 2 /\ dates[1] = run.start /\ dates[2] = run.end
        BY <1>2, <1>d, <2>1 DEF Dated
    <2>3. \A year : Build(run.start, year) = run.start /\ Build(run.end, year) = run.end
        BY <1>d, <2>1 DEF Build
    <2>4. Last(dates) = run.end
        BY <2>2 DEF Last
    <2>5. DateRange(dates) = [start |-> run.start, end |-> run.end]
        BY <1>2, <2>2, <2>3, <2>4 DEF DateRange
    <2> QED
        BY <1>2, <2>5 DEF Kept
<1>3. CASE /\ Date(run.start) /\ Date(run.end) /\ run = [start |-> run.start, end |-> run.end]
           /\ ~Precedes(run.end, run.start)
           /\ dates = <<[day |-> run.start.day, year |-> Missing], run.end>>
           /\ \A year \in (run.start.year + 1)..run.end.year :
                  LET later == [day |-> run.start.day, year |-> year]
                  IN Exists(later) => Precedes(run.end, later)
    <2> DEFINE y == run.end.year
               s == [day |-> run.start.day, year |-> y]
    <2>1. run.start \in D /\ Exists(run.start) /\ run.end \in D /\ Exists(run.end)
        BY <1>3 DEF Date
    <2>2. /\ Dated(dates) = {2} /\ Len(dates) = 2 /\ dates[2] = run.end
          /\ dates[1] = [day |-> run.start.day, year |-> Missing]
        BY <1>3, <1>d, <2>1 DEF Dated
    <2>3. /\ Build(run.end, y) = run.end
          /\ Build(dates[1], y) = IF Exists(s) THEN s ELSE Missing
        BY <1>d, <2>1, <2>2 DEF Build
    <2>4. Last(dates) = run.end
        BY <2>2 DEF Last
    <2>5. s \in D /\ y \in Int /\ run.start.year \in Int /\ run.start.day \in Nat
        BY <2>1
    <2>6. run.start.year <= y
        BY <1>3, <2>1, <2>5 DEF Precedes
    <2>7. Min(Dated(dates)) = 2 /\ Max(Dated(dates)) = 2
        BY <2>2, OnlyOne
    <2>8. CASE ~Exists(s)
        <3>1. DateRange(dates) = [start |-> Missing, end |-> run.end]
            BY <1>d, <2>2, <2>3, <2>4, <2>7, <2>8 DEF DateRange
        <3>2. DateRange(dates) = [run EXCEPT !.start = Missing]
            BY <1>3, <3>1
        <3>3. run.start.day = LeapDay /\ run.start.year # y
            BY <2>1, <2>8 DEF Exists
        <3> QED
            BY <2>2, <2>5, <2>6, <3>2, <3>3 DEF Kept
    <2>9. CASE Exists(s) /\ ~Precedes(run.end, s)
        <3>1. DateRange(dates) = [start |-> s, end |-> run.end]
            BY <1>d, <2>1, <2>2, <2>3, <2>4, <2>5, <2>7, <2>9 DEF DateRange
        <3>2. run.start.year = y
            BY <1>3, <2>5, <2>6, <2>9
        <3>3. run.start = s
            BY <2>1, <3>2
        <3> QED
            BY <1>3, <3>1, <3>3 DEF Kept
    <2>10. CASE Exists(s) /\ Precedes(run.end, s)
        <3> DEFINE moved == [s EXCEPT !.year = run.end.year - 1]
        <3>1. DateRange(dates) = [start |-> moved, end |-> run.end]
            BY <1>d, <2>1, <2>2, <2>3, <2>4, <2>5, <2>7, <2>10 DEF DateRange
        <3>2. moved = [day |-> run.start.day, year |-> y - 1] /\ moved \in D
            BY <2>5
        <3>3. Exists(moved)
            BY <1>d, <3>1, <3>2
        <3>4. run.end.day < run.start.day
            BY <2>1, <2>5, <2>10 DEF Precedes
        <3>5. run.start.year # y
            BY <1>3, <2>1, <2>5, <3>4 DEF Precedes
        <3>6. ~Precedes(run.end, moved)
            BY <2>5, <3>2 DEF Precedes
        <3>7. ASSUME run.start.year # y - 1
              PROVE  FALSE
            <4>1. y - 1 \in (run.start.year + 1)..y
                BY <2>5, <2>6, <3>5, <3>7
            <4> QED
                BY <1>3, <3>2, <3>3, <3>6, <4>1
        <3>8. run.start = moved
            BY <2>1, <3>2, <3>7
        <3> QED
            BY <1>3, <3>1, <3>8 DEF Kept
    <2> QED
        BY <2>8, <2>9, <2>10
<1> QED
    BY <1>1, <1>2, <1>3 DEF PrintedAs, NoRange

\* The card of a title is a card with that title.
LEMMA CardIs ==
    ASSUME NEW cards, Len(cards) \in Nat, NEW title, Card(cards, title) # 0
    PROVE  Card(cards, title) \in 1..Len(cards)
<1> DEFINE I == {i \in 1..Len(cards) : cards[i].title = title}
<1>1. Card(cards, title) = IF I # {} THEN Max(I) ELSE 0
    BY Zenon DEF Card, SelectLastInSeq
<1>2. I \subseteq 1..Len(cards)
    OBVIOUS
<1> HIDE DEF I
<1> QED
    BY <1>1, <1>2, GreatestUpTo

\* A fetch that ended well made its films of the cards it read, and no date among them raised.
FilmsAreRead ==
    /\ copy["films"] \in FilmPage \cup {Missing}
    /\ site["films"] \in FilmPage
    /\ buPc = "idle" /\ copy["films"] # Missing =>
        /\ \E links : films = Engagements(links, copy["films"])
        /\ \A film \in films : film.dates.start # Missing => Exists(film.dates.start)

LEMMA FilmsAreReadInit == BuOK /\ BuInit => FilmsAreRead
<1>1. "films" \in Url /\ "films" # "store"
    BY DEF Url
<1> QED
    BY <1>1 DEF BuInit, BuOK, FilmsAreRead, Url, Page, Nothing

LEMMA BuStepReads ==
    ASSUME FilmsAreRead, NEW copies, NEW stored, BuStep(copies, stored),
           copies["films"] \in FilmPage \cup {Missing}
    PROVE  FilmsAreRead'
<1> DEFINE pc == After(copies, buPc)
           found == IF pc = "idle" THEN Engagements(copies["store"], copies["films"]) ELSE {}
           raises == \E film \in found : film.dates.start # Missing /\ ~Exists(film.dates.start)
           ended == CASE pc = "idle" /\ found = {} -> "drift"
                      [] raises -> "failed"
                      [] OTHER -> pc
<1>1. /\ copy' = copies /\ site' = site
      /\ buPc' = ended
      /\ films' = IF ended = "idle" THEN found ELSE films
    BY Zenon DEF BuStep
<1>2. ASSUME ended = "idle"
      PROVE  pc = "idle" /\ ~raises
    <2> HIDE DEF pc, found, raises
    <2>1. ended \in {"drift", "failed"} \/ (ended = pc /\ ~raises)
        OBVIOUS
    <2> QED
        BY <1>2, <2>1
<1>3. ASSUME buPc' = "idle"
      PROVE  /\ \E links : films' = Engagements(links, copies["films"])
             /\ \A film \in films' : film.dates.start # Missing => Exists(film.dates.start)
    <2>1. pc = "idle" /\ ~raises /\ films' = found
        <3> HIDE DEF pc, found, raises, ended
        <3> QED
            BY <1>1, <1>2, <1>3
    <2>2. found = Engagements(copies["store"], copies["films"])
        BY <2>1
    <2> HIDE DEF found
    <2> QED
        BY <2>1, <2>2
<1> QED
    BY <1>1, <1>3 DEF FilmsAreRead

LEMMA FilmsAreReadStep ==
    ASSUME BuOK, FilmsAreRead, [Next]_vars
    PROVE  FilmsAreRead'
<1>1. CASE BuFetch
    BY <1>1 DEF BuFetch, FilmsAreRead, Nothing, Url
<1>2. CASE BuUnchanged
    BY <1>2, BuStepReads DEF BuUnchanged, FilmsAreRead
<1>3. ASSUME NEW sent \in BOOLEAN, BuReceive(sent)
      PROVE  FilmsAreRead'
    <2> DEFINE copies == [copy EXCEPT ![Asked] = site[Asked]]
    <2>1. copies["films"] \in {copy["films"], site["films"]}
        BY DEF Asked
    <2>2. copies["films"] \in FilmPage \cup {Missing}
        BY <2>1 DEF FilmsAreRead
    <2> HIDE DEF copies
    <2>3. BuStep(copies, IF sent THEN [validator EXCEPT ![Asked] = site[Asked]] ELSE validator)
        BY <1>3 DEF BuReceive, copies
    <2> QED
        BY <2>2, <2>3, BuStepReads
<1>4. CASE BuError
    BY <1>4 DEF BuError, FilmsAreRead
<1>5. CASE BuEdit
    BY <1>5 DEF BuEdit, FilmsAreRead, BuOK, Url
<1>6. CASE UNCHANGED buVars
    BY <1>6 DEF buVars, FilmsAreRead
<1> QED
    BY <1>1, <1>2, <1>3, <1>4, <1>5, <1>6 DEF Next, BuNext, BuRequest, vars

\* Every film of a fetch has the dates of its run, however the museum prints it: the year
\* that is not printed is the right one, also over the new year, and only the start of a run
\* from a February 29 into another year is lost (bullock_imax.py:41-70, 164-175).
THEOREM FilmsKeepTheirDates == Spec => []RunsKeepTheirDates
<1> DEFINE Inv == BuOK /\ FilmsAreRead
<1>1. Init => Inv
    BY BuInitOK, FilmsAreReadInit DEF Init
<1>2. Inv /\ [Next]_vars => Inv'
    BY BuOKStep, FilmsAreReadStep
<1>3. Inv => RunsKeepTheirDates
    <2> SUFFICES ASSUME Inv, buPc = "idle", copy["films"] # Missing, NEW film \in films,
                        Card(copy["films"], film.title) # 0
                 PROVE  LET card == copy["films"][Card(copy["films"], film.title)]
                        IN Kept(card.run, card.dates, film.dates)
        BY DEF RunsKeepTheirDates, Kept
    <2> DEFINE shown == copy["films"]
               i == Card(shown, film.title)
    <2>1. shown \in FilmPage
        BY DEF FilmsAreRead
    <2>2. DOMAIN shown = 1..Len(shown) /\ Len(shown) \in Nat
        BY <2>1, MuseumAssumption
    <2>3. i \in DOMAIN shown
        BY <2>2, CardIs
    <2>4. PrintedAs(shown[i].run, shown[i].dates)
        BY <2>1, <2>3, MuseumAssumption
    <2>5. film.dates = IF shown[i].dates = << >> THEN NoRange ELSE DateRange(shown[i].dates)
        <3>1. PICK links : films = Engagements(links, shown)
            BY DEF FilmsAreRead
        <3>2. PICK c \in Categories(links) :
                film = LET k == Card(shown, c.title)
                       IN [category |-> c.category, title |-> c.title,
                           dates |-> IF k = 0 \/ shown[k].dates = << >> THEN NoRange
                                     ELSE DateRange(shown[k].dates)]
            BY <3>1 DEF Engagements
        <3>3. film.title = c.title
            BY <3>2
        <3> QED
            BY <3>2, <3>3
    <2>6. film.dates.start # Missing => Exists(film.dates.start)
        BY DEF FilmsAreRead
    <2>7. CASE shown[i].dates = << >>
        <3>1. shown[i].run = NoRange
            BY <2>4, <2>7 DEF PrintedAs
        <3> QED
            BY <2>5, <2>7, <3>1 DEF Kept
    <2>8. CASE shown[i].dates # << >>
        <3>1. film.dates = DateRange(shown[i].dates)
            BY <2>5, <2>8
        <3> QED
            BY <2>4, <2>6, <2>8, <3>1, DatesOfAPrint
    <2> QED
        BY <2>7, <2>8
<1> HIDE DEF Inv
<1> QED
    BY <1>1, <1>2, <1>3, PTL DEF Spec
=============================================================================
