-------------------------------- MODULE Walk --------------------------------
(***************************************************************************)
(* One fetch of the Ticketmaster collector (collectors/ticketmaster.py):   *)
(* every segment, every date window of it, page by page, while what        *)
(* Discovery lists may change between any two requests.                    *)
(*                                                                         *)
(* Dates are days after the start of the fetch.  Discovery is external: it *)
(* answers a query with the events of that segment from the first to the   *)
(* last day of the window, both included, by date and then by id.          *)
(***************************************************************************)
EXTENDS Integers, Sequences, FiniteSets

CONSTANTS
    Segments,       \* the configured segments, a sequence
    Item,           \* ids of events, in the order Discovery breaks ties
    About,          \* About[i]: [segments, slug, name, city, genres]
    Allow, Deny,    \* venue_allowlist, venue_denylist
    ExcludeGenres,  \* exclude_genres
    ExcludeCities,  \* exclude_cities
    HorizonDays,    \* horizon_days
    WindowDays,     \* window_days
    MaxPages,       \* max_pages
    PageSize,       \* PAGE_SIZE
    Cap,            \* DEEP_PAGING_CAP
    Retries,        \* RATE_LIMIT_RETRIES
    Dates,          \* days on which an event may be
    MaxChanges,     \* bound: changes of what Discovery lists
    None

ASSUME WalkAssumption ==
    /\ {HorizonDays, WindowDays, MaxPages, PageSize, Cap} \subseteq Nat \ {0}
    /\ Retries \in Nat /\ MaxChanges \in Nat
    /\ Item \subseteq Int /\ IsFiniteSet(Item)
    /\ Dates \subseteq Int /\ None \notin Dates
    /\ Segments \in Seq({Segments[k] : k \in DOMAIN Segments}) /\ Segments # <<>>

VARIABLES
    listed,         \* the day of each event that Discovery lists, or None
    state,          \* "idle", "ask", or how the last fetch ended: "done", "failed", "drift"
    segment, window, page,  \* the query in progress, by index
    attempt,        \* of the current request
    received,       \* events the API returned so far
    collected,      \* the day of each event collected so far, or None
    truncated,      \* <<segment, window>> counted by TM_WINDOW_TRUNCATED
    asRead,         \* ghost: the events of each query when its first page was read
    disturbed,      \* ghost: windows that changed while their pages were read
    changes         \* bound

query    == <<segment, window, page, attempt>>
harvest  == <<received, collected, truncated, asRead, disturbed>>
walkVars == <<listed, state, query, harvest, changes>>

\* _windows: windows share their boundary.
Windows ==
    LET n == (HorizonDays + WindowDays - 1) \div WindowDays
        end(k) == IF k * WindowDays < HorizonDays THEN k * WindowDays ELSE HorizonDays
    IN [k \in 1..n |-> [start |-> (k - 1) * WindowDays, end |-> end(k)]]

Queries == (DOMAIN Segments) \X (DOMAIN Windows)

\* _keep.
Keep(i) ==
    LET venue == {About[i].slug, About[i].name}
    IN /\ Allow = {} \/ venue \cap Allow # {}
       /\ venue \cap Deny = {}
       /\ About[i].city \notin ExcludeCities
       /\ About[i].genres \cap ExcludeGenres = {}

\* The events that a query of segment s and window w matches.
Matches(listing, s, w) ==
    {i \in Item : /\ listing[i] # None
                  /\ Segments[s] \in About[i].segments
                  /\ listing[i] \in Windows[w].start..Windows[w].end}

\* The order of an answer: by date, then by id.
Sooner(i, j) == listed[i] < listed[j] \/ (listed[i] = listed[j] /\ i < j)

\* The number of events that the answer names before i.
Rank(i, s, w) == Cardinality({j \in Matches(listed, s, w) : Sooner(j, i)})

PageOf(s, w, p) ==
    {i \in Matches(listed, s, w) : Rank(i, s, w) \in (p * PageSize)..((p + 1) * PageSize - 1)}

WalkInit ==
    /\ listed \in [Item -> Dates \cup {None}]
    /\ state = "idle"
    /\ segment = 1 /\ window = 1 /\ page = 0 /\ attempt = 0
    /\ received = 0 /\ collected = [i \in Item |-> None] /\ truncated = {}
    /\ asRead = [q \in Queries |-> {}] /\ disturbed = {}
    /\ changes = 0

\* fetch begins, with nothing collected.
Fetch ==
    /\ state # "ask"
    /\ state' = "ask"
    /\ segment' = 1 /\ window' = 1 /\ page' = 0 /\ attempt' = 0
    /\ received' = 0 /\ collected' = [i \in Item |-> None] /\ truncated' = {}
    /\ asRead' = [q \in Queries |-> {}] /\ disturbed' = {}
    /\ UNCHANGED <<listed, changes>>

\* Mutant: pages are counted from one here.
LastPageEarly(p, items, total) ==
    \/ items = {}
    \/ (p + 2) * PageSize >= total
    \/ p + 1 >= MaxPages
    \/ (p + 1) * PageSize >= Cap

\* Mutant: only the answer ends the loop.
LastPageNoLimit(p, items, total) == items = {} \/ (p + 1) * PageSize >= total

\* No page follows page p of an answer: it was empty or the last one, or the limits of
\* the loop are reached.
LastPage(p, items, total) ==
    \/ items = {}
    \/ (p + 1) * PageSize >= total
    \/ p + 1 >= MaxPages
    \/ (p + 1) * PageSize >= Cap

\* What fetch makes of the events returned.
Ended(returned) == IF returned = 0 THEN "drift" ELSE "done"

\* The next page, the next window, the next segment, or the end.
Advance(items, total) ==
    /\ attempt' = 0
    /\ IF ~LastPage(page, items, total) THEN page' = page + 1 /\ UNCHANGED <<segment, window, state>>
       ELSE /\ page' = 0
            /\ IF window < Len(Windows)
               THEN window' = window + 1 /\ UNCHANGED <<segment, state>>
               ELSE /\ window' = 1
                    /\ IF segment < Len(Segments)
                       THEN segment' = segment + 1 /\ UNCHANGED state
                       ELSE segment' = 1 /\ state' = Ended(received')

\* _get_json returns a page and _fetch_window adds it.
Receive ==
    LET all   == Matches(listed, segment, window)
        items == PageOf(segment, window, page)
        total == Cardinality(all)
        here  == <<segment, window>>
    IN /\ state = "ask"
       /\ received' = received + Cardinality(items)
       /\ collected' = [i \in Item |-> IF i \in items /\ Keep(i) THEN listed[i] ELSE collected[i]]
       /\ truncated' = IF page = 0 /\ total > Cap THEN truncated \cup {here} ELSE truncated
       /\ asRead' = IF page = 0 THEN [asRead EXCEPT ![here] = all] ELSE asRead
       /\ Advance(items, total)
       /\ UNCHANGED <<listed, disturbed, changes>>

\* Mutant: the attempts start over.
RateLimitedAgain ==
    /\ state = "ask"
    /\ attempt' = IF attempt < Retries THEN attempt + 1 ELSE 0
    /\ UNCHANGED <<listed, state, segment, window, page, harvest, changes>>

\* Discovery answers 429 and is asked again after a pause, unless that was the last attempt.
RateLimited ==
    /\ state = "ask"
    /\ IF attempt < Retries THEN attempt' = attempt + 1 /\ UNCHANGED <<state, harvest>>
       ELSE attempt' = 0 /\ state' = "failed" /\ UNCHANGED harvest
    /\ UNCHANGED <<listed, segment, window, page, changes>>

\* Another error ends the fetch; what was collected is dropped with it.
Error ==
    /\ state = "ask"
    /\ state' = "failed"
    /\ UNCHANGED <<listed, query, harvest, changes>>

\* Discovery lists an event, moves it or lists it no more.
Change(i, day) ==
    /\ changes < MaxChanges
    /\ day # listed[i]
    /\ listed' = [listed EXCEPT ![i] = day]
    /\ changes' = changes + 1
    /\ disturbed' = IF /\ state = "ask" /\ page > 0
                       /\ i \in Matches(listed, segment, window) \cup Matches(listed', segment, window)
                    THEN disturbed \cup {<<segment, window>>} ELSE disturbed
    /\ UNCHANGED <<state, query, received, collected, truncated, asRead>>

Request == Receive \/ RateLimited \/ Error

WalkNext ==
    \/ Fetch
    \/ Request
    \/ \E i \in Item, day \in Dates \cup {None} : Change(i, day)

WalkTypeOK ==
    /\ listed \in [Item -> Dates \cup {None}]
    /\ collected \in [Item -> Dates \cup {None}]
    /\ state \in {"idle", "ask", "done", "failed", "drift"}
    /\ segment \in 1..Len(Segments) /\ window \in 1..Len(Windows)
    /\ page \in 0..(MaxPages - 1) /\ page * PageSize < Cap
    /\ attempt \in 0..Retries
    /\ received \in Nat

-----------------------------------------------------------------------------
(* Properties.                                                             *)

\* A fetch that ends well has every kept event of every window that stood still while
\* its pages were read, whatever changed elsewhere and however often it was refused,
\* except in windows it reports as past the cap and those that hold more than max_pages
\* (ticketmaster.py:6-9, 379-404).
WindowsAreComplete ==
    state = "done" =>
        \A q \in Queries :
            \/ q \in disturbed \cup truncated
            \/ Cardinality(asRead[q]) > MaxPages * PageSize
            \/ \A i \in asRead[q] : Keep(i) => collected[i] # None
=============================================================================
