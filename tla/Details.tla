------------------------------ MODULE Details -------------------------------
(***************************************************************************)
(* The ACL Live collector across polls: the RSS feed with its validator,   *)
(* the detail pages with their budget (collectors/acl_live.py), and what   *)
(* ingestion makes of them (core/ingest.py), reduced to the fields that    *)
(* come from detail pages.                                                 *)
(*                                                                         *)
(* A poll is one step.  Polls run one at a time, and what the venue does   *)
(* while one runs can be moved before it (a page changed before it was     *)
(* read) or after it (the feed changed after it was read).  A poll that    *)
(* fails as a whole, or reads an empty feed, is rolled back and is no step *)
(* here.                                                                   *)
(***************************************************************************)
EXTENDS Naturals, FiniteSets

CONSTANTS
    Key,            \* guids of the feed
    Starts,         \* Starts[k]: the start the feed gives for k, or None
    Sale,           \* the ticket statuses a detail page can show
    Cap,            \* DETAIL_FETCH_CAP
    Horizon,        \* DETAIL_HORIZON_DAYS
    Threshold,      \* cfg.removal_threshold
    MaxTime,        \* bound: the clock
    None

\* checked: the row has an image_url, be it the empty one.
Event == [ticket: Sale \cup {"unknown"}, checked: BOOLEAN,
          status: {"active", "removed"}, missing: 0..Threshold]

ASSUME DetailsAssumption ==
    /\ IsFiniteSet(Key)
    /\ Starts \in [Key -> Nat \cup {None}]
    /\ Cap \in Nat /\ Horizon \in Nat /\ Threshold \in Nat \ {0} /\ MaxTime \in Nat
    /\ None \notin Nat \cup Sale \cup Event
    /\ "unknown" \notin Sale

VARIABLES
    feed,       \* the feed as the venue serves it
    page,       \* page[k]: the status k's detail page shows, None if it shows none
    events,     \* the stored rows
    cache,      \* http_cache: the feed that the stored validator stands for
    now

vars == <<feed, page, events, cache, now>>

-----------------------------------------------------------------------------
\* A feed lists keys in some order, each of them once.
Feeds ==
    {f \in UNION {[1..n -> Key] : n \in 0..Cardinality(Key)} :
        \A i, j \in DOMAIN f : f[i] = f[j] => i = j}

Listed == {feed[i] : i \in DOMAIN feed}

TypeOK ==
    /\ feed \in Feeds
    /\ page \in [Key -> Sale \cup {None}]
    /\ events \in [Key -> Event \cup {None}]
    /\ cache \in Feeds \cup {None}
    /\ now \in 0..MaxTime

Init ==
    /\ feed \in Feeds
    /\ page \in [Key -> Sale \cup {None}]
    /\ events = [k \in Key |-> None]
    /\ cache = None
    /\ now = 0

Active(k) == events[k] # None /\ events[k].status = "active"

\* _refresh_keys.
RefreshKeys ==
    {k \in Key : Active(k) /\ (events[k].ticket = "unknown" \/ ~events[k].checked)}

NearTerm(k) == Starts[k] # None /\ Starts[k] <= now + Horizon

Past(k) == Starts[k] # None /\ Starts[k] < now

\* The items whose detail page the poll wants.
Wanted(k) == events[k] = None \/ NearTerm(k) \/ k \in RefreshKeys

\* The items before the i-th that use up budget.
Ahead(i) == {j \in 1..(i - 1) : Wanted(feed[j])}

\* Those it gets to, in feed order, before the budget is spent.
Fetched == {feed[i] : i \in {j \in DOMAIN feed : Wanted(feed[j]) /\ Cardinality(Ahead(j)) < Cap}}

\* Mutant: the feed is read conditionally whatever waits.
ConditionalAlways == TRUE

Conditional == RefreshKeys = {}

\* The server honours the validator.
Unchanged == Conditional /\ cache = feed

\* The row of a listed item: what the page did not say keeps its stored value.
Upserted(k, got) ==
    LET old == IF events[k] = None THEN [ticket |-> "unknown", checked |-> FALSE]
               ELSE [ticket |-> events[k].ticket, checked |-> events[k].checked]
    IN [ticket  |-> IF got /\ page[k] # None THEN page[k] ELSE old.ticket,
        checked |-> got \/ old.checked,
        status  |-> "active",
        missing |-> 0]

\* Mutant: rows that are removed already are counted on.
AbsentCountsRemoved(k) ==
    IF events[k] = None \/ Past(k) THEN events[k]
    ELSE [events[k] EXCEPT !.missing = @ + 1,
                           !.status = IF events[k].missing + 1 >= Threshold
                                      THEN "removed" ELSE "active"]

\* The row of an item that the feed does not list.
Absent(k) ==
    IF ~Active(k) \/ Past(k) THEN events[k]
    ELSE [events[k] EXCEPT !.missing = @ + 1,
                           !.status = IF events[k].missing + 1 >= Threshold
                                      THEN "removed" ELSE "active"]

\* Mutant: a detail page that cannot be read loses the item.
FullPollLoses(failed) ==
    /\ feed # << >>
    /\ ~Unchanged
    /\ events' = [k \in Key |-> CASE k \in failed -> events[k]
                               [] k \in Listed \ failed -> Upserted(k, k \in Fetched)
                               [] OTHER -> Absent(k)]
    /\ cache' = IF Conditional THEN feed ELSE cache
    /\ UNCHANGED <<feed, page, now>>

\* The feed is read; the detail pages of failed cannot be, which loses nothing
\* but their details.
FullPoll(failed) ==
    /\ feed # << >>
    /\ ~Unchanged
    /\ events' = [k \in Key |-> IF k \in Listed THEN Upserted(k, k \in Fetched \ failed)
                                                ELSE Absent(k)]
    /\ cache' = IF Conditional THEN feed ELSE cache
    /\ UNCHANGED <<feed, page, now>>

\* A 304: nothing is read, and what is active was not missed.
NotModified ==
    /\ Unchanged
    /\ events' = [k \in Key |-> IF Active(k) THEN [events[k] EXCEPT !.missing = 0] ELSE events[k]]
    /\ UNCHANGED <<feed, page, cache, now>>

\* The venue lists, drops, reorders.
Publish ==
    /\ feed' \in Feeds
    /\ UNCHANGED <<page, events, cache, now>>

\* The venue changes a detail page, which the feed does not show.
EditPage(k) ==
    /\ \E s \in Sale \cup {None} : page' = [page EXCEPT ![k] = s]
    /\ UNCHANGED <<feed, events, cache, now>>

Tick ==
    /\ now < MaxTime
    /\ now' = now + 1
    /\ UNCHANGED <<feed, page, events, cache>>

\* A poll that reads the detail page of k.
Reaches(k) == \E failed \in SUBSET (Fetched \ {k}) : k \in Fetched /\ FullPoll(failed)

Poll == NotModified \/ \E failed \in SUBSET Fetched : FullPoll(failed)

Next ==
    \/ Poll
    \/ Publish
    \/ \E k \in Key : EditPage(k)
    \/ Tick

Spec == Init /\ [][Next]_vars

\* Polls recur, and a page that is asked for again and again answers at times.
FairSpec == Spec /\ WF_vars(Poll) /\ \A k \in Key : SF_vars(Reaches(k))

-----------------------------------------------------------------------------
(* Properties.                                                             *)

\* The budget gets to k: fewer than Cap of the items before it take a detail
\* fetch on every poll, because they are near or their page never says a status.
Room(k) ==
    \E i \in DOMAIN feed :
        /\ feed[i] = k
        /\ Cardinality({j \in 1..(i - 1) : NearTerm(feed[j]) \/ page[feed[j]] = None}) < Cap

\* No 304 and no budget stalls the backfill (acl_live.py:127): an active event
\* that the budget can get to learns its picture and, if its page says one, its
\* status, however detail fetches fail and the feed changes around it.
BackfillEnds ==
    \A k \in Key, s \in Sale \cup {None} :
        <>[](Room(k) /\ Active(k) /\ page[k] = s)
        => <>[](events[k] # None /\ events[k].checked
                /\ (s # None => events[k].ticket # "unknown"))

\* A validator stands for a feed whose items are all stored: a 304 never
\* hides an event that is not known yet (acl_live.py:130).
ValidatorIsStored ==
    cache # None => \A i \in DOMAIN cache : events[cache[i]] # None
=============================================================================
