------------------------------- MODULE Views -------------------------------
(***************************************************************************)
(* What the pages and mails show of a catalogue that keeps changing: the   *)
(* events as they are stored, linked and logged, composed with the event   *)
(* lists (Listing), the change lists (News) and the alert rules (Rules).   *)
(*                                                                         *)
(* Here an action stores a change and logs it in one step; what a poll     *)
(* does in which order, and which change it logs, is Ingest's subject.     *)
(***************************************************************************)
EXTENDS Dedup, News, Rules

CONSTANTS
    Nows,           \* the instants at which somebody looks or a source changes
    MaxLog,         \* bound: rows of the change log
    Watchlists,     \* watchlists of titles and venues
    NewFor,         \* NEW_FOR
    Requests,       \* what is asked of the events page: a kind and marks
    PageSize        \* PAGE_SIZE

ASSUME ViewsAssumption ==
    /\ NoDate = None
    /\ Nows \subseteq Int
    /\ PageSize \in Nat \ {0}
    /\ \A raw \in Raw : raw.title \in Nat /\ {raw.start, raw.end} \subseteq Nat \cup {None}
    /\ Requests \subseteq
        [kind : DOMAIN KindFilters \cup {None}, marks : SUBSET {"new", "watched"},
         genre : {None}, venue : {None}, when : {None}, day : {None}]

VARIABLES
    gone,           \* stored events that are marked removed
    log,            \* rows of change_log, by id
    now             \* the current instant

vars == <<stored, canonicals, gone, log, now>>

Entry(type, i, fields, undated, to) ==
    [type |-> type, event |-> i, fields |-> fields, undated |-> undated, to |-> to, at |-> now]

Append1(entry) == Len(log) < MaxLog /\ log' = Append(log, entry)

Init ==
    /\ DedupInit
    /\ gone = {} /\ log = << >>
    /\ now \in {t \in Nows : \A u \in Nows : t <= u}

\* ChangeLog rows of new events; the first ones of a source are its baseline.
Store(raw, type) ==
    /\ Arrive(raw)
    /\ Append1(Entry(type, Len(stored) + 1, {}, {}, None))
    /\ UNCHANGED <<gone, now>>

\* A listed event has changed.  Only a status that was known before is a ticket change.
Update(i, raw) ==
    LET old     == stored[i].raw
        fields  == Changed(old, raw)
        undated == {f \in fields \cap {"start", "end"} : None \in {old[f], raw[f]}}
        to      == IF "status" \in fields THEN raw.status ELSE None
        type    == IF "status" \in fields /\ old.status # "unknown" THEN "ticket_status" ELSE "updated"
    IN /\ Relist(i, raw)
       /\ IF fields = {} THEN UNCHANGED log ELSE Append1(Entry(type, i, fields, undated, to))
       /\ gone' = gone \ {i}
       /\ UNCHANGED now

\* Mutant: the removal is not logged.
MarkRemovedSilently(i) ==
    /\ i \notin gone
    /\ gone' = gone \cup {i}
    /\ UNCHANGED <<stored, canonicals, log, now>>

\* An event is missing for the last time that counts; one that is over is no removal.
MarkRemoved(i) ==
    LET raw == stored[i].raw
        over == IF raw.end = None THEN raw.start ELSE raw.end
    IN /\ i \notin gone
       /\ over # None => over >= now
       /\ gone' = gone \cup {i}
       /\ Append1(Entry("removed", i, {}, {}, None))
       /\ UNCHANGED <<stored, canonicals, now>>

\* It is listed again as it was.
Reappear(i) ==
    /\ i \in gone
    /\ gone' = gone \ {i}
    /\ Append1(Entry("added", i, {}, {}, None))
    /\ UNCHANGED <<stored, canonicals, now>>

Pass ==
    /\ \E t \in Nows : t > now /\ now' = t
    /\ UNCHANGED <<stored, canonicals, gone, log>>

Next ==
    \/ \E raw \in Raw, type \in {"baseline", "added"} : Store(raw, type)
    \/ \E i \in DOMAIN stored, raw \in Raw : Update(i, raw)
    \/ \E i \in DOMAIN stored : MarkRemoved(i) \/ Reappear(i)
    \/ Pass

Spec == Init /\ [][Next]_vars

\* Every row of the log is about a stored event, and a removed event was logged so.
TypeOK ==
    /\ DedupTypeOK
    /\ gone \subseteq DOMAIN stored
    /\ now \in Nows
    /\ \A id \in DOMAIN log :
        /\ log[id].event \in DOMAIN stored
        /\ log[id].at <= now
    /\ \A i \in gone : \E id \in DOMAIN log : log[id].event = i /\ log[id].type = "removed"

-----------------------------------------------------------------------------
(* The pages.                                                              *)

today == Today(now)

\* When the event was stored, which its first change row tells.
FirstSeen(i) == log[Min({id \in DOMAIN log : log[id].event = i})].at

Marks(i, wl) ==
    (IF now - FirstSeen(i) < NewFor THEN {"new"} ELSE {})
    \cup (IF Watched(stored[i].raw, wl) THEN {"watched"} ELSE {})

Shows(wl) == [i \in DOMAIN stored |-> BuildRow(i, stored[i], Marks(i, wl))]

\* _current_rows, for the owner of a watchlist.
RowsFor(wl) ==
    Only(Shows(wl), LAMBDA row : row.id \notin gone /\ IsCurrent(row, now))

CurrentRows == RowsFor(NoWatchlist)

Count(Test(_), rows) == Cardinality({i \in DOMAIN rows : Test(rows[i])})

RowsIn(secs) == FlattenSeq([s \in DOMAIN secs |-> secs[s].rows])

Labels(secs) == [s \in DOMAIN secs |-> secs[s].label]

-----------------------------------------------------------------------------
(* Properties of the event lists.                                          *)

\* Grouping never splits a section: no label heads two of them, whatever the mix of
\* runs, dated and undated events and whatever the weekday (web/listing.py:202-206).
LabelsOnce ==
    IsInjective(Labels(Sections(CurrentRows, today)))

\* What a page adds to the list: its first section goes on with the last one, or not.
JoinedPage(all, secs, continued) ==
    IF ~continued THEN all \o secs
    ELSE [all EXCEPT ![Len(all)].rows = @ \o Head(secs).rows] \o Tail(secs)

JoinPage(all, page) == JoinedPage(all, page.sections, page.continued)

JoinedPages(secs, pages) ==
    FoldLeft(LAMBDA all, p : JoinPage(all, Paginate(secs, p, PageSize)), << >>, [p \in 1..pages |-> p])

\* Joining the pages of "Show more", with the first section of a page continuing the
\* last one of the page before where `continued' says so, gives the list
\* (web/listing.py:301-318); the last page is the first that has no more.
PagesJoin ==
    LET secs == Sections(CurrentRows, today)
        pages == (Len(RowsIn(secs)) + PageSize - 1) \div PageSize
    IN /\ JoinedPages(secs, pages) = secs
       /\ \A p \in 1..pages : Paginate(secs, p, PageSize).hasMore <=> p < pages

\* A show has one row per day with every time of its performances that day, from the
\* earliest one, and is sold out only if each of them is (web/listing.py:151-154).
MergeKeepsTimes ==
    LET rows == CurrentRows
        merged == ToSet(MergePerformances(rows))
        times(of) == {r.time : r \in {r \in ToSet(rows) : SameShowAndDay(r, of)}} \ {None}
    IN \A row \in ToSet(rows) : row.day # None =>
        \E m \in merged :
            /\ SameShowAndDay(m, row)
            /\ \A other \in merged : SameShowAndDay(other, row) => other = m
            /\ ({m.time} \ {None}) \cup ToSet(m.extraTimes) = times(row)
            /\ \A r \in ToSet(rows) : SameShowAndDay(r, row) /\ r.time # None => m.time <= r.time
            /\ m.soldOut <=> \A r \in ToSet(rows) : SameShowAndDay(r, row) => r.soldOut

\* What begins within the horizon is on the dashboard in exactly one of its two lists:
\* the weekend, on a Sunday the next one, and the other days (web/routes.py:67-73).
DashboardOnce ==
    LET rows == CurrentRows
        weekend == RowsIn(WeekendSections(rows, today))
        upcoming == RowsIn(Sections(Upcoming(rows, today), today))
    IN \A row \in ToSet(rows) :
        row.day # None /\ row.day \in today..(today + UpcomingDays - 1)
            => Count(LAMBDA r : SameShowAndDay(r, row), weekend \o upcoming) = 1

\* The summary lists count every performance once and reach to the last day of any of
\* them; the movies page has every long run under one film, shown until its last day
\* anywhere (web/listing.py:177-199, web/routes.py:258-267).
ShowsOnce ==
    LET rows == CurrentRows
        shows == GroupShows(rows)
        films == Films(rows)
        dated(r) == r.day # None
    IN /\ \A row \in ToSet(rows) :
            \E i \in DOMAIN shows :
                /\ SameShow(shows[i], row)
                /\ \A j \in DOMAIN shows \ {i} : ~SameShow(shows[j], row)
                /\ shows[i].performances = Count(LAMBDA r : SameShow(r, row), rows)
                /\ dated(row) => shows[i].day <= row.day /\ EndOf(shows[i]) >= EndOf(row)
       /\ \A row \in ToSet(LongRuns(rows)) :
            \E film \in films :
                /\ row \in film.rows /\ row.endDay <= film.until
                /\ \A other \in films \ {film} : row \notin other.rows

\* A listed event is shown on its local day: a stored instant falls on the day that a
\* clock in Austin shows then (local_day, fmt.py:61-62).
ShownOnItsDay ==
    \A i \in DOMAIN stored :
        LET raw == stored[i].raw
        IN raw.start # None /\ ~raw.dateOnly
            => BuildRow(i, stored[i], {}).day = (raw.start - Offset) \div DayLen

\* The filters of the events page never lead to a dead end: whatever genre or venue is
\* offered for a kind lists something, as long as no days are chosen, and a genre or venue
\* left over from another kind, from which it has nothing, lists what no choice of it would
\* (web/routes.py:110-122, web/listing.py:267-295).
FiltersListSomething ==
    \A wl \in Watchlists, plain \in Requests :
        LET rows == RowsFor(wl)
            offered == Offered(rows, plain, today)
            unfiltered == Shown(rows, plain, today)
            of(choice) == Shown(rows, choice, today)
        IN /\ \A genre \in {row.category : row \in ToSet(rows)} :
                LET shown == of([plain EXCEPT !.genre = genre])
                IN IF genre \in offered.genres THEN \E r \in ToSet(shown) : r.category = genre
                   ELSE shown = unfiltered
           /\ \A venue \in {row.venue : row \in ToSet(rows)} :
                LET shown == of([plain EXCEPT !.venue = venue])
                IN IF venue \in offered.venues THEN \E r \in ToSet(shown) : r.venue = venue
                   ELSE shown = unfiltered

-----------------------------------------------------------------------------
(* Properties of the change lists.                                         *)

Ids == DOMAIN log

News == {id \in Ids : IsNews(log[id])}

\* The changes that rows stand for: the sum of their counts.
Counted(rows) == Cardinality(UNION {{r} \X (1..rows[r].count) : r \in DOMAIN rows})

\* Every change that is news is in exactly one row of the digest, moved to the
\* watchlist or not; all others but the baseline are the minor updates, and everything
\* that is listed or counted is what gets stamped (notify/digest.py:62-135).
NewsIsListedOnce ==
    \A wl \in Watchlists :
        LET digest == BuildDigest(Ids, log, stored, wl)
            rows == RowsOf(digest)
        IN /\ Counted(rows) = Cardinality(News)
           /\ \A r \in DOMAIN rows : rows[r].id \in News /\ \A q \in 1..(r - 1) : rows[q].id # rows[r].id
           /\ Len(digest.change_ids) = Counted(rows) + digest.minor_updates

\* What identifies a row to a reader.  Two performances that start together are told
\* apart by nothing, so which of them a row stands for is left out.
Told(row) ==
    <<row.type, ShowKey(row), row.to, row.start, row.count,
      IF row.type = "updated" THEN row.id ELSE 0>>

\* The feed tells a day as a digest of that day would (changes.py:3-5), though it reads
\* the log backwards, as long as no show is a movie and a concert at once.
FeedMatchesDigest ==
    (\A i, j \in DOMAIN stored :
        /\ stored[i].raw.title = stored[j].raw.title
        /\ stored[i].raw.venue = stored[j].raw.venue
        => (stored[i].raw.kind = "movie" <=> stored[j].raw.kind = "movie"))
    => LET feed == Feed(log, stored)
           told(rows) == {Told(row) : row \in ToSet(rows)}
       IN /\ \A day \in DOMAIN feed :
              LET ids == {id \in Ids : Today(log[id].at) = day}
              IN told(feed[day]) = told(RowsOf(BuildDigest(ids, log, stored, NoWatchlist)))
          /\ \A id \in News : Today(log[id].at) \in DOMAIN feed

\* News of what is watched by title or venue leads the digest in a section of its own,
\* also where performances merge into one row (notify/digest.py:106-117).
WatchedLeads ==
    \A wl \in Watchlists :
        (\A i \in DOMAIN stored : stored[i].raw.lineup \notin wl.keywords)
        => LET digest == BuildDigest(Ids, log, stored, wl)
           IN Counted(digest.sections[1])
                  = Cardinality({id \in News : Watched(stored[log[id].event].raw, wl)})

\* With the default rules nothing is pushed that the digest would not list, and nothing
\* but tickets going on sale is pushed in quiet hours (config.py:54-63).  This is about
\* a configuration without favorite venues: a favorite makes every change of its events
\* that is not ignored immediate, also one that is no news.
AlertsAreNews ==
    \A id \in Ids, source \in {"ticketmaster", "acl"} :
        LET change == log[id]
            subject == [change_type |-> change.type, source |-> source,
                        ticket_status_to |-> change.to, venue |-> None]
            verdict == Evaluate(subject, DefaultRules, {})
        IN change.type # "baseline" =>
            /\ verdict.action = "immediate" => IsNews(change)
            /\ verdict.always => /\ verdict.action = "immediate"
                                 /\ change.to \in {"on_sale", "presale"}
                                 /\ change.type = "ticket_status"
=============================================================================
