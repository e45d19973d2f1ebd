------------------------------ MODULE Listing ------------------------------
(***************************************************************************)
(* The event lists of the web pages: web/listing.py, the local dates of    *)
(* fmt.py and what web/routes.py makes of them.  Pure operators on rows of *)
(* events; a list of rows is a sequence.                                   *)
(*                                                                         *)
(* Instants are ticks since a Monday, 00:00 UTC.  Local time is Offset     *)
(* ticks behind.  Titles are numbers, in alphabetical order.               *)
(***************************************************************************)
EXTENDS Integers, Lists, SequencesExt, FiniteSetsExt

CONSTANTS
    DayLen,         \* ticks of a day
    Offset,         \* how far local time is behind UTC
    MonthLen,       \* days of a month
    RunsFor,        \* RUNS_FOR
    LongRun,        \* LONG_RUN_DAYS
    UpcomingDays,   \* UPCOMING_DAYS
    GenreOf,        \* GenreOf[t]: the label of the genre of title t, or NoDate if it has
                    \* none that GENRE_LABELS knows
    NoDate          \* a missing date, time, genre or choice

ASSUME ListingAssumption ==
    /\ {DayLen, MonthLen} \subseteq Nat \ {0}
    /\ {Offset, RunsFor, LongRun, UpcomingDays} \subseteq Nat
    /\ NoDate \notin Int \cup {"weekend", "7d", "30d"}

-----------------------------------------------------------------------------
(* Dates (fmt.py).                                                         *)

\* UTC midnight is how sources store a date without a showtime.
IsDateOnly(t) == t % DayLen = 0

LocalDay(t) ==
    CASE t = NoDate -> NoDate
      [] t # NoDate /\ IsDateOnly(t) -> t \div DayLen
      [] OTHER -> (t - Offset) \div DayLen

LocalTime(t) == IF t = NoDate \/ IsDateOnly(t) THEN NoDate ELSE (t - Offset) % DayLen

\* local_today: the current instant is never taken for a date.
Today(now) == (now - Offset) \div DayLen

-----------------------------------------------------------------------------
(* Rows.                                                                   *)

\* category: the genre, or else the kind.
Category(raw) == IF GenreOf[raw.title] = NoDate THEN raw.kind ELSE GenreOf[raw.title]

\* build_row, for the event of that id; marks holds "new" and "watched" where they apply.
BuildRow(id, ev, marks) ==
    LET day == LocalDay(ev.raw.start)
        endDay == LocalDay(ev.raw.end)
    IN [id |-> id, title |-> ev.raw.title, venue |-> ev.raw.venue, canon |-> ev.canon,
        start |-> ev.raw.start, day |-> day, time |-> LocalTime(ev.raw.start),
        endDay |-> IF NoDate \notin {day, endDay} /\ endDay > day THEN endDay ELSE NoDate,
        soldOut |-> ev.raw.status = "sold_out", kind |-> ev.raw.kind,
        category |-> Category(ev.raw), marks |-> marks, extraTimes |-> << >>, performances |-> 1]

IsCurrent(row, now) ==
    \/ row.day = NoDate
    \/ /\ row.day # NoDate /\ row.day >= Today(now)
       /\ row.time # NoDate => row.start + RunsFor >= now
    \/ /\ row.day # NoDate /\ row.day < Today(now)
       /\ row.endDay # NoDate /\ row.endDay >= Today(now)

\* Mutant: rows are sorted by the stored instant.
SortKeyByInstant(row) ==
    IF row.start = NoDate THEN <<1, 0, row.title>> ELSE <<0, row.start, row.title>>

\* sort_key: undated last, within a day those with a time first.
SortKey(row) ==
    LET missing(x) == IF x = NoDate THEN 1 ELSE 0
        orFirst(x, first) == IF x = NoDate THEN first ELSE x
    IN <<missing(row.day), orFirst(row.day, 0), missing(row.time),
         orFirst(row.start, -1), row.title>>

\* Tuples compare by the first place in which they differ.
Precedes(a, b) == \E i \in DOMAIN a : a[i] < b[i] /\ \A j \in 1..(i - 1) : a[j] = b[j]

\* The rows come from the database by id.
Sorted(rows) ==
    LET key == [i \in DOMAIN rows |-> SortKey(rows[i])]
    IN SortBy(rows, LAMBDA i, j : Precedes(key[i], key[j]))

EndOf(row) == IF row.endDay = NoDate THEN row.day ELSE row.endDay

\* The first row of out that Same says is row's, or 0.
FirstLike(out, Same(_, _), row) == SelectInSeq(out, LAMBDA r : Same(r, row))

\* The loop of the two merges: rows in order, a row that is like an earlier one
\* is absorbed by it.
MergeBy(Same(_, _), Absorb(_, _), rows) ==
    FoldLeft(LAMBDA out, row :
                LET i == FirstLike(out, Same, row)
                IN IF i = 0 THEN Append(out, row)
                   ELSE [out EXCEPT ![i] = Absorb(out[i], row)],
             << >>, Sorted(rows))

SameShow(r, s) == r.title = s.title /\ r.venue = s.venue

SameShowAndDay(r, s) == SameShow(r, s) /\ r.day = s.day /\ r.day # NoDate

\* Mutant: any sold-out performance marks the day.
WithTimeAnySoldOut(first, row) ==
    [first EXCEPT !.extraTimes =
                      IF row.time \in {NoDate, first.time} \cup ToSet(@) THEN @ ELSE Append(@, row.time),
                  !.soldOut = @ \/ row.soldOut]

\* One more performance of the day: its time, unless it is listed already.
WithTime(first, row) ==
    [first EXCEPT !.extraTimes =
                      IF row.time \in {NoDate, first.time} \cup ToSet(@) THEN @ ELSE Append(@, row.time),
                  !.soldOut = @ /\ row.soldOut]

MergePerformances(rows) == MergeBy(SameShowAndDay, WithTime, rows)

\* Mutant: the last performance in the list ends the run.
WithPerformanceLast(first, row) ==
    [first EXCEPT !.performances = @ + 1,
                  !.endDay = IF NoDate \notin {EndOf(row), first.day} THEN EndOf(row) ELSE @]

\* One more performance of the show: the run gets longer.
WithPerformance(first, row) ==
    [first EXCEPT !.performances = @ + 1,
                  !.endDay = IF NoDate \notin {EndOf(row), first.day} /\ EndOf(row) > EndOf(first)
                             THEN EndOf(row) ELSE @]

GroupShows(rows) ==
    LET grouped == MergeBy(SameShow, WithPerformance, rows)
    IN [i \in DOMAIN grouped |->
            IF grouped[i].performances > 1
            THEN [grouped[i] EXCEPT !.time = NoDate, !.extraTimes = << >>] ELSE grouped[i]]

-----------------------------------------------------------------------------
(* Sections.                                                               *)

Weekday(day) == day % 7

\* _week_bounds: the Friday and Sunday at or after today.
Sunday(today) == today + 6 - Weekday(today)
Friday(today) == Sunday(today) - 2

\* The month's name, with the year unless it is this one, stands for the month.
Month(day) == day \div MonthLen

SectionLabel(day, today) ==
    CASE day = NoDate -> <<"Date TBA">>
      [] day # NoDate /\ day < today -> <<"Now showing">>
      [] day = today -> <<"Today">>
      [] day = today + 1 -> <<"Tomorrow">>
      [] OTHER ->
            IF day \in Friday(today)..Sunday(today) THEN <<"This weekend">>
            ELSE IF day <= Sunday(today) THEN <<"This week">>
            ELSE IF day <= Sunday(today) + 7 THEN <<"Next week">>
            ELSE <<"Month", Month(day)>>

\* Consecutive entries of one label become one section.
Grouped(entries) ==
    FoldLeft(LAMBDA out, entry :
                IF out # << >> /\ Last(out).label = entry.label
                THEN [out EXCEPT ![Len(out)].rows = Append(@, entry.row)]
                ELSE Append(out, [label |-> entry.label, rows |-> <<entry.row>>]),
             << >>, entries)

Labelled(rows, Label(_)) ==
    [i \in DOMAIN rows |-> [label |-> Label(rows[i]), row |-> rows[i]]]

\* Dated rows, then the runs that play already, then undated ones.
RunsLast(rows, today) ==
    Only(rows, LAMBDA r : r.day # NoDate /\ r.day >= today)
    \o Only(rows, LAMBDA r : r.day # NoDate /\ r.day < today)
    \o Only(rows, LAMBDA r : r.day = NoDate)

Sections(rows, today) ==
    Grouped(Labelled(RunsLast(MergePerformances(rows), today), LAMBDA r : SectionLabel(r.day, today)))

WeekendStart(today) ==
    IF Weekday(today) = 6 THEN today + 5
    ELSE IF Friday(today) > today THEN Friday(today) ELSE today

WeekendEnd(today) == IF Weekday(today) = 6 THEN today + 7 ELSE Sunday(today)

\* _in_window: a run overlaps the window of days.
InWindow(row, when, today) ==
    LET days == CASE when = "weekend" -> <<WeekendStart(today), WeekendEnd(today)>>
                  [] when = "7d"      -> <<today, today + 6>>
                  [] when = "30d"     -> <<today, today + 29>>
    IN when # NoDate => row.day # NoDate /\ row.day <= days[2] /\ EndOf(row) >= days[1]

OnWeekend(row, today) == InWindow(row, "weekend", today)

\* weekend_sections: by day; runs that began before are only counted.
WeekendSections(rows, today) ==
    Grouped(Labelled(MergePerformances(Only(rows,
                        LAMBDA r : OnWeekend(r, today) /\ r.day >= WeekendStart(today))),
                     LAMBDA r : <<Weekday(r.day), r.day = today>>))

WeekendRuns(rows, today) ==
    Len(Only(rows, LAMBDA r : OnWeekend(r, today) /\ r.day < WeekendStart(today)))

\* Mutant: the weekend is not left out.
UpcomingAll(rows, today) ==
    Only(rows, LAMBDA r : r.day # NoDate /\ r.day \in today..(today + UpcomingDays - 1))

\* The dashboard's list of the next days, without its weekend.
Upcoming(rows, today) ==
    Only(rows, LAMBDA r :
        /\ r.day # NoDate
        /\ r.day \in today..(today + UpcomingDays - 1)
        /\ r.day \notin WeekendStart(today)..WeekendEnd(today))

Flat(secs) ==
    FlattenSeq([i \in DOMAIN secs |-> Labelled(secs[i].rows, LAMBDA r : secs[i].label)])

\* Mutant: a page begins one row late.
PaginateSkips(secs, page, size) ==
    LET flat  == Flat(secs)
        start == (page - 1) * size
        chunk == SubSeq(flat, start + 2, IF start + size < Len(flat) THEN start + size ELSE Len(flat))
    IN [sections |-> Grouped(chunk),
        continued |-> chunk # << >> /\ start > 0 /\ flat[start].label = chunk[1].label,
        hasMore |-> start + size < Len(flat)]

Paginate(secs, page, size) ==
    LET flat  == Flat(secs)
        start == (page - 1) * size
        chunk == SubSeq(flat, start + 1, IF start + size < Len(flat) THEN start + size ELSE Len(flat))
    IN [sections |-> Grouped(chunk),
        continued |-> chunk # << >> /\ start > 0 /\ flat[start].label = chunk[1].label,
        hasMore |-> start + size < Len(flat)]

-----------------------------------------------------------------------------
(* The events page.  A request chooses a kind, a genre, a venue, a window  *)
(* of days and a day, or not (NoDate), and marks that rows must have.      *)

KindFilters ==
    [concert |-> {"concert"}, comedy |-> {"comedy"},
     live |-> {"live_performance", "special_event"}, movie |-> {"movie"}]

\* apply_filters.
Filtered(rows, req, today) ==
    Only(rows, LAMBDA r :
        /\ req.marks \subseteq r.marks
        /\ req.day \in {NoDate, r.day}
        /\ req.kind # NoDate => r.kind \in KindFilters[req.kind]
        /\ req.genre \in {NoDate, r.category}
        /\ req.venue \in {NoDate, r.venue}
        /\ InWindow(r, req.when, today))

\* Mutant: the options are those of every kind.
OfferedOfAll(rows, req, today) ==
    LET base == Filtered(rows, [req EXCEPT !.kind = NoDate, !.genre = NoDate, !.venue = NoDate,
                                           !.when = NoDate, !.day = NoDate], today)
    IN [genres |-> {r.category : r \in ToSet(base)}, venues |-> {r.venue : r \in ToSet(base)}]

\* facet_counts, of the rows of the kind and marks asked for.
Offered(rows, req, today) ==
    LET base == Filtered(rows, [req EXCEPT !.genre = NoDate, !.venue = NoDate, !.when = NoDate,
                                           !.day = NoDate], today)
    IN [genres |-> {r.category : r \in ToSet(base)}, venues |-> {r.venue : r \in ToSet(base)}]

\* The rows of events_page: a genre or venue that is not offered is dropped from the request.
Shown(rows, req, today) ==
    LET offered == Offered(rows, req, today)
        known(choice, options) == IF choice \in options THEN choice ELSE NoDate
    IN Filtered(rows, [req EXCEPT !.genre = known(@, offered.genres),
                                  !.venue = known(@, offered.venues)], today)

\* The movies page: films on long runs, one entry per canonical event.
LongRuns(rows) == Only(rows, LAMBDA r : NoDate \notin {r.day, r.endDay} /\ r.endDay - r.day > LongRun)

Films(rows) ==
    LET runs == ToSet(LongRuns(rows))
        film(c) == {r \in runs : r.canon = c}
    IN {[canon |-> c, rows |-> film(c), until |-> Max({r.endDay : r \in film(c)})]
            : c \in {r.canon : r \in runs}}
=============================================================================
