# Verification of the Austin Entertainment Monitor (AEM)

AEM polls venue and ticketing sources once an hour, keeps what they list in a SQLite
database, writes a row of `change_log` for every difference that matters, pushes some
of those rows to ntfy at once and mails the rest as a daily digest. This directory holds
TLA+ models of that pipeline, the TLC configurations that check them and TLAPS proofs.
Paths below are relative to the repository root; `core/ingest.py` is short for
`src/aem/core/ingest.py`.

## 1. The system

| Component | State it keeps | Operations |
|---|---|---|
| Diff engine, `core/diff.py` | none | `resolve`, `content_hash`, `field_changes` |
| Ingestion, `core/ingest.py` | `events`, `change_log`, `poll_runs`, `venues` | `poll_collectors`, `_upsert_batch`, `_touch_all`, first-run and refresh queries |
| Poll scheduling, `scheduler.py` | `poll_lock`, jobs in memory | `run_poll` (hourly job and `/api/admin/poll`) |
| Fetch context, `collectors/base.py` | `http_cache`, per-host slots | conditional `get`, throttle |
| Collectors, `collectors/*.py` | none between polls | `fetch`: list a source, or raise `NotModified` / `ParseDriftError` |
| Sale state, `collectors/ticketmaster.py`, `fmt.py` | the sale columns and `attrs` of `events` | `_ticket_status`, `_next_presale`, `next_sale`, `upcoming_sale` |
| Immediate alerts, `notify/dispatch.py`, `notify/rules.py` | `notified_immediate_at`, `notifications_sent` | `process_pending` (end of a poll, flush job) |
| Ops warnings, `notify/dispatch.py` | `notifications_sent` | `notify_collector_failure`, once per collector and day |
| Digest, `notify/digest.py` | `digested_at`, `notifications_sent` | `send_digest` (daily job and `/api/admin/send-digest`), preview |
| Presentation, `changes.py`, `fmt.py` | none | `is_news`, grouping, feed, local days and times |
| Deduplication, `core/dedup.py` | `canonical_events` | `link_canonical` |
| Web listing, `web/listing.py`, `web/routes.py` | none | rows, merging, sections, weekends, pages |
| Watchlist, `watch.py` | `watches` | add, remove, match |
| Backup, `scheduler.py` | `backups/` | `backup_db` |

**Interaction.** The components share one database and nothing else, except that ingestion
calls the collectors, the diff engine and deduplication inside its transaction, and that
`run_poll` calls `process_pending` after a poll. Polls and the dispatch at their end run on
the event loop; the flush and digest jobs and the synchronous API routes run on worker
threads. Every one of them opens its own session. SQLite in WAL mode gives readers the last
commit, allows one writer, and refuses a writer that waits longer than `busy_timeout`.

**What is hard.**
- *Concurrency*: two callers of `run_poll`; two dispatchers; two digesters; a digest and a
  dispatcher; a reader that acts on what another session commits meanwhile.
- *Awaits*: a collector's context is read before the source is awaited and used after.
- *Failure*: a source fails after part of it was read; a push or a mail is refused, or is
  accepted and the answer is lost; a flush is refused by a locked database; the process dies
  between an outside effect and the commit that records it.
- *Long sequences*: listed, missed, 304, error and listed again in any order, against one
  counter per event and one stored validator per source.
- *A moving source*: Discovery's and Paramount's listings shift between two pages, a detail
  page changes without the feed showing it, a museum prints a range of dates with one year.
- *Time*: events pass; sales open and close between and during polls; rows leave the 48-hour
  window; quiet hours begin and end; a digest runs over midnight; a stored instant belongs to
  one day in UTC and to another in Austin.

`PROJECT.json` lists every such point with its line under `hazards`, and the properties
that cover it.

**What makes each component correct.** Ingestion: polls act as if they came one at a time and
at once; baselines are exactly the first catalogue; a removal is earned by consecutive misses and
nothing else; an absent upcoming event is removed; the change log is a complete history of what
is stored. Scheduling: a run's context is fresh, and every poll ends. Channels (alerts, digest,
ops warnings): nothing is recorded as told that was not told, nothing is told that a record
covers, every change is claimed in the end; digest, feed and alerts agree on what is news, and
list it once. Sales: an alert means that tickets can be bought, comes once
per sale, and what is announced is the next sale. ACL Live: details are learned in the end, and
a validator never hides an unknown event. Ticketmaster, Paramount: a fetch that ends well is
complete except where it says so or the source changed, and every fetch ends. Bullock: a film
keeps the dates that were printed. Deduplication: one canonical event per title and kind.
Listing: every event appears once, on its day, under one heading, and every filter on offer lists
something. Backup: once there was a copy to restore from, there always is one.

## 2. The modules

```
Diff (operators) <- Upsert <-+- Ingest <- MCIngest, IngestProofs
                             +- SerialPolls ............ implemented by Ingest
Details <- MCDetails, DetailsProofs
Walk, Paramount, Bullock <- Readers <- MCReaders, ReadersProofs
Notify <- MCNotify, NotifyProofs
Rules, Lists (operators) <- CommonProofs <- ServiceProofs, ViewsProofs
Sale (operators) <- Sales <-+- Service <- MCService, ServiceProofs
Rules <---------------------+  |
Backup <-----------------------+
Outbox <- OutboxProofs ................................. implemented by Notify, twice, and Sales
Lists <- Listing (operators) <- News (operators) <-+
Rules <--------------------------------------------+- Views <- MCViews, ViewsProofs
Dedup <--------------------------------------------+
```

`A <- B` reads: B extends A. In each module a definition that begins with "Mutant" in its
comment is not used by the module: it is a plausible bug of the definition below it, and
`PROJECT.json` names the property that catches it.

### Diff: `core/diff.py`

A raw event and a stored event are records with the same content fields. `None` in a raw event
is "not learned on this poll". `tour` stands for the meaningful attributes and `image_url` for
the informational ones. `Resolve`, `ContentHash`, `FieldChanges` are the functions of the same
names; SHA-256 is taken to be injective, so a digest is what it covers. `Norm` is
`dedup.normalize_title`, any function on titles. The title pair of `field_changes` carries
printed titles in the code and normal forms here: they differ exactly when the normal forms do.

### Upsert, Ingest: `core/ingest.py`, `run_poll`, conditional GET

`Upsert` has the tables and what one successful poll of a collector does to them (`StoreBatch` is
`_upsert_batch`, `TouchAll` is `_touch_all`); `Ingest` has the pollers, the lock and the failures.

| Variable | Code |
|---|---|
| `lock` | `scheduler.poll_lock`: the holder, then the waiters |
| `todo[p]`, `job[p]` | the loop of `poll_collectors`, and the locals of the current iteration: collector, `first_run`, whether the index is read conditionally |
| `events[c][k]` | row of `events` with `missing_polls`, `status`, `content_hash` |
| `log[c][k]` | rows of `change_log` of the event, by id |
| `runs[c]` | rows of `poll_runs`, counted by status |
| `cache[c]` | the row of `http_cache`: the index the validator stands for |
| `streak`, `born`, `opening` | observers; no guard reads them |

| Action | Code |
|---|---|
| `RunPoll` | a call of `run_poll`, with or without `only`, queues for the lock |
| `BeginCollector` | the committed `running` row and the reads before `fetch` (one step: they are one synchronous stretch, and only a poll changes what they read) |
| `FetchOk` | `fetch` returns, `_upsert_batch`, the status and the commit: one transaction |
| `FetchNotModified` | a 304, `_touch_all`, the commit |
| `FetchError` | the `except` branch: rollback, `error` row |
| `Escape` | an exception of a statement outside the `try`, or of the `except` branch's own commit |
| `FinishPoll` | the loop is over, the lock is released |
| `Crash`, `Tick` | restart on the same database; time |

A source lists an arbitrary batch at each poll. `IndexField` is what the index resource (ACL
Live's RSS feed: titles and dates) tells apart, so that a source whose detail pages changed
still answers 304. Collectors outside `Conditional` never send a validator.

### SerialPolls: the promise of a poll

`SerialPolls` polls a collector in one step: it reads its context, the source and the tables, and
stores the batch. It has no lock, no pollers and no failures. `Ingest` implements it with the
tables mapped to themselves and `polled` to the collectors with a successful run
(`PollsAreSerial`): what is read before the source is awaited is as good as if it was read after.

### Notify: `process_pending`, `send_digest` and their jobs

A change row has a class, which is what `rules.evaluate` and `changes.is_news` make of it.
`disp[d]` and `digest[g]` are running calls with their locals; `keys` and `digestKeys` are
`notifications_sent`; `writer` is the holder of SQLite's write lock. A dispatcher's pending rows
take that lock at the session's next query (`Check`), as autoflush does, and keep it until
`Commit` or `Rollback`. `row.age` and midnights since a digest key replace absolute time, so
days go on for ever in finitely many states. `pushes`, `lost`, `mails` observe the outside
world.

### Outbox: the promise of a channel

`Outbox` is what `notifications_sent` and the stamps of `change_log` are for: items become due, a
teller takes some without a record, tells them, and only then records them. It is implemented
three times, each time by a refinement mapping of the variables `offered`, `claimed`, `told` and
`hand`:

| Mapping | Items | `claimed` | `hand` |
|---|---|---|---|
| `Ntfy` in `Notify` | immediate changes | rows with a committed key of ntfy or stamp | the row whose push is under way |
| `Post` in `Notify` | changes worth listing | rows with a committed `digested_at` | the rows in the mail under way |
| `Ops` in `Sales` | collector and day | committed keys of warnings | the warning under way |

### Details: ACL Live across polls

| Variable | Code |
|---|---|
| `feed`, `page` | the RSS feed and what each detail page shows: external |
| `events[k]` | the row, reduced to what comes from detail pages (`ticket`, `checked`) and to `status`, `missing_polls` |
| `cache` | the row of `http_cache`: the feed that the validator stands for |

`FullPoll(failed)` is a whole poll with a 200 for the feed, in which the detail pages of `failed`
cannot be read: the budget loop of `AclLiveCollector.fetch`, then `_upsert_batch`. `NotModified`
is a poll with a 304, `_touch_all`. `Publish` and `EditPage` are the venue. A poll is one step:
polls exclude each other (`Ingest`), and what the venue does meanwhile can be moved before or
after it. A poll that fails as a whole is rolled back and is no step.

### Readers: the collectors that send several requests

`Readers` composes `Walk`, `Paramount` and `Bullock`. They share nothing and `poll_collectors`
runs them in turn, so that a behaviour follows one of them, through fetch after fetch, while its
source changes.

#### Walk: `collectors/ticketmaster.py`

`state`, `segment`, `window`, `page`, `attempt` are the position in the four nested loops of
`fetch`, `_fetch_window` and `_get_json`; `received`, `collected` their results; `truncated` the
windows counted by `TM_WINDOW_TRUNCATED`. `Receive`, `RateLimited` and `Error` are the outcomes of
a request; `Change` is Discovery, which may list, move or drop an event between any two requests.
`asRead` and `disturbed` observe what a window held when its first page was read and whether it
changed after that. `Keep` is `_keep`: lists of venues, genres and cities. Discovery's answer is in
order of date and id (`Sooner`), so the place of an event in it is the number of events before it
(`Rank`), and a page holds the events of `PageSize` consecutive ranks (`PageOf`).

#### Paramount: `collectors/paramount.py`

`board` is the WordPress listing, newest post first: `PmEdit` adds a post in front or removes one.
`PmReceive` is one turn of the loop of `fetch`, in which only the first page sets `totalPages`;
`PmFails` is an error or an answer that is no list. `posted`, `removals` and `unposted` observe how
many posts came and went since the first page, and which. `MapPost` is `_map_event` reduced to its
dates and its sale state; `TagStatus` is the loop over the tags of `_status`, whose last effective tag
stands.

#### Bullock: `collectors/bullock_imax.py`

`site`, `validator` and `copy` are, for the ticket store and the film page, what is served, what
the stored validator stands for and what was read. A fetch asks for both conditionally and asks
again, without a condition, for what was unchanged. `Categories` is `_parse_store`, `DateRange` is
`_parse_date_range` on the parts of a printed range, and `BuStep` ends a fetch: with films, with
drift, or with the exception of a February 29 moved to a year without one.

### Sale, Sales: an event's sales through the polls

`Sale` has the operators: `TicketStatus` and `NextPresale` are `_ticket_status` and
`_next_presale`, `Resolved` is `resolve` on the sale columns, `NextSale`, `UpcomingSale` and
`SaleBadges` are what `fmt.py` and `build_row` make of them. `Sales` follows one event:

| Action | Code |
|---|---|
| `BeginPoll` | `run_poll`; the collector takes the time once, before its first request |
| `Fetched(failed)` | the collectors are done, those in `failed` with an error; the event is stored as it is by then, judged by the earlier time |
| `Report(c)`, `CheckKey`, `Warn`, `WarnFails`, `RecordWarning`, `RecordFails` | `notify_collector_failure` of each failed collector: the key of the day, its lookup, the push, the commit |
| `EndPoll`, `Die` | the end of `run_poll`, in order or not |
| `Edit`, `Later` | Discovery says something else; time |

### Backup, Service: `backup_db`, and the jobs together

`Backup` goes night by night: a whole copy and the removal of old files, from the oldest on and
perhaps not to the end; a copy that fails and may leave an unfinished file; or no run. `Service`
composes `Sales` and `Backup`, jobs of one scheduler that share no table and no lock: a behaviour
follows one of them.

### Dedup: `core/dedup.py`

`stored` are the rows of `events` with their `canonical_id`, `canonicals` the rows of
`canonical_events`. `Arrive` stores and links a new event; `Relist` overwrites a known one, which
is never linked again. `NormOf` and `Similar` are constants (`normalize_title` and the fuzzy
score), so the results hold for any of them. The queries of `link_canonical` have no order; the
candidate and the sibling they find are left open.

### Lists, Listing, News, Rules: pure operators

`Lists` has what Python does to lists: `Only` is a comprehension with a condition, `SortBy` a stable
`sorted`. Both are written in closed form (the members at some places, the members by rank), since
nothing can be proved about `SelectSeq` and `SortSeq`.
`Listing` is `web/listing.py` on sequences of rows, with the local days of `fmt.py` and the
selections and filters of `web/routes.py` (`KindFilters`, `InWindow`, `Filtered`, and `Offered`,
the genres and venues a page offers): instants are ticks, a day has `DayLen` of them, local time is
`Offset` behind (one offset; the change of the clocks is left out), a month has `MonthLen` days.
`News` is `changes.py`, `Watchlist.matches` and `build_digest` on rows of the change log. `Rules`
is `evaluate`, the default rules and `in_quiet_hours`.

### Views: the lists over a changing catalogue

`Views` composes them: `Store`, `Update`, `MarkRemoved` and `Reappear` change the rows of
`Dedup`, the set `gone` of removed ones and the `log`, each in the branch of `_upsert_batch` that
it maps; `Pass` moves the clock. Which events arrive, and when one has been missed often enough,
is `Ingest`'s subject and left open here. `Marks` are the marks of a row (new, watched), by which
`Requests` filter. The properties apply the operators to every state.
`JoinPage` is what the templates make of "Show more": the first section of the next page has no
heading of its own where `continued` says that it goes on with the last one.

## 3. What the runs check

Each run is a `.cfg` of an MC module. The bounds named here are constants of the modules.

| Run | Bounds | Shows |
|---|---|---|
| `lock` | 2 pollers, 2 collectors (one conditional), 1 event each, 3 polls, threshold 2 | `TypeOK`, `BaselineIsOpening`, `ContextFresh`, `PollsAreSerial`, and under fairness `PollEnds` |
| `full_reads` | 1 unconditional collector, 1 event, varied content, 5 polls, threshold 2, 2 ticks | `FullReadsRemove`, `RemovalEarned` with errors and crashes between the misses, `LogReplays`, `HashCoherent` |
| `dispatch` | 2 dispatchers, 2 changes, all faults of a push | `TypeOK`, `PushesAccounted`, `PushesAreOutbox` |
| `daily` | the job and an admin call, 2 changes, 2 ticks a day, refused and unanswered mails, crashes | `DigestsAreOutbox`, and under fairness `EventuallyDigested` |
| `backfill` | 2 items, one with a date and one without, budget 1, 2 ticks, threshold 2 | `TypeOK`, `ValidatorIsStored`, and under fairness `BackfillEnds` |
| `fetches` | Ticketmaster: 2 segments, 4 events, 2 windows of 2 days, 2 pages of 1, 1 retry, 1 change; Paramount: 6 posts, 5 pages of 1, 4 edits; Bullock: 2 store pages, 4 film pages, any edits | `TypeOK`, `WindowsAreComplete`, `PagesAreComplete`, `RunsKeepTheirDates`, and under fairness `FetchesEnd` |
| `service` | 1 collector, 7 items, 8 ticks of 2 days, 2 edits, all faults of a warning; 6 nights, 2 copies kept | `TypeOK`, `AnnouncedIsNext`, `AlertsAreOpenings`, `AlertsCountSales`, `WarningsAreOutbox`, `BackupsKept` |
| `views` | 3 events of 10 raw ones, 3 log rows, 2 instants, 2 requests, pages of 2 | `TypeOK`, `OneCanonicalPerTitle`; lists: `LabelsOnce`, `PagesJoin`, `MergeKeepsTimes`, `DashboardOnce`, `ShowsOnce`, `FiltersListSomething`; changes: `NewsIsListedOnce`, `FeedMatchesDigest`, `WatchedLeads`, `AlertsAreNews` |

Why these bounds are enough:

- *Polls.* Five polls are enough for the removal counter: after the one that learns the event,
  two misses with one or two failures or crashes around them, or a miss, a listing and two misses.
  A 304 between misses takes a conditional collector with a second event that keeps its index from
  being empty; no passing run has one, and the theorem `RemovalsAreEarned` (section 5) covers it,
  for all bounds. Two pollers are enough for every interference of polls, since a waiter does
  nothing but wait.
- *Channels.* Two dispatchers are all there are. Two changes let one be pushed while the other's
  key is pending, and let a change arrive while a digest's mail is on its way.
- *Fetches.* Two feed items and a budget of one let one starve the other. Two windows share their
  boundary day, two segments share two events, and pages of one make every event a page boundary.
  Six posts are more than the five pages of one reach, and four edits let one post be removed, come
  back and be removed again between two pages, each time pulling up a post that no page then shows:
  so that `PagesAreComplete` must count removals, not removed posts. The film pages have every way a range is printed: both years, one year, over the new year,
  over a February 29, one date, none.
- *Sales.* The items have presales that overlap, follow each other and sell VIP packages, with
  and without a public date, and cancelled; two edits suffice to postpone and restore a sale.
  Two days of four ticks let a warning cross midnight. With two copies kept, six nights let
  every pattern of failures fill and push out both.
- *Lists.* Three rows are the fewest in which two are split by a third, and the raw events of
  `ListRaws` are chosen so that every label, a date-only start, two shows of a day, a twin with
  another spelling and a show inside a longer run occur. The instants are the evening of a
  Wednesday, already Thursday in UTC, and a Sunday, on which the weekend is the next one.

Counters of observers saturate at `MaxCount`.

**Disagreements with the documentation** (runs that end in a violation; details under
`findings` in `PROJECT.json`):

| Run | The documentation says | The code does |
|---|---|---|
| `304` | absent from `removal_threshold` polls means removed | 304s reset the count of events the index does not list |
| `overlap` | at-most-once delivery | two runs overlap: pushed twice |
| `held` | held, not dropped | the digest that fires when quiet hours end claims an alert they held, which is then never pushed |
| `seven_pm` | the calendar day an event falls on in Austin | an instant at UTC midnight is taken for a bare date: a 7 PM show is listed a day late, without its time |

Others were met while modelling and have no run of their own; the models contain the code's
behaviour.

- *Ingestion.* An event that reappears with a changed field is logged `updated` rather than
  `added` (`docs/architecture.md:72`, `core/ingest.py:136`). A run of dates that becomes a single later date keeps
  its `ends_at`, by which the upcoming show counts as over and is never removed
  (`core/ingest.py:177`); `FullReadsRemove` speaks of the date the code goes by. A status that was lost and is learned again is filed as `updated`, so
  that a sale that opens meanwhile is not alerted (`core/ingest.py:151`).
- *Sales.* `attrs` that a source no longer sends are kept (`core/diff.py:33`): sale dates of a
  cancelled event go on being announced, and a `status_note` is never cleared. This is why
  `AnnouncedIsNext` speaks of events whose item was not edited since they were stored. A presale
  that goes on after the public sale, or runs where Discovery gives no public date, interrupts what
  `_ticket_status` calls a sale: when it closes, tickets can be on sale again and are alerted again
  (`collectors/ticketmaster.py:128`). This is why `AlertsCountSales` allows two alerts a sale there,
  and one elsewhere.
- *Bullock.* A run with one printed year that begins on a February 29 and ends in another year
  loses its start, and where the year it ends in is the leap year, the correction of the start's
  year raises and fails the fetch (`collectors/bullock_imax.py:66`).
- *Deduplication.* Exact title matches are linked without the date guard
  (`docs/architecture.md:81`, `core/dedup.py:46`).
- *Lists.* On its first day a run is over `RUNS_FOR` after its first performance, although a run
  still playing is not over (`web/listing.py:108`, `web/listing.py:114`). In a digest a group that
  is watched only for the lineup of a later performance stays out of the watchlist section, and
  its date range can run backwards where dates and instants mix. The digest groups films and
  other events apart, the feed does not. A ticket status that becomes unknown at a favorite venue
  is pushed though `is_news` says it is no news.

**Fairness.** `Ingest`: weak fairness of each poller's own steps. Every await of a poll has a
timeout and a bounded number of retries, and whatever it raises ends in `FetchError` or
`Escape`. `Notify`: weak fairness of the clock and of each call's steps (sockets have timeouts);
strong fairness of the daily job's start, its query, its mail and its commit, i.e. a job that is
tried day after day is not struck at the same step for ever, neither by SMTP, nor by a crash.
A poll that holds the write lock at every commit for ever is left out of `daily`. `Details`: weak
fairness of polls (hourly) and strong fairness of a poll that reads a page it asks for: a page
that is asked for again and again answers at times. `Readers`: weak fairness of `Answered`: a
request is answered, refused or times out (`HTTP_TIMEOUT`); nothing says that it succeeds.
`Service` has no liveness property and no fairness.

**Deadlock** is checked wherever the system goes on for ever. The runs of `MCIngest` stop at
`MaxPolls` and `MaxTime`, those of `MCViews` at `MaxEvents`, `MaxLog` and the last instant,
`service` at the last night.

## 4. What is proved

Every theorem holds for all values of the constants that their assumptions admit. The assumptions say
that constants have their types, that `None` and the like are none of the values they are mixed
with, and little more: `ItemAssumption` that an item has finitely many presales, none equal to its
public sale, and that placeholder dates lie beyond the run; `WalkAssumption` that there is a segment
and that ids and days are numbers; `ParamountAssumption` that posts are finitely many and tags are text;
`BullockAssumption` that there is a page to serve; `ViewsAssumption` that instants and titles are
numbers, a page holds a row at least and a request has one of the kinds that the page offers; of its
other filters `FiltersListSomething` takes each genre and each venue in turn. TLC
evaluates each of them on a passing run.

`IngestProofs`, for any collectors, keys, pollers, raw events, threshold and number of polls:

1. `TypeCorrect`: `Spec => []TypeOK`. That `running` rows are never counted below zero needs
   the poll lock, so the invariant is `CoreInv`: types, `Exclusive` (a poller with a run in
   progress holds the lock) and `RunRecorded` (its collector has a `running` row).
2. `ContextsAreFresh`: `[]ContextFresh`. By `Exclusive`, the poll that ends a run is the only
   one with a run, so nothing it read has changed.
3. `RemovalsAreEarned`: the action property `RemovalEarned`. The invariant `MissedCounted` says
   that an active event's `missing_polls` never exceeds its streak; a 304 resets the count of
   active events only, which is why the invariant speaks of those.
4. `AbsenceIsRemoval`: `[]FullReadsRemove`, the converse. For a collector that sends no validator
   the count is also at least the streak, as long as the event is active and its date not over
   (`MissesCount`). That such a collector is never answered 304 needs 2: the condition is part of the
   run's context.
5. `BaselinesAreTheOpening`: `[]BaselineIsOpening`. `OpeningInv` ties four tables together: a
   collector has no successful run exactly as long as no batch was read, a validator exists only
   then, an event exists exactly if it has rows, and the events of the first batch exist. The
   middle part is what excludes a 304 as the first success.
6. `HashesAgree`: `[]HashCoherent`, from what `resolve` and the informational branch of
   `_upsert_batch` leave in the row.
7. `LogIsAHistory`: `[]LogReplays`. The invariant, `ReplayOf`, says it of each event: each
   row's old values are those of the last row before it that has the field, and the last rows agree
   with what is stored. `ReplayRow` extends it by the row of a step, whose pairs are
   `FieldChanges` of the stored and the new content.
8. `PollingIsSerial`: `Spec => PollsAreSerial`, the refinement of `SerialPolls`. By 1 and 2 the
   context of the run that ends a fetch is what `SerialPolls` would read now.

`EventFate` is the lemma the data proofs share: a step lists, misses, touches or leaves alone
each event.

`DetailsProofs`, for any finite feed, budget, horizon and threshold:

9. `DetailsTypeCorrect`: `[]TypeOK`. A missing count stays within the threshold because only an
   active event is counted on, so the invariant adds that an active event is below it.
10. `ValidatorsAreStored`: `[]ValidatorIsStored`. Rows are never deleted, and the step that stores
    a validator stores a row for each item of that feed, failed pages or not.

`OutboxProofs`, `NotifyProofs`, for any number of changes and digesters, with the two dispatchers that
the code can run at once:

11. `RecordsFollowTelling`: in `Outbox`, what is recorded was told and what was told was due. Its
    invariant adds that what a teller has in hand is due. Every implementation inherits it.
12. `NotifyTypeCorrect`: `[]TypeOK` of `Notify`.
13. `PushesImplementOutbox` and `DigestsImplementOutbox`: `Spec => PushesAreOutbox` and
    `Spec => DigestsAreOutbox`. The invariant, `NotifyInv`, adds to the types what
    the locals of a call say of the world: what a dispatcher notes as pushed was taken by ntfy, it
    stamps only what has a key or is about to get one, what a digest lists was in an accepted mail
    before it stamps, and a digest that stamps without a mail has nothing worth listing.
14. `EveryPushIsAccounted`: `[]PushesAccounted`. `AccountInv` adds that a dispatcher about to
    send does not hold the change's key already, so that the number of holders grows with the push;
    a commit that would add a key a second time is a rollback, which turns what is pending into
    losses.

`ServiceProofs`, for any items, collectors, length of a day, nights and copies kept; these are
theorems of `Service`, so of all its jobs:

15. `ServiceTypeCorrect`: `[]TypeOK`.
16. `WarningsImplementOutbox`: `Spec => WarningsAreOutbox`. A key on its way to the commit was taken
    by ntfy (`WarningInv`).
17. `AlertsAreForOpenSales`: the action property `AlertsAreOpenings`. Of the changes of a
    Ticketmaster event the default rules push only a transition to `presale` or `on_sale` (37), and
    `_ticket_status` says so only of an open sale or on Discovery's word (`StatusIsOpen`); a kept
    status is no transition.
18. `AlertsAreNotRepeated`: `[]AlertsCountSales`. `Budget(i, t)` is the most alerts there can
    have been when the reading at `t` is stored: one for each presale that opened, one for the public
    sale, and where a presale can interrupt a sale one for each return. `AlertInv` says that the
    alerts stay within it and that, once there was one, the stored status is that of the last
    reading: a status that opens again does so because a sale opened since, which adds to the budget.
19. `AnnouncementsAreRight`: `[]AnnouncedIsNext`. `AnnounceInv` says what is stored of an item that
    was not edited since: its public sale as it is, and of its presales the next one as of the last
    reading, or one that began before it (`PresaleAsOf`). A presale that was the next one at a
    reading and has not begun is still the next one.
20. `NewestCopyIsKept` and `CopiesAreKept`: the newest whole copy is never removed, and an older one
    only for `Keep` newer files, one of them whole (`[]BackupsKept`), whatever nights fail and
    wherever a pruning stops. The invariant, `GivenUpForNewer`, says of each lost copy that
    the files newer than it number `Keep` at least; a pruning from the oldest on leaves that many.

`ReadersProofs`, for any listings, limits, segments, windows, pages and changes:

21. `WindowsAreRead`: `[]WindowsAreComplete`. `ReadInv` says of the window in progress, if it stood
    still, that the events of ranks below the page in progress have been collected (`PagesRead`), and
    of the windows before it that they are whole, disturbed, reported or too long for the pages
    (`Whole`). An event is on the page of its rank, so that what is left to show is that an empty page
    is the end of the answer: ranks have no gaps (`NoGap`), which a least counterexample
    shows.
22. `PagesAreRead`: `[]PagesAreComplete`. `PmInv` counts the posts that no page to
    come will have, those not read that were pulled up over the boundary of the last page (`Passed`):
    a removal pulls up one at most. A post that stays listed sinks no further than posts were added
    (`NotFarDown`). The proof refuted an earlier form of the property that counted removed posts (see section 3).
23. `ReadersTypeCorrect`: `[]TypeOK` of all three collectors: no request beyond a limit, and no more
    posts counted than the pages read can hold (`PmCount`).
24. `FilmsKeepTheirDates`: `[]RunsKeepTheirDates`. `FilmsAreRead` says that the films of a
    finished fetch were made of the cards it read, and that none of their starts is a day that does
    not exist (it would have raised). `DatesOfAPrint` goes
    through the ways a range is printed: the year that is not printed is the right one, also over the
    new year.

`ViewsProofs`, for any raw events, normal forms, similarity, calendar, watchlists and number of
events:

25. `CatalogueIsDedup`: `Spec => DedupSpec`, a refinement: each step of `Views` is a step of
    `Dedup` or leaves its variables alone. `TitlesHaveOneCanonical` and `LinksKeepTheKind`:
    `[]OneCanonicalPerTitle`, `[]KindsMatch`, from `Linking` (the inductive `DedupInv` of `Dedup`). A
    new canonical event is made only if no row of that kind has the normal form, and a link to an
    existing one stays within the kind.
26. `ViewsTypeCorrect`: `[]TypeOK`. `ViewsInv`, the inductive invariant of all that follows, adds
    `LogOK`: rows of the log are about stored events, carry a status only if their type has
    one and are not from the future, and every removed event was logged so. `AlertsAreAlwaysNews`: `[]AlertsAreNews`, for any change, from 37.

The lists follow from `ViewsInv` by what the operators do to *any* rows, so the arguments are about
loops. An induction is a set of numbers that has 0 and is closed under the next one (`UpTo`, from the
least number outside); `Recursion`, `FoldExists` and `FoldSteps` turn a recursive function and a fold of
the library into a run of states `h[0], h[1], ...`, one for each element. `PickedIs` and `RankedIs`
say what a filter and a sort return, `FlattenIs` what a concatenation does. `Merging` is the one
loop that the lists share: where each element either joins the row of its tag or starts one, there is
one row for each tag, in the order of their first elements, and it has absorbed the elements of
that tag in turn.

27. `PerformancesKeepTheirTimes`: `[]MergeKeepsTimes`. By `Merging`, a row of `merge_performances` has
    the times of the performances of one show and day; since they are sorted, the first is the
    earliest (`MergedIs`).
28. `LabelsHeadOneSection`: `[]LabelsOnce`. A section ends where the label changes, so that labels
    must not return: `runs_last` orders rows into blocks whose labels differ (`BlockSays`), and within
    the block of days to come the label of a day that lies between two of one label is theirs
    (`LabelsConvex`), on any weekday.
29. `HorizonIsShownOnce`: `[]DashboardOnce`. Of the two lists of the dashboard, the weekend has the
    days that the other leaves out, and merging leaves one row a show and day (`MergedOnce`).
30. `FiltersNeverDeadEnd`: `[]FiltersListSomething`. A genre or venue that a page offers is that
    of a row which the other filters let through; one it does not offer is ignored.
31. `ShowsCountOnce`: `[]ShowsOnce`. By `Merging` with the show as the tag; the performances of a
    show are as many as its rows, and the last of them is the latest date of the run.
32. `NewsHasOneRow`: `[]NewsIsListedOnce`. `SectionGroups` says that the rows of a digest are in
    one-to-one correspondence with the tags (`NewsTag`) of its items and that each counts the items of
    its tag, so that the counts add up to the changes that are news.
33. `WatchedNewsLeads`: `[]WatchedLeads`, from the same: a row in front stands for
    watched changes, and they are all in front. It speaks of watchlists that have no lineup among their
    keywords (see section 3).
34. `FeedAgreesWithDigest`: `[]FeedMatchesDigest`. The feed does not list films apart, which
    regroups nothing: a group has films only or none (`FeedGroups`). Both then tell the same (`ToldSame`).
35. `PagesJoinAgain`: `[]PagesJoin`. A list of sections is its entries, a row with its label,
    grouped by label (`FlatGrouped`, `JoinedIs`). A page is a stretch of the entries, cut
    so that a row whose label is stuck to the end of the last page continues it (`PageContinues`); by
    induction over the pages, what the pages make together is the grouping of the entries up to there
    (`PagesJoinUp`).

`CommonProofs`, the lemmas above and two results about the operators of `Rules`:

36. `QuietIsAnArc`: `InQuietHours` holds exactly when less time has passed since `start` than from
    `start` to `end`, for any bounds; equal bounds are no quiet hours.
37. `DefaultAlerts`: of any change the default rules push, favorites aside, only that tickets can
    be bought or an event that another source than Ticketmaster added, and only the former in
    quiet hours; the proof follows the first matching rule.

## 5. What is only model-checked, and what is not modelled

Only model-checked:

- Liveness (`PollEnds`, `EventuallyDigested`, `BackfillEnds`, `FetchesEnd`): fairness and ENABLED are
  beyond the prover.
- Each run that ends in a violation, of course.

Every invariant and every action property of the passing runs, and each refinement, is proved. What
remains bounded is what the theorems say of the *code* through the abstractions of section 2, and of
`Views` that it has one offset from UTC.

Not modelled:

- Reading RSS, HTML and JSON into fields; pictures, formats, notes and film data; wording, captions
  and HTML. These decide what a field says, not what happens to it.
- The throttle of `collectors/base.py`: collectors send one request at a time, so that its
  per-host lock never has two users.
- The change of the clocks; `views` has one offset.
- Adding and removing watches, single inserts and deletes behind forms; the API and the remaining
  pages, which show single rows.
- Creating venues inside `_upsert_batch`; it touches no state of `Ingest`. `event_url` is
  informational like `image_url`.
- Metrics, which nothing reads back; loading of settings; start and stop, of which only the
  restart matters (`Crash`, `Die`).

## 6. Plan

Polls, channels, collectors, lists, sales and backup are modelled, with the abstract `SerialPolls`,
`Outbox` and `Dedup`, and what the runs check of safety is proved. What is left, in this order:

1. The change of the clocks in `Listing`, as an offset that depends on the day.
2. The composition of `Ingest` with `Notify` over one change log, in which a removal and its
   digest, or a status and its alert, are followed end to end.
3. A refinement of `Details` to `Upsert`, so that its poll is a batch of `SerialPolls`.
