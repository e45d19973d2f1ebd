-------------------------------- MODULE News --------------------------------
(***************************************************************************)
(* What a reader is told of the change log: changes.py, watch.py and       *)
(* build_digest of notify/digest.py.  Pure operators on                    *)
(*   log:    the rows of change_log in the order of their ids, each        *)
(*           [type, event, fields, undated, to, at]: the fields of         *)
(*           field_changes, those of them with a date on one side only,    *)
(*           the new ticket status (None if it is not among the fields)    *)
(*           and detected_at;                                              *)
(*   stored: the events, by id, as Dedup keeps them;                       *)
(*   wl:     a watchlist, [keywords, venues].                              *)
(***************************************************************************)
EXTENDS Listing

NoiseFields == {"url", "end"}

-----------------------------------------------------------------------------
(* What counts.                                                            *)

\* The fields change_details has a phrase for.
Details(change) == change.fields \ (NoiseFields \cup change.undated)

IsNews(change) ==
    CASE change.type = "ticket_status" -> change.to # "unknown"
      [] change.type = "updated"       -> Details(change) # {}
      [] OTHER                         -> change.type # "baseline"

\* Watchlist.matches: a keyword is found in the title or among the performers.
Watched(raw, wl) ==
    raw.venue \in wl.venues \/ wl.keywords \cap {raw.title, raw.lineup} # {}

-----------------------------------------------------------------------------
(* Performances of one show.                                               *)

Item(id, change, stored, wl) ==
    LET raw == stored[change.event].raw
    IN [id |-> id, type |-> change.type, title |-> raw.title, venue |-> raw.venue,
        movie |-> raw.kind = "movie", start |-> raw.start, details |-> Details(change),
        to |-> change.to, watched |-> Watched(raw, wl), count |-> 1]

\* Mutant: the venue is no part of a show.
ShowKeyAnyVenue(item) == <<item.title>>

ShowKey(item) == <<item.title, item.venue>>

ShowAndStatus(item) == <<ShowKey(item), item.to>>

SortedBy(items, Key(_)) == SortBy(items, LAMBDA i, j : Key(items[i]) < Key(items[j]))

StartOrFirst(item) == IF item.start = NoDate THEN -1 ELSE item.start

\* Items of one key merge into the one that starts first, with their count.
GroupItems(items, Key(_)) ==
    SortedBy(FoldLeft(LAMBDA out, item :
                 LET i == SelectInSeq(out, LAMBDA first : Key(first) = Key(item))
                 IN IF i = 0 THEN Append(out, item) ELSE [out EXCEPT ![i].count = @ + 1],
                 << >>, SortedBy(items, StartOrFirst)),
             LAMBDA item : item.id)

OfType(items, type) == Only(items, LAMBDA i : i.type = type)

-----------------------------------------------------------------------------
(* The digest.                                                             *)

Chosen(ids, log) == Only([id \in DOMAIN log |-> id], LAMBDA id : id \in ids)

\* The items of the ids that are news, in their order.
NewsItems(ids, log, stored, wl) ==
    LET news == Only(ids, LAMBDA id : IsNews(log[id]))
    IN [n \in DOMAIN news |-> Item(news[n], log[news[n]], stored, wl)]

\* Mutant: watched rows are shown in their usual section as well.
UsualSectionAll(items) == items

\* What is left of a section when the watched rows have moved to the top.
UsualSection(items) == Only(items, LAMBDA i : ~i.watched)

\* build_digest, of the changes with these ids; the sections are watchlist, movies_added,
\* concerts_added, ticket_changes, updated and removed.
BuildDigest(ids, log, stored, wl) ==
    LET changes == Only(Chosen(ids, log), LAMBDA id : log[id].type # "baseline")
        items   == NewsItems(changes, log, stored, wl)
        added   == OfType(items, "added")
        usual   == <<GroupItems(Only(added, LAMBDA i : i.movie), ShowKey),
                     GroupItems(Only(added, LAMBDA i : ~i.movie), ShowKey),
                     GroupItems(OfType(items, "ticket_status"), ShowAndStatus),
                     OfType(items, "updated"),
                     GroupItems(OfType(items, "removed"), ShowKey)>>
    IN [sections      |-> <<Only(FlattenSeq(usual), LAMBDA i : i.watched)>>
                          \o [s \in DOMAIN usual |-> UsualSection(usual[s])],
        minor_updates |-> Len(changes) - Len(items),
        change_ids    |-> changes]

\* The rows of a digest that a reader sees; `listed' is their number.
RowsOf(digest) == FlattenSeq(digest.sections)

-----------------------------------------------------------------------------
(* The feed of the /changes page.                                          *)

NoWatchlist == [keywords |-> {}, venues |-> {}]

\* The entries of one day; the ids arrive latest first.
FeedOf(ids, log, stored) ==
    LET items == NewsItems(Reverse(Chosen(ids, log)), log, stored, NoWatchlist)
    IN GroupItems(OfType(items, "added"), ShowKey)
       \o GroupItems(OfType(items, "ticket_status"), ShowAndStatus)
       \o OfType(items, "updated")
       \o GroupItems(OfType(items, "removed"), ShowKey)

\* Mutant: the instant is taken for a date at UTC midnight.
DetectedOnAsDate(change) == LocalDay(change.at)

\* The local date of the instant at which a change was detected.
DetectedOn(change) == Today(change.at)

Feed(log, stored) ==
    [day \in {DetectedOn(log[id]) : id \in {id \in DOMAIN log : IsNews(log[id])}} |->
        FeedOf({id \in DOMAIN log : DetectedOn(log[id]) = day}, log, stored)]
=============================================================================
