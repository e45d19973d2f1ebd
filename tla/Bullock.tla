------------------------------- MODULE Bullock -------------------------------
(***************************************************************************)
(* One fetch of the Bullock collector (collectors/bullock_imax.py): the    *)
(* films of the ticket store, enriched from the museum's film page, both   *)
(* read with a conditional GET and read again when they are unchanged.     *)
(*                                                                         *)
(* A store page is a sequence of links [category, form, title]; a film     *)
(* page a sequence of cards [title, dates, run], dates being the parts of  *)
(* a printed range, [day, year] with Missing for a year that is not printed,  *)
(* and run the range that the museum means.  Titles are normal forms.  A   *)
(* date is a year and the number of the day in it; LeapDay exists in every *)
(* fourth year.                                                            *)
(***************************************************************************)
EXTENDS Integers, Sequences, SequencesExt

CONSTANTS
    StorePage, FilmPage,    \* what the two sites may serve
    LeapDay,                \* the number of February 29
    Missing

ASSUME BullockAssumption ==
    StorePage # {} /\ FilmPage # {} /\ Missing \notin StorePage \cup FilmPage

VARIABLES
    site,       \* site[url]: the page served now
    validator,  \* validator[url]: the page that the stored validator stands for
    before,     \* the validators before the fetch, as committed
    buPc,       \* "idle", the request in progress, or "failed", "drift"
    copy,       \* copy[url]: the page read by this fetch, or Missing
    films       \* what the last fetch returned

buVars == <<site, validator, before, buPc, copy, films>>

Url == {"store", "films"}

Nothing == [u \in Url |-> Missing]

-----------------------------------------------------------------------------
(* Parsing.                                                                *)

Exists(date) == date.day # LeapDay \/ date.year % 4 = 0

Precedes(d, e) == d.year < e.year \/ (d.year = e.year /\ d.day < e.day)

\* build: the date of a part, with another year where it has none.
Build(part, year) ==
    LET date == [day |-> part.day, year |-> IF part.year = Missing THEN year ELSE part.year]
    IN IF Exists(date) THEN date ELSE Missing

NoRange == [start |-> Missing, end |-> Missing]

\* The parts with a printed year.
Dated(parts) == {i \in DOMAIN parts : parts[i].year # Missing}

\* Mutant: a range that ends before it starts is left as it is.
DateRangeAsPrinted(parts) ==
    IF Dated(parts) = {} THEN NoRange
    ELSE [start |-> Build(parts[1], parts[Min(Dated(parts))].year),
          end |-> IF Len(parts) > 1 THEN Build(Last(parts), parts[Max(Dated(parts))].year) ELSE Missing]

\* _parse_date_range: a start without a year gets the first one printed, an end the last
\* one; a range that then ends before it starts began the year before.
DateRange(parts) ==
    LET start == Build(parts[1], parts[Min(Dated(parts))].year)
        end == IF Len(parts) > 1 THEN Build(Last(parts), parts[Max(Dated(parts))].year) ELSE Missing
    IN IF Dated(parts) = {} THEN NoRange
       ELSE IF Missing \notin {start, end} /\ Precedes(end, start)
            THEN [start |-> [start EXCEPT !.year = end.year - 1], end |-> end]
            ELSE [start |-> start, end |-> end]

\* How the museum prints a run: not at all, as one day, or as its first and last day, where
\* the first has no year if it is the last such day before the end.
Date(d) == d \in [day : Nat, year : Int] /\ Exists(d)

PrintedAs(run, dates) ==
    \/ run = NoRange /\ dates = << >>
    \/ Date(run.start) /\ run = [start |-> run.start, end |-> Missing] /\ dates = <<run.start>>
    \/ /\ Date(run.start) /\ Date(run.end) /\ run = [start |-> run.start, end |-> run.end]
       /\ ~Precedes(run.end, run.start)
       /\ \/ dates = <<run.start, run.end>>
          \/ /\ dates = <<[day |-> run.start.day, year |-> Missing], run.end>>
             /\ \A year \in (run.start.year + 1)..run.end.year :
                    LET later == [day |-> run.start.day, year |-> year]
                    IN Exists(later) => Precedes(run.end, later)

ASSUME MuseumAssumption ==
    /\ Missing \notin Int \cup [day : Nat, year : Int]
    /\ \A page \in FilmPage :
        /\ DOMAIN page = 1..Len(page) /\ Len(page) \in Nat
        /\ \A i \in DOMAIN page : PrintedAs(page[i].run, page[i].dates)

\* _parse_store: a category is what its last film link says, else its first link for a
\* member screening.
Categories(links) ==
    LET named(c, form) == SelectSeq(links, LAMBDA l : l.category = c /\ l.form = form)
        category(c) == IF named(c, "film") # << >> THEN Last(named(c, "film"))
                       ELSE Head(named(c, "member"))
    IN {category(c) : c \in {l.category : l \in {l \in ToSet(links) : l.form # "other"}}}

\* The card of a title; the last one wins.
Card(cards, title) == SelectLastInSeq(cards, LAMBDA card : card.title = title)

\* The events of the two pages.
Engagements(links, cards) ==
    {LET i == Card(cards, c.title)
     IN [category |-> c.category, title |-> c.title,
         dates |-> IF i = 0 \/ cards[i].dates = << >> THEN NoRange ELSE DateRange(cards[i].dates)]
        : c \in Categories(links)}

-----------------------------------------------------------------------------
(* The fetch.                                                              *)

BuInit ==
    /\ site = [u \in Url |-> IF u = "store" THEN CHOOSE page \in StorePage : TRUE
                              ELSE CHOOSE page \in FilmPage : TRUE]
    /\ validator = Nothing /\ before = Nothing
    /\ buPc = "idle" /\ copy = Nothing /\ films = {}

BuFetch ==
    /\ buPc \in {"idle", "failed", "drift"}
    /\ buPc' = "ask_store"
    /\ before' = validator
    /\ copy' = Nothing
    /\ UNCHANGED <<site, validator, films>>

\* The request that follows, after what has been read.
After(copies, pc) ==
    CASE pc = "ask_store" -> "ask_films"
      [] pc # "ask_store" /\ copies["store"] = Missing -> "again_store"
      [] pc # "ask_store" /\ copies["store"] # Missing /\ copies["films"] = Missing -> "again_films"
      [] OTHER -> "idle"

\* The url of the request in progress.
Asked == IF buPc \in {"ask_store", "again_store"} THEN "store" ELSE "films"

\* The pages have been read: a store without films is drift, a February 29 moved to a year
\* without one raises, and both roll the session back.
BuStep(copies, stored) ==
    LET pc == After(copies, buPc)
        found == IF pc = "idle" THEN Engagements(copies["store"], copies["films"]) ELSE {}
        raises == \E film \in found : film.dates.start # Missing /\ ~Exists(film.dates.start)
        ended == CASE pc = "idle" /\ found = {} -> "drift"
                   [] raises -> "failed"
                   [] OTHER -> pc
    IN /\ copy' = copies
       /\ buPc' = ended
       /\ validator' = IF ended \in {"drift", "failed"} THEN before ELSE stored
       /\ films' = IF ended = "idle" THEN found ELSE films
       /\ UNCHANGED <<site, before>>

\* A conditional GET whose validator still stands gets a 304.
BuUnchanged ==
    /\ buPc \in {"ask_store", "ask_films"}
    /\ validator[Asked] = site[Asked]
    /\ BuStep(copy, validator)

\* The page is read; a conditional GET stores its validator, if the site sends one.
BuReceive(sent) ==
    /\ buPc \in {"ask_store", "ask_films", "again_store", "again_films"}
    /\ sent => buPc \in {"ask_store", "ask_films"}
    /\ BuStep([copy EXCEPT ![Asked] = site[Asked]],
              IF sent THEN [validator EXCEPT ![Asked] = site[Asked]] ELSE validator)

\* A request fails, and the session is rolled back.
BuError ==
    /\ buPc \in {"ask_store", "ask_films", "again_store", "again_films"}
    /\ buPc' = "failed"
    /\ validator' = before
    /\ UNCHANGED <<site, before, copy, films>>

BuRequest == BuUnchanged \/ (\E sent \in BOOLEAN : BuReceive(sent)) \/ BuError

\* A site serves another page.
BuEdit ==
    /\ \/ \E page \in StorePage : site' = [site EXCEPT !["store"] = page]
       \/ \E page \in FilmPage : site' = [site EXCEPT !["films"] = page]
    /\ UNCHANGED <<validator, before, buPc, copy, films>>

BuNext == BuFetch \/ BuRequest \/ BuEdit

-----------------------------------------------------------------------------
\* Every film has the dates of its run, as the museum printed them on the page that this
\* fetch read: with the year of the end only, also when the run goes over the new year, or
\* with both.  Only the start is lost of a run that began on a February 29 and ends in
\* another year, if its own is not printed (bullock_imax.py:41-70, 164-175).
RunsKeepTheirDates ==
    buPc = "idle" /\ copy["films"] # Missing =>
        \A film \in films :
            LET i == Card(copy["films"], film.title)
                card == copy["films"][i]
            IN i # 0 => \/ film.dates = card.run
                        \/ /\ film.dates = [card.run EXCEPT !.start = Missing]
                           /\ card.dates[1] = [day |-> LeapDay, year |-> Missing]
                           /\ card.run.start.year < card.run.end.year
=============================================================================
