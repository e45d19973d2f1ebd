------------------------------ MODULE MCViews ------------------------------
(* Bounded instances of Views for TLC.  A day has four ticks and local time is two *)
(* behind: a local day begins at tick 2, its shows at local ticks 2 and 3 ("7 PM"  *)
(* and later) fall on ticks 0 and 1 of the next day in UTC.                        *)
EXTENDS Views

At(day, tick) == day * DayLen + tick

\* `dateOnly' says whether the start is a date without a showtime.
Listed(title, kind, venue, start, end, status, dateOnly) ==
    [title |-> title, kind |-> kind, venue |-> venue, start |-> start, end |-> end,
     status |-> status, url |-> 1, lineup |-> 9, dateOnly |-> dateOnly]

\* A show on Wednesday (day 2), late on Thursday as the first day of a longer run, twice on
\* Friday and once without a time, there and elsewhere, and a week later; a film on long
\* runs at two places, and one that is undated and has nearly the title of the show.
ListRaws ==
    LET late == Listed(1, "concert", "hall", At(4, 1), None, "unknown", FALSE)
        bare == Listed(1, "concert", "hall", At(4, 0), None, "unknown", TRUE)
    IN {[late EXCEPT !.start = At(2, 3)], [late EXCEPT !.url = 2, !.end = At(8, 0)],
        Listed(1, "concert", "hall", At(4, 2), None, "on_sale", FALSE),
        Listed(1, "concert", "hall", At(4, 3), None, "sold_out", FALSE),
        bare, [bare EXCEPT !.venue = "museum"],
        [bare EXCEPT !.venue = "museum", !.start = At(11, 0)],
        Listed(2, "movie", "museum", At(0, 0), At(20, 0), "unknown", TRUE),
        Listed(3, "movie", "hall", At(33, 0), At(60, 0), "on_sale", TRUE),
        Listed(4, "movie", "museum", None, None, "unknown", TRUE)}

\* Titles 2 and 3 are one film in two spellings; 4 is like 1.
Norms == <<1, 2, 2, 4>>
AlikeNorms == {<<1, 4>>, <<4, 1>>}

\* Title 4 has the genre of title 1.
Genres == <<"rock", None, None, "rock">>

\* On Wednesday (day 2) at UTC midnight and on Sunday.
Instants == {At(3, 0), At(6, 3)}

\* A show at 7 PM.
SevenRaws == {Listed(1, "concert", "hall", At(4, 0), None, "on_sale", FALSE)}

Asked(kind, marks) ==
    [kind |-> kind, marks |-> marks, genre |-> None, venue |-> None, when |-> None, day |-> None]

AskedPages == {Asked("movie", {"new"}), Asked("concert", {"watched"})}

\* By title and by venue.
WatchedOnes == {[keywords |-> {2}, venues |-> {"hall"}]}
=============================================================================
