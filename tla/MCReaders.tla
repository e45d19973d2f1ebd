----------------------------- MODULE MCReaders -----------------------------
(* A bounded instance of Readers for TLC. *)
EXTENDS Readers

\* Ticketmaster: four events, two of them in both segments, one at a venue that is not
\* wanted; windows of two days.
Twice == <<"Music", "Film">>

Facts(segments, slug) ==
    [segments |-> segments, slug |-> slug, name |-> slug, city |-> "austin", genres |-> {"rock"}]

Known ==
    <<Facts({"Music"}, "hall"), Facts({"Music", "Film"}, "hall"),
      Facts({"Music", "Film"}, "hall"), Facts({"Music"}, "barn")>>

\* Paramount: a post that is over, one just within the grace, runs, and both tags that
\* speak of sales in both orders.
Posts ==
    <<[performances |-> {5}, tags |-> <<"on-sale-now", "film", "sold-out">>],
      [performances |-> {-2, 3}, tags |-> <<"on-sale-fri", "on-sale-now">>],
      [performances |-> {-3}, tags |-> <<"on-sale-now">>],
      [performances |-> {-2}, tags |-> << >>],
      [performances |-> {1, 2, 9}, tags |-> <<"sold-out", "on-sale-now">>],
      [performances |-> {4}, tags |-> << >>]>>

\* Bullock: stores with and without films; film pages with every way to print a range.
Link(c, form, title) == [category |-> c, form |-> form, title |-> title]

Stores ==
    {<<Link(1, "film", 1), Link(2, "member", 2), Link(2, "film", 3), Link(3, "film", 4),
       Link(1, "other", 5), Link(4, "member", 5), Link(4, "member", 6)>>,
     <<Link(1, "other", 1)>>}

On(day, year) == [day |-> day, year |-> year]

Run(title, start, end, dates) ==
    [title |-> title, dates |-> dates, run |-> [start |-> start, end |-> end]]

FilmPages ==
    {<<Run(1, On(200, 2026), On(365, 2026), <<On(200, Missing), On(365, 2026)>>),
       Run(3, On(200, 2026), On(4, 2027), <<On(200, Missing), On(4, 2027)>>),
       Run(4, On(200, 2026), On(4, 2027), <<On(200, 2026), On(4, 2027)>>),
       Run(5, On(60, 2028), On(90, 2028), <<On(60, Missing), On(90, 2028)>>)>>,
     <<Run(1, On(60, 2028), On(4, 2029), <<On(60, Missing), On(4, 2029)>>),
       Run(4, On(9, 2027), Missing, <<On(9, 2027)>>),
       Run(4, Missing, Missing, << >>)>>,
     <<Run(1, On(60, 2024), On(15, 2028), <<On(60, Missing), On(15, 2028)>>)>>,
     << >>}
=============================================================================
