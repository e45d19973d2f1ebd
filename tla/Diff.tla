-------------------------------- MODULE Diff --------------------------------
(***************************************************************************)
(* Content resolution, hashing and field-level diffing: core/diff.py.      *)
(*                                                                         *)
(* What a source says of an event (a RawEvent) and what the events table   *)
(* stores of it are records with the same content fields.  None in a raw   *)
(* event means "not learned on this poll".  `tour' stands for any of the   *)
(* MEANINGFUL_ATTRS and `image_url' for any informational attribute; a     *)
(* collector that has no value for an attribute leaves its key out, which  *)
(* is None here.                                                           *)
(***************************************************************************)
EXTENDS Naturals

CONSTANTS
    Title,      \* titles as the sources print them
    Norm,       \* Norm[t]: dedup.normalize_title(t)
    Url,        \* ticket links; "" is the empty link some sources send
    Tour,       \* values of a meaningful attribute
    Image,      \* values of an informational attribute
    None        \* Python's None

Status == {"unknown", "coming_soon", "presale", "on_sale", "sold_out"}

Time == Nat

Content == [title: Title, starts_at: Time \cup {None}, ends_at: Time \cup {None},
            ticket_url: Url \cup {None}, ticket_status: Status,
            tour: Tour \cup {None}, image_url: Image \cup {None}]

RawEvent == [title: Title, starts_at: Time \cup {None}, ends_at: Time \cup {None},
             ticket_url: Url \cup {None}, ticket_status: Status \cup {None},
             tour: Tour \cup {None}, image_url: Image \cup {None}]

ASSUME DiffAssumption ==
    /\ None \notin Title \cup Url \cup Tour \cup Image \cup Status
    /\ None \notin Time
    /\ LET Value == {Norm[t] : t \in Title} \cup Time \cup Status \cup Url \cup Tour \cup {None}
       IN None \notin Value \X Value
    /\ Norm = [t \in Title |-> Norm[t]]

-----------------------------------------------------------------------------
\* What resolve falls back on when the event is not stored yet.
Blank == [starts_at |-> None, ends_at |-> None, ticket_url |-> None,
          ticket_status |-> "unknown", tour |-> None, image_url |-> None]

Or(new, old) == IF new = None THEN old ELSE new

\* Merge a raw event with the stored one: None preserves.
Resolve(raw, stored) ==
    [title         |-> raw.title,
     starts_at     |-> Or(raw.starts_at, stored.starts_at),
     ends_at       |-> Or(raw.ends_at, stored.ends_at),
     ticket_url    |-> Or(raw.ticket_url, stored.ticket_url),
     ticket_status |-> Or(raw.ticket_status, stored.ticket_status),
     tour          |-> Or(raw.tour, stored.tour),
     image_url     |-> Or(raw.image_url, stored.image_url)]

\* The value of each field that field_changes compares: titles by their
\* normal form, an empty ticket link like a missing one.
Compared(d) ==
    [title         |-> Norm[d.title],
     starts_at     |-> d.starts_at,
     ends_at       |-> d.ends_at,
     ticket_status |-> d.ticket_status,
     ticket_url    |-> IF d.ticket_url = "" THEN None ELSE d.ticket_url,
     tour          |-> d.tour]

\* The digest is taken to be injective, so it is represented by what it
\* covers.  Unlike field_changes it tells an empty link from a missing one.
ContentHash(d) == [Compared(d) EXCEPT !.ticket_url = d.ticket_url]

NormTitle == {Norm[t] : t \in Title}

Digest == [title: NormTitle, starts_at: Time \cup {None}, ends_at: Time \cup {None},
           ticket_status: Status, ticket_url: Url \cup {None}, tour: Tour \cup {None}]

\* Mutant: a value that appears or vanishes is no change.
PairOfKnown(old, new) == IF None \in {old, new} \/ old = new THEN None ELSE <<old, new>>

Pair(old, new) == IF old = new THEN None ELSE <<old, new>>

\* {field: [old, new]} for the fields that differ; None stands for a field the
\* dictionary does not hold.
FieldChanges(stored, resolved) ==
    LET a == Compared(stored)
        b == Compared(resolved)
    IN [title         |-> Pair(a.title, b.title),
        starts_at     |-> Pair(a.starts_at, b.starts_at),
        ends_at       |-> Pair(a.ends_at, b.ends_at),
        ticket_status |-> Pair(a.ticket_status, b.ticket_status),
        ticket_url    |-> Pair(a.ticket_url, b.ticket_url),
        tour          |-> Pair(a.tour, b.tour)]

DiffField == {"title", "starts_at", "ends_at", "ticket_status", "ticket_url", "tour"}

\* The empty dictionary.
NoChange == [title |-> None, starts_at |-> None, ends_at |-> None,
             ticket_status |-> None, ticket_url |-> None, tour |-> None]

Changes == [title: (NormTitle \X NormTitle) \cup {None},
            starts_at: ((Time \cup {None}) \X (Time \cup {None})) \cup {None},
            ends_at: ((Time \cup {None}) \X (Time \cup {None})) \cup {None},
            ticket_status: (Status \X Status) \cup {None},
            ticket_url: ((Url \cup {None}) \X (Url \cup {None})) \cup {None},
            tour: ((Tour \cup {None}) \X (Tour \cup {None})) \cup {None}]
=============================================================================
