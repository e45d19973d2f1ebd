-------------------------------- MODULE Sale --------------------------------
(***************************************************************************)
(* What AEM makes of the sale dates of a Ticketmaster event: the status    *)
(* and the dates that collectors/ticketmaster.py derives from an item of   *)
(* the Discovery API at an instant, what the events table keeps of them,   *)
(* and the announcements that fmt.py and web/listing.py derive from that   *)
(* later on.  Pure operators.                                              *)
(*                                                                         *)
(* An item is [code, public, presales]; a sale is [start, end], a presale  *)
(* also says whether it sells VIP packages.  "cancelled" stands for the    *)
(* four codes of schedule news, an instant from Far on for a placeholder.  *)
(***************************************************************************)
EXTENDS Integers, FiniteSetsExt

CONSTANTS
    Far,        \* _PLACEHOLDER_YEAR
    None

\* _in_window.
Open(sale, t) ==
    /\ sale.start # None /\ sale.start <= t
    /\ sale.end = None \/ sale.end >= t

\* Mutant: VIP packages count.
AnyPresales(item) == item.presales

TicketPresales(item) == {p \in item.presales : ~p.vip}

\* Mutant: a presale that is open already is still the next one.
FirstPresale(item, t) ==
    LET starts == {p.start : p \in TicketPresales(item)} \ {None}
    IN IF starts = {} THEN None ELSE Min(starts)

\* _next_presale: the start of the earliest one that has not opened yet.
NextPresale(item, t) ==
    LET starts == {s \in {p.start : p \in TicketPresales(item)} \ {None} : s > t}
    IN IF starts = {} THEN None ELSE Min(starts)

\* A public sale with a date that is no placeholder.
RealStart(item) == item.public.start # None /\ item.public.start < Far

\* _ticket_status.
TicketStatus(item, t) ==
    LET presale == \E p \in TicketPresales(item) : Open(p, t)
    IN CASE item.code = "cancelled" -> None
         [] item.code # "cancelled" /\ RealStart(item) /\ t < item.public.start ->
                IF presale THEN "presale" ELSE "coming_soon"
         [] item.code = "offsale" /\ ~(RealStart(item) /\ t < item.public.start) ->
                IF RealStart(item) THEN "sold_out" ELSE "unknown"
         [] OTHER ->
                IF Open(item.public, t) THEN "on_sale"
                ELSE IF presale THEN "presale"
                ELSE IF item.code = "onsale" THEN "on_sale" ELSE "unknown"

\* The sale part of _map_event; None where it sets no status or leaves a key out.
Mapped(item, t) ==
    [status |-> TicketStatus(item, t),
     public_sale_start |-> item.public.start,
     presale_start |-> NextPresale(item, t)]

NotStored == [status |-> "unknown", public_sale_start |-> None, presale_start |-> None]

\* Mutant: a reading without a status overwrites the stored one.
ResolvedAsRead(raw, old) == raw

\* resolve: no status keeps the old one, and a key that is left out stays as it was.
Resolved(raw, old) == [f \in DOMAIN raw |-> IF raw[f] = None THEN old[f] ELSE raw[f]]

-----------------------------------------------------------------------------
(* What is announced of a stored event at an instant.                      *)

Ahead(at, t) == at # None /\ at > t /\ at < Far

\* upcoming_sale.
UpcomingSale(event, t) ==
    IF Ahead(event.public_sale_start, t) THEN event.public_sale_start ELSE None

\* next_sale.
NextSale(event, t) ==
    LET ahead == {s \in {event.presale_start, event.public_sale_start} : Ahead(s, t)}
    IN IF ahead = {} THEN None ELSE Min(ahead)

\* The sale badges of build_row, each with the instant it announces.
SaleBadges(event, t) ==
    LET soon(at) == IF at = None THEN {} ELSE {<<"soon", at>>}
    IN CASE event.status = "sold_out" -> {<<"sold-out", None>>}
         [] event.status = "presale" -> {<<"presale", None>>} \cup soon(UpcomingSale(event, t))
         [] event.status \notin {"sold_out", "presale"} ->
                IF NextSale(event, t) = None /\ event.status = "coming_soon"
                THEN {<<"soon", None>>} ELSE soon(NextSale(event, t))

\* The dashboard's list of sales to come.
OnSaleSoon(event, t) ==
    NextSale(event, t) # None \/ event.status \in {"presale", "coming_soon"}
=============================================================================
