------------------------------ MODULE MCIngest ------------------------------
(***************************************************************************)
(* Instances of Ingest for TLC.  The raw events are chosen per run, since  *)
(* they decide which of the content rules are exercised.                   *)
(***************************************************************************)
EXTENDS Ingest

CONSTANTS A, AA, B,     \* titles; A and AA have one normal form
          Link, Support, Pic

MCNorm == [t \in Title |-> IF t = AA THEN A ELSE t]

MCIndexField == {"title", "starts_at"}

Plain(title, starts, status) ==
    [title |-> title, starts_at |-> starts, ends_at |-> None, ticket_url |-> None,
     ticket_status |-> status, tour |-> None, image_url |-> Pic]

\* A listing without its detail page, the same after the detail page was read, and one retitled.
ListingRaws == {Plain(A, 1, None), Plain(A, 1, "on_sale"), Plain(B, 1, "on_sale")}

\* Dates that move, vanish and become a run, and titles that differ in punctuation
\* only; links and a lineup that come and go.
ContentRaws ==
    {Plain(A, 1, "on_sale"),
     Plain(AA, None, None),
     [Plain(AA, 0, "sold_out") EXCEPT !.ends_at = 1, !.ticket_url = Link, !.tour = Support],
     [Plain(B, 1, "unknown") EXCEPT !.ticket_url = ""]}
=============================================================================
