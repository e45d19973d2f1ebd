----------------------------- MODULE MCService -----------------------------
(* A bounded instance of Service for TLC: two days of four ticks. *)
EXTENDS Service

Sold(start, end) == [start |-> start, end |-> end]
Pre(start, end, vip) == [start |-> start, end |-> end, vip |-> vip]
NoSale == Sold(None, None)

\* Announced without a date; two presales that do not meet, and VIP packages all along;
\* a presale that overlaps the public sale, one that goes on after it; a placeholder
\* date; cancelled before the sale; sold out.
Items ==
    LET tour == [code |-> "offsale", public |-> Sold(5, 7),
                 presales |-> {Pre(1, 1, FALSE), Pre(3, 4, FALSE), Pre(0, None, TRUE)}]
    IN {tour,
        [tour EXCEPT !.code = "onsale"],
        [tour EXCEPT !.code = "cancelled"],
        [tour EXCEPT !.code = "onsale", !.public = NoSale],
        [code |-> "onsale", public |-> Sold(2, None), presales |-> {Pre(1, 4, FALSE)}],
        [code |-> "onsale", public |-> Sold(2, 3), presales |-> {Pre(1, 5, FALSE)}],
        [code |-> "offsale", public |-> Sold(Far, None), presales |-> {Pre(2, None, TRUE)}]}
=============================================================================
