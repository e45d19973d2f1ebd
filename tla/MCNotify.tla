------------------------------ MODULE MCNotify ------------------------------
(***************************************************************************)
(* Instances of Notify for TLC: the classes the default rules produce.     *)
(***************************************************************************)
EXTENDS Notify

\* tickets on sale; a show added by a single-venue source; an update; a changed
\* link or a status that was lost.
OnSale == [action |-> "immediate", always |-> TRUE, news |-> TRUE]
Added == [action |-> "immediate", always |-> FALSE, news |-> TRUE]
Updated == [action |-> "digest", always |-> FALSE, news |-> TRUE]
Churn == [action |-> "digest", always |-> FALSE, news |-> FALSE]

AlertClasses == {OnSale, Added}
DigestClasses == {Updated, Churn}
OneAdded == {Added}
=============================================================================
