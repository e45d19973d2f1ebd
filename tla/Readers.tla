------------------------------ MODULE Readers ------------------------------
(***************************************************************************)
(* The collectors that read a source in several requests: Ticketmaster     *)
(* (Walk), Paramount and Bullock.  poll_collectors (core/ingest.py) runs   *)
(* one fetch after the other and the sources have nothing in common, so a  *)
(* behaviour follows one of them, through fetch after fetch.               *)
(***************************************************************************)
EXTENDS Walk, Paramount, Bullock

VARIABLE reader     \* the collector that the behaviour follows

vars == <<walkVars, pmVars, buVars, reader>>

Init ==
    /\ WalkInit /\ PmInit /\ BuInit
    /\ reader \in {"ticketmaster", "paramount", "bullock"}
    /\ reader # "ticketmaster" => listed = [i \in Item |-> None]

Next ==
    /\ \/ reader = "ticketmaster" /\ WalkNext /\ UNCHANGED <<pmVars, buVars>>
       \/ reader = "paramount" /\ PmNext /\ UNCHANGED <<walkVars, buVars>>
       \/ reader = "bullock" /\ BuNext /\ UNCHANGED <<walkVars, pmVars>>
    /\ UNCHANGED reader

\* The request in progress is answered, refused or times out.
Answered ==
    \/ Request /\ UNCHANGED <<pmVars, buVars, reader>>
    \/ PmRequest /\ UNCHANGED <<walkVars, buVars, reader>>
    \/ BuRequest /\ UNCHANGED <<walkVars, pmVars, reader>>

\* Every request comes to an end (HTTP_TIMEOUT, collectors/base.py).
Spec == Init /\ [][Next]_vars /\ WF_vars(Answered)

Asking ==
    \/ state = "ask"
    \/ pmState = "ask"
    \/ buPc \in {"ask_store", "ask_films", "again_store", "again_films"}

TypeOK ==
    /\ WalkTypeOK
    /\ board \in Seq(Post) /\ IsInjective(board)
    /\ pmState \in {"idle", "ask", "done", "failed", "drift"}
    /\ pmPage \in 1..PageLimit /\ totalPages \in Nat /\ returned <= totalPages * PerPage
    /\ validator["store"] \in StorePage \cup {Missing}
    /\ validator["films"] \in FilmPage \cup {Missing}
    /\ buPc = "again_store" => copy["store"] = Missing
    /\ buPc = "again_films" => copy["store"] # Missing /\ copy["films"] = Missing

\* Every fetch ends: also under rate limiting, with a listing that grows while it is read,
\* and with pages that stay unchanged (ticketmaster.py:327-343, paramount.py:212,
\* bullock_imax.py:151-158).
FetchesEnd == Asking ~> ~Asking
=============================================================================
