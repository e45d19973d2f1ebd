----------------------------- MODULE SerialPolls -----------------------------
(***************************************************************************)
(* What polling promises: every successful poll of a collector takes       *)
(* effect as if it read its context, its source and the tables and stored  *)
(* its batch in one step.  There are no pollers, no lock, no failures and  *)
(* no crashes here; Ingest, which has them all, implements this.           *)
(***************************************************************************)
EXTENDS Upsert

VARIABLE polled     \* the collectors that were polled successfully before

serialVars == <<events, log, cache, now, polled>>

Init ==
    /\ events = [c \in Collector |-> [k \in Key |-> None]]
    /\ log = [c \in Collector |-> [k \in Key |-> << >>]]
    /\ cache = [c \in Collector |-> None]
    /\ now = 0
    /\ polled = {}

\* Nothing that is known of the source waits for a detail page.
ReadsConditionally(c) == c \in Conditional /\ RefreshKeys(c) = {}

\* The first batch ever is the baseline.
Poll(c) ==
    /\ \E batch \in Batches(c) : StoreBatch(c, batch, c \notin polled, ReadsConditionally(c))
    /\ polled' = polled \cup {c}
    /\ UNCHANGED now

NotModified(c) ==
    /\ ReadsConditionally(c)
    /\ cache[c] # None
    /\ TouchAll(c)
    /\ polled' = polled \cup {c}
    /\ UNCHANGED <<log, cache, now>>

Tick ==
    /\ now' = now + 1
    /\ UNCHANGED <<events, log, cache, polled>>

Next ==
    \/ \E c \in Collector : Poll(c) \/ NotModified(c)
    \/ Tick

Spec == Init /\ [][Next]_serialVars
=============================================================================
