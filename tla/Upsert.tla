------------------------------- MODULE Upsert -------------------------------
(***************************************************************************)
(* The tables of events, changes and validators, and what one successful   *)
(* poll of one collector does to them: _upsert_batch and _touch_all of     *)
(* core/ingest.py.  Polling them is Ingest's subject.                      *)
(*                                                                         *)
(* Event keys are per source, so each table is a function of the collector *)
(* and the key.  The order of an event's change rows is kept; the order of *)
(* rows of different events is not, since no property depends on it.       *)
(***************************************************************************)
EXTENDS Diff, Sequences

CONSTANTS
    Collector,      \* the enabled collectors
    Conditional,    \* those that read their index with a conditional GET while
                    \* no event waits for a detail refresh, and raise
                    \* NotModified on a 304 (acl_live)
    IndexField,     \* the fields that the index resource, and so its
                    \* validator, covers
    Key,            \* source keys
    Raw,            \* the raw events the sources can list
    Threshold       \* cfg.removal_threshold

\* A row of the events table.
Event == [data: Content, hash: Digest, status: {"active", "removed"}, missing: Nat]

VARIABLES
    events,     \* the events table
    log,        \* log[c][k]: the change_log rows of the event, by id
    cache,      \* http_cache: what the stored validator of c's index stands for
    now         \* the clock

-----------------------------------------------------------------------------
(* The upsert of one event.                                                *)

ChangeType == {"baseline", "added", "updated", "removed", "ticket_status"}

Row == [type: ChangeType, changes: Changes]

\* The event's (last) date is over: dropping off the calendar is no removal.
Past(d) ==
    LET relevant == Or(d.ends_at, d.starts_at)
    IN relevant # None /\ relevant < now

Stored(ev) == IF ev = None THEN Blank ELSE ev.data

\* Mutant: the hash is computed once, when the event is created.
ListedStaleHash(ev, raw) ==
    LET res == Resolve(raw, Stored(ev))
    IN [data |-> res, hash |-> IF ev = None THEN ContentHash(res) ELSE ev.hash,
        status |-> "active", missing |-> 0]

\* The event after the source listed it.  Unless something that counts has
\* changed, only the informational fields are saved.
Listed(ev, raw) ==
    LET res == Resolve(raw, Stored(ev))
    IN IF \/ ev = None
          \/ ev.hash # ContentHash(res)
          \/ FieldChanges(ev.data, res) # NoChange
       THEN [data |-> res, hash |-> ContentHash(res), status |-> "active", missing |-> 0]
       ELSE [ev EXCEPT !.data.image_url = res.image_url, !.status = "active", !.missing = 0]

\* Learning a status (unknown -> X) is not a transition of the sale.
IsTransition(ch) == ch.ticket_status # None /\ ch.ticket_status[1] # "unknown"

\* The change row of a listed event, if any: a sequence of at most one row.
ListedRows(ev, raw, first) ==
    LET res == Resolve(raw, Stored(ev))
        ch  == FieldChanges(ev.data, res)
        One(type, changes) == <<[type |-> type, changes |-> changes]>>
    IN CASE ev = None ->
                One(IF first THEN "baseline" ELSE "added", NoChange)
         [] ev # None /\ ch # NoChange ->
                One(IF IsTransition(ch) THEN "ticket_status" ELSE "updated", ch)
         [] ev # None /\ ch = NoChange /\ ev.hash = ContentHash(res) /\ ev.status = "removed" ->
                One("added", NoChange)
         [] OTHER -> << >>

Counts(ev) == ev # None /\ ev.status = "active" /\ ~Past(ev.data)

\* Mutant: one missed poll too few.
GoesEarly(ev) == Counts(ev) /\ ev.missing + 2 >= Threshold

\* Mutant: one missed poll too many.
GoesLate(ev) == Counts(ev) /\ ev.missing >= Threshold

Goes(ev) == Counts(ev) /\ ev.missing + 1 >= Threshold

\* The event after a batch that does not list it.
Missed(ev) ==
    IF Counts(ev)
    THEN [ev EXCEPT !.missing = ev.missing + 1,
                    !.status = IF Goes(ev) THEN "removed" ELSE "active"]
    ELSE ev

MissedRows(ev) == IF Goes(ev) THEN <<[type |-> "removed", changes |-> NoChange]>> ELSE << >>

\* The event after a 304.
Touched(ev) == IF ev # None /\ ev.status = "active" THEN [ev EXCEPT !.missing = 0] ELSE ev

-----------------------------------------------------------------------------
(* What a source lists.                                                    *)

\* A batch holds the first raw event of each key: later ones are skipped.
\* A conditional collector raises ParseDriftError on an empty index.
Batches(c) ==
    {b \in UNION {[S -> Raw] : S \in SUBSET Key} : c \in Conditional => DOMAIN b # {}}

\* What a batch's index looks like, all that its validator can tell apart.
Index(batch) == [k \in DOMAIN batch |-> [f \in IndexField |-> batch[k][f]]]

\* Active events that wait for a detail page: no status or no picture yet.
RefreshKeys(c) ==
    {k \in Key : /\ events[c][k] # None
                 /\ events[c][k].status = "active"
                 /\ \/ events[c][k].data.ticket_status = "unknown"
                    \/ events[c][k].data.image_url = None}

-----------------------------------------------------------------------------
(* A successful poll.                                                      *)

\* The source was read in full: its batch is stored.
StoreBatch(c, batch, first, conditional) ==
    LET seen == DOMAIN batch
    IN /\ events' = [events EXCEPT ![c] =
            [k \in Key |-> IF k \in seen THEN Listed(events[c][k], batch[k])
                                         ELSE Missed(events[c][k])]]
       /\ log' = [log EXCEPT ![c] =
            [k \in Key |-> log[c][k] \o
                IF k \in seen THEN ListedRows(events[c][k], batch[k], first)
                              ELSE MissedRows(events[c][k])]]
       /\ cache' = IF conditional THEN [cache EXCEPT ![c] = Index(batch)] ELSE cache

\* _touch_all, after a 304.
TouchAll(c) == events' = [events EXCEPT ![c] = [k \in Key |-> Touched(events[c][k])]]
=============================================================================
