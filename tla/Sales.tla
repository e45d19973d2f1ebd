------------------------------- MODULE Sales -------------------------------
(***************************************************************************)
(* One Ticketmaster event through the polls of run_poll (scheduler.py):    *)
(* its sales open and close and its item is edited while polls read it,    *)
(* fail and are warned about (notify_collector_failure).                   *)
(*                                                                         *)
(* A fetch takes the time once, when it begins, and judges by it what it   *)
(* reads later.  The other collectors only matter in that they fail.       *)
(***************************************************************************)
EXTENDS Sale, Rules

CONSTANTS
    Item,           \* what Discovery may say of the event
    Collector,      \* the enabled collectors, "ticketmaster" among them
    DayLen,         \* ticks of a UTC day
    MaxTime,        \* bound: the last instant
    MaxEdits,       \* bound: edits of the item
    SaleFaults      \* which faults of the environment can happen

ASSUME SalesAssumption ==
    /\ DayLen \in Nat \ {0} /\ MaxTime \in Nat /\ MaxEdits \in Nat
    /\ "ticketmaster" \in Collector
    /\ SaleFaults \subseteq {"send_fails", "lost_ack", "db_locked", "crash"}

\* Instants are after the first poll; placeholders lie beyond the life of the program.
ASSUME ItemAssumption ==
    /\ Far \in Nat /\ MaxTime < Far
    /\ None \notin Nat /\ None \notin {"unknown", "coming_soon", "presale", "on_sale", "sold_out"}
    /\ \A i \in Item :
        /\ IsFiniteSet(i.presales) /\ i.public \notin i.presales
        /\ \A sale \in {i.public} \cup i.presales :
              sale.start \in Nat \cup {None} /\ sale.end \in Nat \cup {None}

VARIABLES
    clock,      \* the current instant
    item,       \* what Discovery says
    event,      \* the sale columns of the stored event, or None
    poll,       \* the poll in progress
    opsKeys,    \* <<collector, day>> whose key is in notifications_sent
    \* observer variables
    edits,      \* edits so far
    steady,     \* the item was not edited since the event was stored
    asOf,       \* the instant by which the stored event was judged
    alerts,     \* immediate alerts since the last edit
    due,        \* <<collector, day>> that a warning was due for
    warned      \* <<collector, day>> whose warning reached ntfy

tables == <<event, opsKeys>>
observers == <<edits, steady, asOf, alerts>>
warnings == <<due, warned>>
salesVars == <<clock, item, event, poll, opsKeys, edits, steady, asOf, alerts, due, warned>>

NoPoll == [pc |-> "idle", at |-> 0, failed |-> {}, key |-> None]

Day == clock \div DayLen

SalesInit ==
    /\ clock = 0
    /\ item \in Item
    /\ event = None
    /\ poll = NoPoll
    /\ opsKeys = {}
    /\ edits = 0 /\ steady = TRUE /\ asOf = 0 /\ alerts = 0
    /\ due = {} /\ warned = {}

\* run_poll takes the lock; the fetch takes the time.
BeginPoll ==
    /\ poll.pc = "idle"
    /\ poll' = [NoPoll EXCEPT !.pc = "fetch", !.at = clock]
    /\ UNCHANGED <<clock, item, tables, observers, warnings>>

\* The status the change row of old -> new reports, if any, and its type: learning a
\* status is no transition of the sale.
ChangeOf(old, new) ==
    [change_type |-> CASE old = None -> "added"
                       [] old # None /\ old.status \notin {new.status, "unknown"} -> "ticket_status"
                       [] OTHER -> "updated",
     ticket_status_to |-> IF old = None \/ old.status = new.status THEN None ELSE new.status,
     source |-> "ticketmaster", venue |-> None]

\* Mutant: a status is alerted whether or not it was stored before.
AlertedAgain(old, new) == new.status \in {"presale", "on_sale"} /\ old # None

\* The rules push the change at once.
Alerted(old, new) == Evaluate(ChangeOf(old, new), DefaultRules, {}).action = "immediate"

\* The collectors have been read; what Discovery says by now is stored, unless its
\* fetch failed.
Fetched(failed) ==
    LET new == Resolved(Mapped(item, poll.at), IF event = None THEN NotStored ELSE event)
    IN /\ poll.pc = "fetch"
       /\ poll' = [poll EXCEPT !.pc = "report", !.failed = failed]
       /\ IF "ticketmaster" \in failed THEN UNCHANGED <<event, asOf, alerts>>
          ELSE /\ event' = new
               /\ asOf' = poll.at
               /\ alerts' = IF Alerted(event, new) THEN alerts + 1 ELSE alerts
       /\ UNCHANGED <<clock, item, opsKeys, edits, steady, warnings>>

\* notify_collector_failure begins: the key of the day, by the clock of that moment.
Report(c) ==
    /\ poll.pc = "report" /\ c \in poll.failed
    /\ poll' = [poll EXCEPT !.pc = "check", !.failed = @ \ {c}, !.key = <<c, Day>>]
    /\ due' = due \cup {<<c, Day>>}
    /\ UNCHANGED <<clock, item, tables, observers, warned>>

\* Mutant: the key is not looked up.
NotWarned(key) == FALSE

WarnedBefore(key) == key \in opsKeys

CheckKey ==
    /\ poll.pc = "check"
    /\ poll' = [poll EXCEPT !.pc = IF WarnedBefore(poll.key) THEN "report" ELSE "warn"]
    /\ UNCHANGED <<clock, item, tables, observers, warnings>>

\* ntfy takes the warning, and says so unless the answer is lost.
Warn(answered) ==
    /\ poll.pc = "warn"
    /\ answered \/ "lost_ack" \in SaleFaults
    /\ poll' = [poll EXCEPT !.pc = IF answered THEN "record" ELSE "report"]
    /\ warned' = warned \cup {poll.key}
    /\ UNCHANGED <<clock, item, tables, observers, due>>

WarnFails ==
    /\ poll.pc = "warn" /\ "send_fails" \in SaleFaults
    /\ poll' = [poll EXCEPT !.pc = "report"]
    /\ UNCHANGED <<clock, item, tables, observers, warnings>>

RecordWarning ==
    /\ poll.pc = "record"
    /\ poll' = [poll EXCEPT !.pc = "report"]
    /\ opsKeys' = opsKeys \cup {poll.key}
    /\ UNCHANGED <<clock, item, event, observers, warnings>>

\* The database is locked for too long: the exception ends run_poll.
RecordFails ==
    /\ poll.pc = "record" /\ "db_locked" \in SaleFaults
    /\ poll' = NoPoll
    /\ UNCHANGED <<clock, item, tables, observers, warnings>>

EndPoll ==
    /\ poll.pc = "report" /\ poll.failed = {}
    /\ poll' = NoPoll
    /\ UNCHANGED <<clock, item, tables, observers, warnings>>

Die ==
    /\ "crash" \in SaleFaults /\ poll.pc # "idle"
    /\ poll' = NoPoll
    /\ UNCHANGED <<clock, item, tables, observers, warnings>>

\* Discovery says something else of the event.
Edit ==
    /\ edits < MaxEdits
    /\ item' \in Item \ {item}
    /\ edits' = edits + 1
    /\ steady' = (event = None)
    /\ alerts' = 0
    /\ UNCHANGED <<clock, tables, poll, asOf, warnings>>

Later ==
    /\ clock < MaxTime
    /\ clock' = clock + 1
    /\ UNCHANGED <<item, tables, poll, observers, warnings>>

SalesNext ==
    \/ BeginPoll
    \/ \E failed \in SUBSET Collector : Fetched(failed)
    \/ \E c \in Collector : Report(c)
    \/ CheckKey
    \/ \E answered \in BOOLEAN : Warn(answered)
    \/ WarnFails
    \/ RecordWarning
    \/ RecordFails
    \/ EndPoll
    \/ Die
    \/ Edit
    \/ Later

-----------------------------------------------------------------------------
(* Properties.                                                             *)

\* The sales of the item where seats are sold.
SeatSales == {item.public} \cup {p \in item.presales : ~p.vip}

\* The starts of those that are real and ahead of t.
SalesAhead(t) == {s \in {sale.start : sale \in SeatSales} : s # None /\ t < s /\ s < Far}

\* Unless the item was edited meanwhile, what the dashboard announces at any moment
\* between two polls is right: the badge names the earliest real ticket sale ahead, or, when
\* a presale opened since the last reading, one of those behind it, and the event is in the
\* list of sales to come.  VIP packages, placeholders and the dates kept from earlier
\* readings never get in (fmt.py:147-156, web/listing.py:86-96, web/routes.py:75-79).
AnnouncedIsNext ==
    steady /\ event # None =>
        LET ahead == SalesAhead(clock)
            opened == \E s \in SalesAhead(asOf) : s <= clock
            announced == {b[2] : b \in SaleBadges(event, clock)} \ {None}
        IN /\ announced \subseteq ahead
           /\ ahead # {} /\ event.status \notin {"sold_out", "presale"} /\ ~opened
                => announced = {Min(ahead)}
           /\ ahead # {} /\ ~opened => OnSaleSoon(event, clock)

\* An alert that tickets can be bought is pushed only when they could be when the fetch
\* began: a ticket presale or the public sale was open, or Discovery said so
\* (ticketmaster.py:125-177 with core/ingest.py:148-157 and config.py:54-56).
AlertsAreOpenings ==
    [][alerts' > alerts =>
          \/ item.code = "onsale"
          \/ \E sale \in SeatSales : Open(sale, poll.at)]_salesVars

\* Every ticket presale is over by the end of the public sale, which has a date.
PublicIsLast(i) ==
    /\ RealStart(i)
    /\ \A p \in TicketPresales(i) :
          i.public.end = None \/ (p.end # None /\ p.end <= i.public.end)

\* Polls that repeat, fail or read at odd moments do not repeat an alert: between two
\* edits there is at most one for each ticket sale that can open.  Only presales that
\* go on after the public sale, or for which Discovery gives no public date, can alert
\* twice, since when they close tickets may be on sale again (ticketmaster.py:125-177).
AlertsCountSales ==
    LET sales == Cardinality(SeatSales)
    IN /\ alerts <= 2 * sales
       /\ PublicIsLast(item) => alerts <= sales
       /\ ~RealStart(item) => alerts < 2 * sales

\* The warnings about failing polls implement Outbox: no key is committed for a warning
\* that ntfy did not take, and a day's warning is not sent again once its key is there,
\* through midnight, lost answers, a locked database and crashes (notify/dispatch.py:145-158).
Ops == INSTANCE Outbox WITH
    Item    <- Collector \X (0..MaxTime \div DayLen),
    Teller  <- {"poll"},
    offered <- due,
    claimed <- opsKeys,
    told    <- warned,
    hand    <- [t \in {"poll"} |-> IF poll.pc = "warn" THEN {poll.key} ELSE {}]

WarningsAreOutbox == Ops!Spec
=============================================================================
