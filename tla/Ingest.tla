------------------------------- MODULE Ingest -------------------------------
(***************************************************************************)
(* Polling: poll_collectors of core/ingest.py, the poll lock of            *)
(* scheduler.py and the conditional GET of collectors/base.py, on the      *)
(* tables of Upsert.                                                       *)
(*                                                                         *)
(* A poller (the hourly job, or a call of /api/admin/poll) takes the poll  *)
(* lock, then runs its collectors one at a time.  A collector's run reads  *)
(* its context from the database, awaits the source, and ends in one       *)
(* transaction: the whole batch and the run's "success" (FetchOk), a 304   *)
(* (FetchNotModified), or a rollback and the run's "error" (FetchError).   *)
(* A crash loses whatever is not committed.                                *)
(***************************************************************************)
EXTENDS Upsert

CONSTANTS
    Poller,         \* concurrent callers of run_poll
    MaxPolls,       \* bound: calls of run_poll
    MaxTime         \* bound: the clock

ASSUME IngestAssumption ==
    /\ Conditional \subseteq Collector
    /\ IndexField \subseteq DOMAIN Blank \cup {"title"}
    /\ Raw \subseteq RawEvent
    /\ Threshold \in Nat
    /\ MaxPolls \in Nat
    /\ MaxTime \in Nat
    /\ None \notin Event
    /\ \A S \in SUBSET Key : S # None

VARIABLES
    lock,       \* poll_lock: its holder, then the waiters (asyncio.Lock is FIFO)
    todo,       \* todo[p]: the collectors p has still to run
    job,        \* job[p]: p's run in progress, with the context read at its start
    runs,       \* runs[c]: the poll_runs rows of c, counted by status
    polls,      \* calls of run_poll so far, for the bound
    \* observer variables: no guard and no other variable depends on them
    streak,     \* streak[c][k]: successful polls of c, up to the last one, in a
                \* row in which the source did not list k
    born,       \* born[c][k]: the compared content of the event's first row
    opening     \* opening[c]: the keys of the first batch read from c

dbVars == <<events, log, runs, cache>>
ghostVars == <<streak, born, opening>>
vars == <<lock, todo, job, events, log, runs, cache, now, polls, streak, born, opening>>

-----------------------------------------------------------------------------
(* Pollers.                                                                *)

Waiting(p) == \E i \in DOMAIN lock : lock[i] = p

\* Mutant: run_poll without the lock.
HoldsUnlocked(p) == Waiting(p)

Holds(p) == lock # << >> /\ Head(lock) = p

TypeOK ==
    /\ lock \in Seq(Poller)
    /\ todo \in [Poller -> SUBSET Collector]
    /\ job \in [Poller -> [c: Collector, first: BOOLEAN, conditional: BOOLEAN] \cup {None}]
    /\ events \in [Collector -> [Key -> Event \cup {None}]]
    /\ log \in [Collector -> [Key -> Seq(Row)]]
    /\ runs \in [Collector -> [running: Nat, success: Nat, error: Nat]]
    /\ DOMAIN cache = Collector
    /\ now \in Time
    /\ polls \in Nat
    /\ streak \in [Collector -> [Key -> Nat]]
    /\ born \in [Collector -> [Key -> Digest \cup {None}]]
    /\ opening \in [Collector -> (SUBSET Key) \cup {None}]

Init ==
    /\ lock = << >>
    /\ todo = [p \in Poller |-> {}]
    /\ job = [p \in Poller |-> None]
    /\ events = [c \in Collector |-> [k \in Key |-> None]]
    /\ log = [c \in Collector |-> [k \in Key |-> << >>]]
    /\ runs = [c \in Collector |-> [running |-> 0, success |-> 0, error |-> 0]]
    /\ cache = [c \in Collector |-> None]
    /\ now = 0
    /\ polls = 0
    /\ streak = [c \in Collector |-> [k \in Key |-> 0]]
    /\ born = [c \in Collector |-> [k \in Key |-> None]]
    /\ opening = [c \in Collector |-> None]

\* run_poll is called for all collectors or for one, and queues for the lock.
RunPoll(p) ==
    /\ polls < MaxPolls
    /\ ~Waiting(p)
    /\ \E only \in {Collector} \cup {{c} : c \in Collector} :
            todo' = [todo EXCEPT ![p] = only]
    /\ lock' = Append(lock, p)
    /\ polls' = polls + 1
    /\ UNCHANGED <<job, dbVars, now, ghostVars>>

\* The run's row is committed as "running" and the context is read: whether
\* this is the first run, and whether the index may be read conditionally.
BeginCollector(p) ==
    /\ Holds(p)
    /\ job[p] = None
    /\ \E c \in todo[p] :
        /\ todo' = [todo EXCEPT ![p] = todo[p] \ {c}]
        /\ runs' = [runs EXCEPT ![c].running = runs[c].running + 1]
        /\ job' = [job EXCEPT ![p] =
                    [c |-> c, first |-> runs[c].success = 0,
                     conditional |-> c \in Conditional /\ RefreshKeys(c) = {}]]
    /\ UNCHANGED <<lock, events, log, cache, now, polls, ghostVars>>

\* The run ends: its row leaves "running" for the given status.
Ended(p, status) ==
    LET c == job[p].c
    IN /\ runs' = [runs EXCEPT ![c].running = runs[c].running - 1,
                               ![c][status] = runs[c][status] + 1]
       /\ job' = [job EXCEPT ![p] = None]

\* Observers of a successful poll in which the source lists the keys in listed.
Observed(c, listed) ==
    streak' = [streak EXCEPT ![c] =
        [k \in Key |-> IF k \in listed \/ events[c][k] = None THEN 0 ELSE streak[c][k] + 1]]

\* The source is read in full (it may do so although its index is what it was);
\* the batch is stored in one transaction.
FetchOk(p) ==
    /\ Holds(p)
    /\ job[p] # None
    /\ \E batch \in Batches(job[p].c) :
        LET c == job[p].c
            seen == DOMAIN batch
        IN /\ StoreBatch(c, batch, job[p].first, job[p].conditional)
           /\ Observed(c, seen)
           /\ born' = [born EXCEPT ![c] =
                [k \in Key |-> IF k \in seen /\ events[c][k] = None
                               THEN Compared(Resolve(batch[k], Blank)) ELSE born[c][k]]]
           /\ opening' = IF opening[c] = None THEN [opening EXCEPT ![c] = seen] ELSE opening
    /\ Ended(p, "success")
    /\ UNCHANGED <<lock, todo, now, polls>>

\* The index is what the stored validator stands for: the source answers 304.
FetchNotModified(p) ==
    /\ Holds(p)
    /\ job[p] # None
    /\ job[p].conditional
    /\ cache[job[p].c] # None
    /\ LET c == job[p].c
       IN /\ TouchAll(c)
          /\ Observed(c, DOMAIN cache[c])
    /\ Ended(p, "success")
    /\ UNCHANGED <<lock, todo, log, cache, now, polls, born, opening>>

\* The fetch, the parse or the commit failed: all is rolled back, the validator
\* included, and only the run's status is written.
FetchError(p) ==
    /\ Holds(p)
    /\ job[p] # None
    /\ Ended(p, "error")
    /\ UNCHANGED <<lock, todo, events, log, cache, now, polls, ghostVars>>

FinishPoll(p) ==
    /\ Holds(p)
    /\ job[p] = None
    /\ todo[p] = {}
    /\ lock' = Tail(lock)
    /\ UNCHANGED <<todo, job, dbVars, now, polls, ghostVars>>

\* Mutant: acquire and release without `async with': the lock stays taken.
EscapeHolding(p) ==
    /\ Holds(p)
    /\ job[p] # None \/ todo[p] # {}
    /\ todo' = [todo EXCEPT ![p] = {}]
    /\ job' = [job EXCEPT ![p] = None]
    /\ lock' = <<None>> \o Tail(lock)
    /\ UNCHANGED <<dbVars, now, polls, ghostVars>>

\* The database refuses the "running" row or the "error" row (both are written
\* outside the try): the exception leaves poll_collectors, the collectors still
\* to come are not run, and `async with' releases the lock.
Escape(p) ==
    /\ Holds(p)
    /\ job[p] # None \/ todo[p] # {}
    /\ todo' = [todo EXCEPT ![p] = {}]
    /\ job' = [job EXCEPT ![p] = None]
    /\ lock' = Tail(lock)
    /\ UNCHANGED <<dbVars, now, polls, ghostVars>>

\* The process dies and is started again on the same database.
Crash ==
    /\ lock # << >>
    /\ lock' = << >>
    /\ todo' = [p \in Poller |-> {}]
    /\ job' = [p \in Poller |-> None]
    /\ UNCHANGED <<dbVars, now, polls, ghostVars>>

Tick ==
    /\ now < MaxTime
    /\ now' = now + 1
    /\ UNCHANGED <<lock, todo, job, dbVars, polls, ghostVars>>

Step(p) ==
    \/ BeginCollector(p)
    \/ FetchOk(p)
    \/ FetchNotModified(p)
    \/ FetchError(p)
    \/ FinishPoll(p)
    \/ Escape(p)

Next ==
    \/ \E p \in Poller : RunPoll(p) \/ Step(p)
    \/ Crash
    \/ Tick

Spec == Init /\ [][Next]_vars

\* Every await of a poll ends: requests have a timeout, retries are bounded.
FairSpec == Spec /\ \A p \in Poller : WF_vars(Step(p))
-----------------------------------------------------------------------------
(* Properties.                                                             *)

\* An event is marked removed only by a poll that completes at least Threshold
\* successful polls in a row, none of which the source listed it in: failed
\* polls, crashes and 304s never bring a removal nearer (core/ingest.py:5).
RemovalEarned ==
    [][\A c \in Collector, k \in Key :
          (/\ events[c][k] # None /\ events[c][k].status = "active"
           /\ events'[c][k].status = "removed")
          => streak'[c][k] >= Threshold]_vars

\* Exactly the events of the first batch ever read from a collector carry a
\* `baseline' row, and it is their first: enabling a source alerts on nothing
\* of its catalogue and on everything that comes later, whichever polls failed,
\* crashed, waited for the lock or got a 304 before (core/ingest.py:6).
BaselineIsOpening ==
    \A c \in Collector, k \in Key : \A i \in DOMAIN log[c][k] :
        log[c][k][i].type = "baseline" <=> (i = 1 /\ k \in opening[c])

Latest(rows) == CHOOSE i \in rows : \A j \in rows : j <= i

\* The value of field f after the first n rows of an event's log.
ValueAfter(c, k, f, n) ==
    LET touching == {i \in 1..n : log[c][k][i].changes[f] # None}
    IN IF touching = {} THEN born[c][k][f]
       ELSE log[c][k][Latest(touching)].changes[f][2]

\* The change log is a complete history: every row's old value is what the rows
\* before it left, and replaying the whole log gives what the events table
\* stores, so neither a digest nor an event's history page ever skips a change.
LogReplays ==
    \A c \in Collector, k \in Key : events[c][k] # None =>
        /\ \A f \in DiffField :
              Compared(events[c][k].data)[f] = ValueAfter(c, k, f, Len(log[c][k]))
        /\ \A i \in DOMAIN log[c][k], f \in DiffField :
              log[c][k][i].changes[f] # None
              => log[c][k][i].changes[f][1] = ValueAfter(c, k, f, i - 1)

\* The stored hash is the hash of the stored content, so comparing hashes and
\* comparing fields cannot disagree for longer than one poll.
HashCoherent ==
    \A c \in Collector, k \in Key :
        events[c][k] # None => events[c][k].hash = ContentHash(events[c][k].data)

\* The context read before the await still holds when the batch is stored:
\* no other poll of the collector succeeded in between (the poll lock).
ContextFresh ==
    \A p \in Poller : job[p] # None =>
        /\ job[p].first <=> runs[job[p].c].success = 0
        /\ job[p].conditional <=> (job[p].c \in Conditional /\ RefreshKeys(job[p].c) = {})

\* Polls are serializable: whoever polls at the same time, whatever fails, waits or
\* crashes, the tables change as if every successful poll had been a single step
\* that read its context when it stored its batch.  (SerialPolls is the abstract
\* specification; core/ingest.py:200-249, scheduler.py:26.)
Serial == INSTANCE SerialPolls WITH polled <- {c \in Collector : runs[c].success > 0}

PollsAreSerial == Serial!Spec

\* A poll that was asked for ends, whatever the other poller does: it is run or
\* it is aborted, and the lock goes to the next one.
PollEnds == \A p \in Poller : Waiting(p) ~> ~Waiting(p)

\* A source that is always read in full loses no removal: an event it stopped
\* listing, whose (last) date is not over, is removed by the Threshold-th
\* successful poll in a row that does not list it, whatever failed, crashed or
\* was relisted before (core/ingest.py:170-188).
FullReadsRemove ==
    \A c \in Collector \ Conditional, k \in Key :
        events[c][k] # None /\ events[c][k].status = "active" /\ ~Past(events[c][k].data)
        => streak[c][k] < Threshold \/ streak[c][k] = 0

\* The show itself, not only some date of its record, is still to come.
Upcoming(d) ==
    IF d.starts_at = None THEN d.ends_at = None ELSE d.starts_at >= now

\* "`removed`: absent from `removal_threshold` consecutive polls"
\* (docs/architecture.md:75): an upcoming event that the source did not list in
\* that many successful polls in a row is no longer active.
AbsentIsRemoved ==
    \A c \in Collector, k \in Key :
        events[c][k] # None /\ events[c][k].status = "active" /\ Upcoming(events[c][k].data)
        => streak[c][k] < Threshold \/ streak[c][k] = 0
=============================================================================
