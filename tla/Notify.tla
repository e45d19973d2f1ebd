------------------------------- MODULE Notify -------------------------------
(***************************************************************************)
(* Delivery of changes: notify/dispatch.py, notify/digest.py and the jobs  *)
(* of scheduler.py that call them.                                         *)
(*                                                                         *)
(* Dispatchers (the end of a poll, on the event loop; the flush job, on a  *)
(* worker thread) push immediate alerts one by one and commit once, at the *)
(* end.  Digesters (the digest job and /api/admin/send-digest, on worker   *)
(* threads) mail everything not yet digested and commit the stamps after.  *)
(* They run concurrently on one SQLite database.  Outside a write          *)
(* transaction a read sees the last commit.  A session's pending rows are  *)
(* flushed by its next query: from then on it holds the only write lock    *)
(* until it commits or rolls back, and any other writer that waits longer  *)
(* than busy_timeout is rolled back with "database is locked".             *)
(*                                                                         *)
(* The clock is the tick of the day; rows carry their age and digest keys  *)
(* the number of midnights since their day, so that days can go on for     *)
(* ever in finitely many states.                                           *)
(***************************************************************************)
EXTENDS Naturals, FiniteSets

CONSTANTS
    MaxChange,      \* bound: rows of the change log
    Class,          \* what the rules and is_news make of a change:
                    \* [action, always, news]
    Dispatcher,     \* who runs process_pending: "poll" at a poll's end, "flush" the job
    Digester,       \* concurrent runs of send_digest
    Cron,           \* the digester that is the scheduled job
    DayLen,         \* ticks of a day
    Quiet,          \* the ticks within quiet hours
    DigestTick,     \* the tick of cfg.digest_hour
    MaxAge,         \* the 48 hours of the immediate window, in ticks
    Faults,         \* which faults of the environment can happen
    MaxCount,       \* bound: the observers count up to here
    None

Change == 1..MaxChange

Fault == {"send_fails", "lost_ack", "mail_fails", "crash", "long_writer"}

\* A row of change_log.
Row == [class: Class, age: 0..(MaxAge + 1), notified: BOOLEAN, digested: BOOLEAN]

ASSUME NotifyAssumption ==
    /\ MaxChange \in Nat /\ MaxCount \in Nat \ {0} /\ MaxAge \in Nat
    /\ DayLen \in Nat \ {0}
    /\ Quiet \subseteq 0..(DayLen - 1)
    /\ DigestTick \in 0..(DayLen - 1)
    /\ Class \subseteq [action: {"immediate", "digest", "ignore"}, always: BOOLEAN, news: BOOLEAN]
    /\ Cron \in Digester \/ Cron = None
    /\ Faults \subseteq Fault
    /\ Dispatcher \subseteq {"poll", "flush"}
    /\ None \notin Row
    /\ None \notin {"poll", "flush", "ingest"}

VARIABLES
    row,        \* change_log, as committed
    keys,       \* the changes whose key is in notifications_sent, as committed
    digestKeys, \* the days, in midnights ago, whose digest key is there
    writer,     \* who holds the database's write lock
    disp,       \* disp[d]: a run of process_pending
    digest,     \* digest[g]: a run of send_digest
    tick,       \* the time of the day
    due,        \* the digest job has not fired yet today
    \* observer variables
    pushes,     \* pushes[ch]: pushes of the change that ntfy accepted
    lost,       \* lost[ch]: those whose record was lost before its commit
    mails       \* mails[ch]: accepted mails that listed the change

db == <<row, keys, digestKeys>>
ghosts == <<pushes, lost, mails>>
vars == <<row, keys, digestKeys, writer, disp, digest, tick, due, pushes, lost, mails>>

-----------------------------------------------------------------------------
Idle == [pc |-> "idle", pending |-> {}, newKeys |-> {}, stamps |-> {}]

NoDigest == [pc |-> "idle", ids |-> {}, day |-> 0, already |-> FALSE, force |-> FALSE]

\* A session with rows to write.
Dirty(d) == disp[d].newKeys \cup disp[d].stamps # {}

TypeOK ==
    /\ row \in [Change -> Row \cup {None}]
    /\ keys \subseteq Change
    /\ digestKeys \subseteq {0, 1}
    /\ writer \in Dispatcher \cup {"ingest", None}
    /\ disp \in [Dispatcher -> [pc: {"idle", "loop", "send"}, pending: SUBSET Change,
                                newKeys: SUBSET Change, stamps: SUBSET Change]]
    /\ digest \in [Digester -> [pc: {"idle", "build", "mail", "mailed", "housekeeping"},
                                ids: SUBSET Change, day: {0, 1},
                                already: BOOLEAN, force: BOOLEAN]]
    /\ tick \in 0..(DayLen - 1)
    /\ due \in BOOLEAN
    /\ pushes \in [Change -> 0..MaxCount]
    /\ lost \in [Change -> 0..MaxCount]
    /\ mails \in [Change -> 0..MaxCount]
    /\ \A d \in Dispatcher : writer = d => Dirty(d)

Init ==
    /\ row = [ch \in Change |-> None]
    /\ keys = {}
    /\ digestKeys = {}
    /\ writer = None
    /\ disp = [d \in Dispatcher |-> Idle]
    /\ digest = [g \in Digester |-> NoDigest]
    /\ tick = 0
    /\ due = TRUE
    /\ pushes = [ch \in Change |-> 0]
    /\ lost = [ch \in Change |-> 0]
    /\ mails = [ch \in Change |-> 0]

Capped(n) == IF n < MaxCount THEN n ELSE MaxCount

\* f with the counters of the elements of S one up.
Counted(f, S) == [x \in DOMAIN f |-> IF x \in S THEN Capped(f[x] + 1) ELSE f[x]]

\* Dispatchers whose session holds the change's key, not committed yet.
InFlight(ch) == Cardinality({d \in Dispatcher : ch \in disp[d].newKeys})

-----------------------------------------------------------------------------
(* Polls.  They run one at a time, each before its own dispatch.           *)

Polling == "poll" \in Dispatcher => disp["poll"].pc = "idle"

\* A poll commits a change that is not a baseline row.  Ids grow.
NewChange ==
    /\ Polling
    /\ writer = None
    /\ \E ch \in Change, cl \in Class :
        /\ row[ch] = None /\ \A older \in 1..(ch - 1) : row[older] # None
        /\ row' = [row EXCEPT ![ch] =
                    [class |-> cl, age |-> 0, notified |-> FALSE, digested |-> FALSE]]
    /\ UNCHANGED <<keys, digestKeys, writer, disp, digest, tick, due, ghosts>>

\* A poll's own transaction: a collector that stored a validator before its
\* next request holds the write lock while it awaits that request.
PollWrites ==
    /\ "long_writer" \in Faults
    /\ Polling
    /\ \/ writer = None /\ writer' = "ingest"
       \/ writer = "ingest" /\ writer' = None
    /\ UNCHANGED <<db, disp, digest, tick, due, ghosts>>

-----------------------------------------------------------------------------
(* process_pending.                                                        *)

Pending(ch) ==
    /\ row[ch] # None
    /\ ~row[ch].notified
    /\ ~row[ch].digested
    /\ row[ch].age <= MaxAge

\* The rules say immediate, and the quiet hours (read once, at the start of the
\* run) do not hold the alert back.
Wanted(ch) ==
    /\ row[ch].class.action = "immediate"
    /\ tick \in Quiet => row[ch].class.always

StartDispatch(d) ==
    /\ disp[d].pc = "idle"
    /\ d = "poll" => writer # "ingest"
    /\ \E ch \in Change : Pending(ch) /\ Wanted(ch)
    /\ disp' = [disp EXCEPT ![d] =
        [Idle EXCEPT !.pc = "loop", !.pending = {ch \in Change : Pending(ch) /\ Wanted(ch)}]]
    /\ UNCHANGED <<db, writer, digest, tick, due, ghosts>>

Oldest(S) == CHOOSE ch \in S : \A other \in S : ch <= other

\* The flush of d's pending rows can take the write lock and meets no key that
\* another session committed meanwhile.
Flushes(d) ==
    Dirty(d) => /\ writer \in {None, d}
                /\ disp[d].newKeys \cap keys = {}

\* Mutant: the key is not looked up.
SeenNever(d, ch) == FALSE

\* _already_sent: committed, or pending in this session.
Seen(d, ch) == ch \in keys \cup disp[d].newKeys

\* The next change of the run is looked up; the query flushes what is pending.
Check(d) ==
    /\ disp[d].pc = "loop"
    /\ disp[d].pending # {}
    /\ Flushes(d)
    /\ writer' = IF Dirty(d) THEN d ELSE writer
    /\ LET ch == Oldest(disp[d].pending)
       IN disp' = IF Seen(d, ch)
                  THEN [disp EXCEPT ![d].pending = @ \ {ch}, ![d].stamps = @ \cup {ch}]
                  ELSE [disp EXCEPT ![d].pc = "send"]
    /\ UNCHANGED <<db, digest, tick, due, ghosts>>

\* The run goes on after sending; recorded says whether it noted a success.
Sent(d, recorded) ==
    LET ch == Oldest(disp[d].pending)
        note == IF recorded THEN {ch} ELSE {}
    IN disp' = [disp EXCEPT ![d].pc = "loop", ![d].pending = @ \ {ch},
                            ![d].newKeys = @ \cup note, ![d].stamps = @ \cup note]

Send(d) ==
    /\ disp[d].pc = "send"
    /\ Sent(d, TRUE)
    /\ pushes' = Counted(pushes, {Oldest(disp[d].pending)})
    /\ UNCHANGED <<db, writer, digest, tick, due, lost, mails>>

SendFails(d) ==
    /\ disp[d].pc = "send"
    /\ "send_fails" \in Faults
    /\ Sent(d, FALSE)
    /\ UNCHANGED <<db, writer, digest, tick, due, ghosts>>

\* ntfy takes the message and the answer is lost: send() returns False.
SendUnacknowledged(d) ==
    /\ disp[d].pc = "send"
    /\ "lost_ack" \in Faults
    /\ Sent(d, FALSE)
    /\ pushes' = Counted(pushes, {Oldest(disp[d].pending)})
    /\ lost' = Counted(lost, {Oldest(disp[d].pending)})
    /\ UNCHANGED <<db, writer, digest, tick, due, mails>>

\* Mutant: a run that ends leaves its transaction open.
ReleasedNot(d) == writer

Released(d) == IF writer = d THEN None ELSE writer

\* Mutant: the session is closed without a commit.
CommitForgotten(d) ==
    /\ disp[d].pc = "loop" /\ disp[d].pending = {} /\ Flushes(d)
    /\ disp' = [disp EXCEPT ![d] = Idle]
    /\ writer' = Released(d)
    /\ UNCHANGED <<db, digest, tick, due, ghosts>>

\* The one commit, after the last change of the run.
Commit(d) ==
    /\ disp[d].pc = "loop"
    /\ disp[d].pending = {}
    /\ Flushes(d)
    /\ keys' = keys \cup disp[d].newKeys
    /\ row' = [ch \in Change |-> IF ch \in disp[d].stamps
                                 THEN [row[ch] EXCEPT !.notified = TRUE] ELSE row[ch]]
    /\ disp' = [disp EXCEPT ![d] = Idle]
    /\ writer' = Released(d)
    /\ UNCHANGED <<digestKeys, digest, tick, due, ghosts>>

\* The flush waits too long for the write lock, or inserts a key that is taken:
\* the run ends with an exception and all it recorded is rolled back.
Rollback(d) ==
    /\ disp[d].pc = "loop"
    /\ ~Flushes(d)
    /\ lost' = Counted(lost, disp[d].newKeys)
    /\ disp' = [disp EXCEPT ![d] = Idle]
    /\ writer' = Released(d)
    /\ UNCHANGED <<db, digest, tick, due, pushes, mails>>

DispatchStep(d) ==
    \/ StartDispatch(d)
    \/ Check(d)
    \/ Send(d)
    \/ SendFails(d)
    \/ SendUnacknowledged(d)
    \/ Commit(d)
    \/ Rollback(d)
-----------------------------------------------------------------------------
(* send_digest.                                                            *)

\* Mutant: the window of the immediate alerts is applied to the digest.
UndigestedRecent ==
    {ch \in Change : row[ch] # None /\ ~row[ch].digested /\ row[ch].age <= MaxAge}

Undigested == {ch \in Change : row[ch] # None /\ ~row[ch].digested}

\* The digest lists only news; link churn and lost statuses are merely counted.
Listable(ids) == {ch \in ids : row[ch].class.news}

\* The key of the day is looked up; a second attempt ends here unless forced.
StartDigest(g) ==
    /\ digest[g].pc = "idle"
    /\ IF g = Cron THEN tick = DigestTick /\ due /\ due' = FALSE ELSE UNCHANGED due
    /\ \E force \in IF g = Cron THEN {FALSE} ELSE BOOLEAN :
        digest' = IF 0 \in digestKeys /\ ~force THEN digest
                  ELSE [digest EXCEPT ![g] =
                        [NoDigest EXCEPT !.pc = "build", !.already = 0 \in digestKeys,
                                         !.force = force]]
    /\ UNCHANGED <<db, writer, disp, tick, ghosts>>

\* build_digest reads the rows; what it found decides how the run goes on.
Build(g) ==
    /\ digest[g].pc = "build"
    /\ LET ids == Undigested
           f   == digest[g].force
       IN digest' = [digest EXCEPT ![g] =
            IF ids = {} /\ ~f THEN NoDigest
            ELSE [@ EXCEPT !.ids = ids,
                           !.pc = IF Listable(ids) = {} /\ ~f THEN "housekeeping" ELSE "mail"]]
    /\ UNCHANGED <<db, writer, disp, tick, due, ghosts>>

\* The SMTP server takes the message.
Mail(g) ==
    /\ digest[g].pc = "mail"
    /\ digest' = [digest EXCEPT ![g].pc = "mailed"]
    /\ mails' = Counted(mails, Listable(digest[g].ids))
    /\ UNCHANGED <<db, writer, disp, tick, due, pushes, lost>>

\* The server takes the message and the session then breaks: send_html says False.
MailUnacknowledged(g) ==
    /\ digest[g].pc = "mail"
    /\ "lost_ack" \in Faults
    /\ digest' = [digest EXCEPT ![g] = NoDigest]
    /\ mails' = Counted(mails, Listable(digest[g].ids))
    /\ UNCHANGED <<db, writer, disp, tick, due, pushes, lost>>

MailFails(g) ==
    /\ digest[g].pc = "mail"
    /\ "mail_fails" \in Faults
    /\ digest' = [digest EXCEPT ![g] = NoDigest]
    /\ UNCHANGED <<db, writer, disp, tick, due, ghosts>>

KeyTaken(g) ==
    digest[g].pc = "mailed" /\ ~digest[g].already /\ digest[g].day \in digestKeys

\* Mutant: everything undigested is stamped, not what the mail was built from.
ToStampAll(g) == Undigested

\* _stamp: the changes the digest was built from, the unlisted ones included.
ToStamp(g) == digest[g].ids

\* After a mail the key of the day is there, if it was not before.
DayKeys(g) ==
    IF digest[g].pc = "mailed" THEN digestKeys \cup {digest[g].day} ELSE digestKeys

\* The stamps and the key are committed together.
CommitDigest(g) ==
    /\ digest[g].pc \in {"mailed", "housekeeping"}
    /\ writer = None
    /\ ~KeyTaken(g)
    /\ row' = [ch \in Change |-> IF ch \in ToStamp(g)
                                 THEN [row[ch] EXCEPT !.digested = TRUE] ELSE row[ch]]
    /\ digestKeys' = DayKeys(g)
    /\ digest' = [digest EXCEPT ![g] = NoDigest]
    /\ UNCHANGED <<keys, writer, disp, tick, due, ghosts>>

\* The database is locked for too long, or another run took the key of the day:
\* the stamps are rolled back although the mail is out.
RollbackDigest(g) ==
    /\ digest[g].pc \in {"mailed", "housekeeping"}
    /\ writer # None \/ KeyTaken(g)
    /\ digest' = [digest EXCEPT ![g] = NoDigest]
    /\ UNCHANGED <<db, writer, disp, tick, due, ghosts>>

DigestStep(g) ==
    \/ Build(g)
    \/ Mail(g)
    \/ MailUnacknowledged(g)
    \/ MailFails(g)
    \/ CommitDigest(g)
    \/ RollbackDigest(g)

-----------------------------------------------------------------------------
(* Time and crashes.                                                       *)

\* Time passes.  The digest job fires within its hour; a run of send_digest is
\* over within a day of the midnight it may cross.
Tick ==
    /\ Cron # None /\ tick = DigestTick => ~due
    /\ LET midnight == tick = DayLen - 1
           later(ch) == IF row[ch] = None THEN None
                        ELSE [row[ch] EXCEPT !.age = IF @ > MaxAge THEN @ ELSE @ + 1]
       IN /\ midnight => \A g \in Digester : digest[g].day = 0
          /\ tick' = IF midnight THEN 0 ELSE tick + 1
          /\ row' = [ch \in Change |-> later(ch)]
          /\ due' = (midnight \/ due)
          /\ digestKeys' = IF midnight THEN {day + 1 : day \in digestKeys \cap {0}} ELSE digestKeys
          /\ digest' = [g \in Digester |->
                          IF midnight /\ digest[g].pc # "idle"
                          THEN [digest[g] EXCEPT !.day = 1] ELSE digest[g]]
    /\ UNCHANGED <<keys, writer, disp, pushes, lost, mails>>

\* The process dies and is started again.  Jobs are kept in memory: a digest
\* whose hour is running is missed for the day.
Crash ==
    /\ "crash" \in Faults
    /\ lost' = [ch \in Change |-> Capped(lost[ch] + InFlight(ch))]
    /\ disp' = [d \in Dispatcher |-> Idle]
    /\ digest' = [g \in Digester |-> NoDigest]
    /\ writer' = None
    /\ due' = (due /\ tick # DigestTick)
    /\ UNCHANGED <<db, tick, pushes, mails>>

Next ==
    \/ NewChange
    \/ PollWrites
    \/ \E d \in Dispatcher : DispatchStep(d)
    \/ \E g \in Digester : StartDigest(g) \/ DigestStep(g)
    \/ Tick
    \/ Crash

Spec == Init /\ [][Next]_vars

\* The clock goes on and every call ends (sockets have timeouts).  The daily job,
\* tried again and again, is not struck at the same step every time: not by a
\* refused mail, not by a locked database, not by a crash.
FairSpec ==
    /\ Spec
    /\ WF_vars(Tick)
    /\ \A d \in Dispatcher : WF_vars(DispatchStep(d))
    /\ \A g \in Digester : WF_vars(DigestStep(g))
    /\ Cron # None => /\ SF_vars(StartDigest(Cron))
                      /\ SF_vars(Build(Cron))
                      /\ SF_vars(Mail(Cron))
                      /\ SF_vars(CommitDigest(Cron))

-----------------------------------------------------------------------------
(* Properties.                                                             *)

\* Pushing implements Outbox: a dispatcher sends only what no committed key or
\* stamp covers at the moment it looks, though it read its list long before, and
\* no key and no stamp is ever committed for a push that ntfy did not accept
\* (notify/dispatch.py:128-143).
PushRecorded == {ch \in Change : ch \in keys \/ (row[ch] # None /\ row[ch].notified)}

Ntfy == INSTANCE Outbox WITH
    Item    <- Change,
    Teller  <- Dispatcher,
    offered <- {ch \in Change : row[ch] # None},
    claimed <- PushRecorded,
    told    <- {ch \in Change : pushes[ch] > 0},
    hand    <- [d \in Dispatcher |-> IF disp[d].pc = "send" THEN {Oldest(disp[d].pending)} ELSE {}]

PushesAreOutbox == Ntfy!Spec

\* Mailing digests implements Outbox for the changes worth listing: changes that a
\* poll adds while the mail is on its way, failed mails and housekeeping runs never
\* swallow one, and a run takes up nothing that an earlier digest stamped
\* (notify/digest.py:196).
Post == INSTANCE Outbox WITH
    Item    <- Change,
    Teller  <- Digester,
    offered <- {ch \in Change : row[ch] # None /\ row[ch].class.news},
    claimed <- {ch \in Change : row[ch] # None /\ row[ch].class.news /\ row[ch].digested},
    told    <- {ch \in Change : mails[ch] > 0},
    hand    <- [g \in Digester |-> IF digest[g].pc = "mail" THEN Listable(digest[g].ids) ELSE {}]

DigestsAreOutbox == Post!Spec

\* Every push is accounted for: its key is committed, or still pending in one
\* dispatcher's session, or its record was lost in a rollback, a crash or an
\* unanswered request.  So a change is pushed again only for a loss, or by two
\* dispatchers that overlap.
PushesAccounted ==
    \A ch \in Change : pushes[ch] < MaxCount =>
        pushes[ch] = lost[ch] + InFlight(ch) + (IF ch \in keys THEN 1 ELSE 0)

\* "at-most-once delivery per channel" (notify/dispatch.py:6).
PushedAtMostOnce == \A ch \in Change : pushes[ch] <= 1

\* The tick of the day at which a change arose, told by its age while it has not
\* saturated.
AroseAt(ch) == (tick + DayLen * MaxAge - row[ch].age) % DayLen

\* An immediate change that arose in quiet hours and that its rule lets them hold.
HeldByQuiet(ch) ==
    /\ row[ch] # None /\ row[ch].age <= MaxAge
    /\ row[ch].class.action = "immediate" /\ ~row[ch].class.always
    /\ AroseAt(ch) \in Quiet

\* "Alerts arising inside `quiet_hours` are held, not dropped -- the change row
\* stays pending and the flush job (every 10 minutes) sends it once the window
\* ends" (docs/notifications.md:44): while its time window lasts, no digest takes
\* such an alert before it has been sent.
HeldIsNotClaimed ==
    [][\A ch \in Change :
          HeldByQuiet(ch) /\ ~row[ch].digested /\ row'[ch].digested
          => pushes[ch] > 0]_vars

\* Every change ends up digested, and so every one worth listing is mailed,
\* though mails fail or stay unanswered, digests race each other and the process
\* crashes.
EventuallyDigested ==
    \A ch \in Change : row[ch] # None ~> row[ch] # None /\ row[ch].digested
=============================================================================
