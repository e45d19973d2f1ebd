---------------------------- MODULE IngestProofs ----------------------------
(***************************************************************************)
(* Theorems about Ingest, for every set of collectors, keys, pollers and   *)
(* raw events, every removal threshold and every number of polls.          *)
(***************************************************************************)
EXTENDS Ingest, SequenceTheorems, TLAPS

-----------------------------------------------------------------------------
(* What the content rules of core/diff.py return.                          *)

\* The empty dictionary has no field.
LEMMA NoChangeType == NoChange \in Changes
BY DEF NoChange, Changes

LEMMA PairType ==
    ASSUME NEW S, NEW a \in S, NEW b \in S
    PROVE  Pair(a, b) \in (S \X S) \cup {None}
BY DEF Pair

\* Merging a raw event into what is stored gives a full content record.
LEMMA ResolveType ==
    ASSUME NEW ev \in Event \cup {None}, NEW raw \in RawEvent
    PROVE  Resolve(raw, Stored(ev)) \in Content
<1>1. CASE ev = None
    BY <1>1 DEF Stored, Blank, Resolve, Or, RawEvent, Content, Status
<1>2. CASE ev # None
    <2>1. ev.data \in Content
        BY <1>2 DEF Event
    <2> QED
        BY <1>2, <2>1 DEF Stored, Resolve, Or, RawEvent, Content
<1> QED
    BY <1>1, <1>2

LEMMA ContentHashType ==
    ASSUME NEW d \in Content
    PROVE  ContentHash(d) \in Digest
<1>1. Norm[d.title] \in NormTitle
    BY DEF NormTitle, Content
<1> QED
    BY <1>1 DEF ContentHash, Compared, Digest, Content

LEMMA ComparedType ==
    ASSUME NEW d \in Content
    PROVE  Compared(d) \in Digest
<1>1. Norm[d.title] \in NormTitle
    BY DEF NormTitle, Content
<1> QED
    BY <1>1 DEF Compared, Digest, Content

LEMMA FieldChangesType ==
    ASSUME NEW d \in Content, NEW e \in Content
    PROVE  FieldChanges(d, e) \in Changes
<1> DEFINE a == Compared(d)
           b == Compared(e)
<1>1. a \in Digest /\ b \in Digest
    BY ComparedType
<1> HIDE DEF a, b
<1>2. /\ Pair(a.title, b.title) \in (NormTitle \X NormTitle) \cup {None}
      /\ Pair(a.ticket_status, b.ticket_status) \in (Status \X Status) \cup {None}
    BY <1>1, PairType DEF Digest
<1>3. /\ Pair(a.starts_at, b.starts_at)
            \in ((Time \cup {None}) \X (Time \cup {None})) \cup {None}
      /\ Pair(a.ends_at, b.ends_at)
            \in ((Time \cup {None}) \X (Time \cup {None})) \cup {None}
    BY <1>1, PairType DEF Digest
<1>4. /\ Pair(a.ticket_url, b.ticket_url)
            \in ((Url \cup {None}) \X (Url \cup {None})) \cup {None}
      /\ Pair(a.tour, b.tour)
            \in ((Tour \cup {None}) \X (Tour \cup {None})) \cup {None}
    BY <1>1, PairType DEF Digest
<1>5. FieldChanges(d, e) =
        [title |-> Pair(a.title, b.title), starts_at |-> Pair(a.starts_at, b.starts_at),
         ends_at |-> Pair(a.ends_at, b.ends_at),
         ticket_status |-> Pair(a.ticket_status, b.ticket_status),
         ticket_url |-> Pair(a.ticket_url, b.ticket_url), tour |-> Pair(a.tour, b.tour)]
    BY DEF FieldChanges, a, b
<1> QED
    BY <1>2, <1>3, <1>4, <1>5 DEF Changes

-----------------------------------------------------------------------------
(* What the upsert of core/ingest.py does to one event.                    *)

LEMMA ListedType ==
    ASSUME NEW ev \in Event \cup {None}, NEW raw \in RawEvent
    PROVE  Listed(ev, raw) \in Event
<1> DEFINE res == Resolve(raw, Stored(ev))
           fresh == [data |-> res, hash |-> ContentHash(res), status |-> "active", missing |-> 0]
           kept == [ev EXCEPT !.data.image_url = res.image_url, !.status = "active", !.missing = 0]
<1>1. res \in Content /\ ContentHash(res) \in Digest
    BY ResolveType, ContentHashType
<1>2. Listed(ev, raw) = IF \/ ev = None \/ ev.hash # ContentHash(res)
                           \/ FieldChanges(ev.data, res) # NoChange
                        THEN fresh ELSE kept
    BY DEF Listed
<1>3. fresh \in Event
    BY <1>1 DEF Event
<1>4. ASSUME ev # None
      PROVE  kept \in Event
    <2>1. ev \in Event
        BY <1>4
    <2>2. [ev.data EXCEPT !.image_url = res.image_url] \in Content
        BY <2>1, <1>1 DEF Event, Content
    <2> QED
        BY <2>1, <2>2 DEF Event
<1> QED
    BY <1>2, <1>3, <1>4

LEMMA MissedEvent ==
    ASSUME NEW ev \in Event
    PROVE  Missed(ev) \in Event /\ Touched(ev) \in Event
<1>1. Missed(ev) \in Event
    <2>1. CASE Counts(ev)
        <3>1. ev.missing + 1 \in Nat
            BY DEF Event
        <3>2. (IF Goes(ev) THEN "removed" ELSE "active") \in {"active", "removed"}
            OBVIOUS
        <3> QED
            BY <2>1, <3>1, <3>2 DEF Missed, Event
    <2>2. CASE ~Counts(ev)
        BY <2>2 DEF Missed
    <2> QED
        BY <2>1, <2>2
<1>2. Touched(ev) \in Event
    BY DEF Touched, Event
<1> QED
    BY <1>1, <1>2

LEMMA MissedType ==
    ASSUME NEW ev \in Event \cup {None}
    PROVE  Missed(ev) \in Event \cup {None} /\ Touched(ev) \in Event \cup {None}
<1>1. CASE ev = None
    BY <1>1 DEF Missed, Touched, Counts
<1>2. CASE ev # None
    BY <1>2, MissedEvent
<1> QED
    BY <1>1, <1>2

LEMMA ListedRowsType ==
    ASSUME NEW ev \in Event \cup {None}, NEW raw \in RawEvent, NEW first \in BOOLEAN
    PROVE  ListedRows(ev, raw, first) \in Seq(Row)
<1> DEFINE res == Resolve(raw, Stored(ev))
           ch == FieldChanges(ev.data, res)
<1>1. ASSUME NEW t \in ChangeType, NEW c \in Changes
      PROVE  <<[type |-> t, changes |-> c]>> \in Seq(Row)
    BY <1>1 DEF Row
<1>2. << >> \in Seq(Row)
    OBVIOUS
<1>3. CASE ev = None
    <2>1. ListedRows(ev, raw, first) =
            <<[type |-> IF first THEN "baseline" ELSE "added", changes |-> NoChange]>>
        BY <1>3 DEF ListedRows
    <2> QED
        BY <2>1, <1>1, NoChangeType DEF ChangeType
<1>4. CASE ev # None
    <2>1. ch \in Changes
        BY <1>4, ResolveType, FieldChangesType DEF Event
    <2>2. \/ ListedRows(ev, raw, first) =
                <<[type |-> IF IsTransition(ch) THEN "ticket_status" ELSE "updated",
                   changes |-> ch]>>
          \/ ListedRows(ev, raw, first) = <<[type |-> "added", changes |-> NoChange]>>
          \/ ListedRows(ev, raw, first) = << >>
        BY <1>4 DEF ListedRows
    <2> HIDE DEF ch
    <2> QED
        BY <2>1, <2>2, <1>1, <1>2, NoChangeType DEF ChangeType
<1> QED
    BY <1>3, <1>4

LEMMA MissedRowsType ==
    ASSUME NEW ev
    PROVE  MissedRows(ev) \in Seq(Row)
<1>1. [type |-> "removed", changes |-> NoChange] \in Row
    BY NoChangeType DEF Row, ChangeType
<1> QED
    BY <1>1 DEF MissedRows

-----------------------------------------------------------------------------
(* Type correctness.                                                       *)

\* A batch gives a raw event for each of its keys.
LEMMA BatchType ==
    ASSUME NEW c, NEW batch \in Batches(c)
    PROVE  /\ DOMAIN batch \subseteq Key
           /\ \A k \in DOMAIN batch : batch[k] \in RawEvent
BY IngestAssumption DEF Batches

\* A fetch types what it stores of one collector.
LEMMA FetchOkTables ==
    ASSUME TypeOK, NEW c \in Collector, NEW batch \in Batches(c), NEW first \in BOOLEAN,
           NEW k \in Key
    PROVE  /\ (IF k \in DOMAIN batch THEN Listed(events[c][k], batch[k])
                                     ELSE Missed(events[c][k])) \in Event \cup {None}
           /\ (log[c][k] \o IF k \in DOMAIN batch
                             THEN ListedRows(events[c][k], batch[k], first)
                             ELSE MissedRows(events[c][k])) \in Seq(Row)
<1>1. events[c][k] \in Event \cup {None} /\ log[c][k] \in Seq(Row)
    BY DEF TypeOK
<1>2. CASE k \in DOMAIN batch
    <2>1. batch[k] \in RawEvent
        BY <1>2, BatchType
    <2>2. /\ Listed(events[c][k], batch[k]) \in Event
          /\ ListedRows(events[c][k], batch[k], first) \in Seq(Row)
        BY <1>1, <2>1, ListedType, ListedRowsType
    <2> QED
        BY <1>1, <1>2, <2>2
<1>3. CASE k \notin DOMAIN batch
    <2>1. /\ Missed(events[c][k]) \in Event \cup {None}
          /\ MissedRows(events[c][k]) \in Seq(Row)
        BY <1>1, MissedType, MissedRowsType
    <2> QED
        BY <1>1, <1>3, <2>1
<1> QED
    BY <1>2, <1>3

\* A run that is in progress has a collector and a "running" row.
JobType == [c: Collector, first: BOOLEAN, conditional: BOOLEAN]

LEMMA EndedType ==
    ASSUME TypeOK, NEW p \in Poller, job[p] # None,
           NEW status \in {"success", "error"},
           runs[job[p].c].running > 0,
           Ended(p, status)
    PROVE  /\ runs' \in [Collector -> [running: Nat, success: Nat, error: Nat]]
           /\ job' \in [Poller -> JobType \cup {None}]
<1> DEFINE c == job[p].c
<1>1. c \in Collector
    BY DEF TypeOK
<1>2. runs[c] \in [running: Nat, success: Nat, error: Nat]
    BY <1>1 DEF TypeOK
<1>3. runs[c].running - 1 \in Nat /\ runs[c][status] + 1 \in Nat
    BY <1>2
<1>4. runs' = [runs EXCEPT ![c].running = runs[c].running - 1,
                           ![c][status] = runs[c][status] + 1]
    BY DEF Ended
<1>5. runs \in [Collector -> [running: Nat, success: Nat, error: Nat]]
    BY DEF TypeOK
<1> HIDE DEF c
<1>6. CASE status = "success"
    BY <1>1, <1>2, <1>3, <1>4, <1>5, <1>6
<1>7. CASE status = "error"
    BY <1>1, <1>2, <1>3, <1>4, <1>5, <1>7
<1>8. job' \in [Poller -> JobType \cup {None}]
    BY DEF Ended, TypeOK, JobType
<1> QED
    BY <1>6, <1>7, <1>8

-----------------------------------------------------------------------------
(* Type correctness rests on the poll lock: the run that ends must still   *)
(* have its "running" row, so no two pollers may have a run in progress.   *)

Exclusive == \A p \in Poller : job[p] # None => Holds(p)

RunRecorded == \A p \in Poller : job[p] # None => runs[job[p].c].running > 0

CoreInv == TypeOK /\ Exclusive /\ RunRecorded

LEMMA CoreInit ==
    ASSUME Init
    PROVE  CoreInv
<1>1. TypeOK
    <2>1. << >> \in Seq(Poller) /\ << >> \in Seq(Row)
        OBVIOUS
    <2>2. \A c \in Collector, k \in Key : events[c][k] \in Event \cup {None}
        BY DEF Init
    <2> QED
        BY <2>1, <2>2 DEF Init, TypeOK, Time
<1>2. Exclusive /\ RunRecorded
    BY DEF Init, Exclusive, RunRecorded
<1> QED
    BY <1>1, <1>2 DEF CoreInv

\* While a run is in progress no other poller has one.
LEMMA OnlyRun ==
    ASSUME Exclusive, NEW p \in Poller, Holds(p)
    PROVE  \A q \in Poller : q # p => job[q] = None
BY DEF Exclusive, Holds

LEMMA RunPollCore ==
    ASSUME CoreInv, NEW p \in Poller, RunPoll(p)
    PROVE  CoreInv'
<1>1. lock' \in Seq(Poller) /\ (lock # << >> => lock' # << >> /\ Head(lock') = Head(lock))
    <2>1. lock \in Seq(Poller) /\ lock' = Append(lock, p)
        BY DEF CoreInv, TypeOK, RunPoll
    <2> QED
        BY <2>1, AppendProperties
<1>2. todo' \in [Poller -> SUBSET Collector] /\ polls' \in Nat
    BY DEF CoreInv, TypeOK, RunPoll
<1>3. TypeOK'
    BY <1>1, <1>2 DEF CoreInv, TypeOK, RunPoll, dbVars, ghostVars
<1>4. Exclusive'
    BY <1>1 DEF CoreInv, Exclusive, Holds, RunPoll
<1>5. RunRecorded'
    BY DEF CoreInv, RunRecorded, RunPoll, dbVars
<1> QED
    BY <1>3, <1>4, <1>5 DEF CoreInv

LEMMA BeginCollectorCore ==
    ASSUME CoreInv, NEW p \in Poller, BeginCollector(p)
    PROVE  CoreInv'
<1>1. PICK c \in todo[p] :
        /\ todo' = [todo EXCEPT ![p] = todo[p] \ {c}]
        /\ runs' = [runs EXCEPT ![c].running = runs[c].running + 1]
        /\ job' = [job EXCEPT ![p] =
                    [c |-> c, first |-> runs[c].success = 0,
                     conditional |-> c \in Conditional /\ RefreshKeys(c) = {}]]
    BY DEF BeginCollector
<1>2. c \in Collector
    BY DEF CoreInv, TypeOK
<1>3. runs[c] \in [running: Nat, success: Nat, error: Nat]
    BY <1>2 DEF CoreInv, TypeOK
<1>4. runs' \in [Collector -> [running: Nat, success: Nat, error: Nat]]
    <2>1. runs \in [Collector -> [running: Nat, success: Nat, error: Nat]]
        BY DEF CoreInv, TypeOK
    <2>2. [runs[c] EXCEPT !.running = runs[c].running + 1]
            \in [running: Nat, success: Nat, error: Nat]
        BY <1>3
    <2> QED
        BY <1>1, <1>2, <2>1, <2>2
<1>5. /\ (runs[c].success = 0) \in BOOLEAN
      /\ (c \in Conditional /\ RefreshKeys(c) = {}) \in BOOLEAN
    OBVIOUS
<1>6. [c |-> c, first |-> runs[c].success = 0,
       conditional |-> c \in Conditional /\ RefreshKeys(c) = {}]
         \in [c: Collector, first: BOOLEAN, conditional: BOOLEAN]
    BY <1>2, <1>5
<1>7. job' \in [Poller -> [c: Collector, first: BOOLEAN, conditional: BOOLEAN] \cup {None}]
    BY <1>1, <1>6 DEF CoreInv, TypeOK
<1>8. TypeOK'
    BY <1>1, <1>4, <1>7 DEF CoreInv, TypeOK, BeginCollector, ghostVars
<1>9. Holds(p) /\ lock' = lock /\ \A q \in Poller : q # p => job'[q] = None
    BY <1>1, OnlyRun DEF CoreInv, TypeOK, BeginCollector
<1>10. Exclusive'
    BY <1>9 DEF Exclusive, Holds
<1>11. job'[p].c = c /\ runs'[c].running > 0
    BY <1>1, <1>2, <1>3 DEF CoreInv, TypeOK
<1>12. RunRecorded'
    BY <1>9, <1>11 DEF RunRecorded
<1> QED
    BY <1>8, <1>10, <1>12 DEF CoreInv

\* When the run ends, no poller has one any more.
LEMMA EndedAll ==
    ASSUME CoreInv, NEW p \in Poller, Holds(p), NEW status, Ended(p, status)
    PROVE  \A q \in Poller : job'[q] = None
BY OnlyRun DEF CoreInv, TypeOK, Ended

LEMMA ObservedType ==
    ASSUME TypeOK, NEW c \in Collector, NEW listed, Observed(c, listed)
    PROVE  streak' \in [Collector -> [Key -> Nat]]
<1>1. [k \in Key |-> IF k \in listed \/ events[c][k] = None THEN 0 ELSE streak[c][k] + 1]
        \in [Key -> Nat]
    BY DEF TypeOK
<1> QED
    BY <1>1 DEF Observed, TypeOK

\* What the end of a run leaves, whatever its outcome.
LEMMA EndedCore ==
    ASSUME CoreInv, NEW p \in Poller, Holds(p), job[p] # None,
           NEW status \in {"success", "error"}, Ended(p, status)
    PROVE  /\ runs' \in [Collector -> [running: Nat, success: Nat, error: Nat]]
           /\ job' \in [Poller -> [c: Collector, first: BOOLEAN, conditional: BOOLEAN] \cup {None}]
           /\ Exclusive' /\ RunRecorded'
<1>1. runs[job[p].c].running > 0
    BY DEF CoreInv, RunRecorded
<1>2. \A q \in Poller : job'[q] = None
    BY EndedAll
<1> QED
    BY <1>1, <1>2, EndedType DEF CoreInv, JobType, Exclusive, RunRecorded

LEMMA FetchOkCore ==
    ASSUME CoreInv, NEW p \in Poller, FetchOk(p)
    PROVE  CoreInv'
<1> DEFINE c == job[p].c
           first == job[p].first
<1>1. PICK batch \in Batches(c) :
        /\ events' = [events EXCEPT ![c] =
             [k \in Key |-> IF k \in DOMAIN batch THEN Listed(events[c][k], batch[k])
                                                  ELSE Missed(events[c][k])]]
        /\ log' = [log EXCEPT ![c] =
             [k \in Key |-> log[c][k] \o
                 IF k \in DOMAIN batch THEN ListedRows(events[c][k], batch[k], first)
                                       ELSE MissedRows(events[c][k])]]
        /\ cache' = IF job[p].conditional
                    THEN [cache EXCEPT ![c] = Index(batch)] ELSE cache
        /\ Observed(c, DOMAIN batch)
        /\ born' = [born EXCEPT ![c] =
             [k \in Key |-> IF k \in DOMAIN batch /\ events[c][k] = None
                            THEN Compared(Resolve(batch[k], Blank)) ELSE born[c][k]]]
        /\ opening' = IF opening[c] = None
                      THEN [opening EXCEPT ![c] = DOMAIN batch] ELSE opening
    BY DEF FetchOk, StoreBatch
<1>2. /\ Holds(p) /\ job[p] # None /\ Ended(p, "success")
      /\ UNCHANGED <<lock, todo, now, polls>>
    BY DEF FetchOk, StoreBatch
<1>3. c \in Collector /\ first \in BOOLEAN
    BY <1>2 DEF CoreInv, TypeOK
<1> HIDE DEF c, first
<1>4. TypeOK
    BY DEF CoreInv
<1>5. /\ runs' \in [Collector -> [running: Nat, success: Nat, error: Nat]]
      /\ job' \in [Poller -> [c: Collector, first: BOOLEAN, conditional: BOOLEAN] \cup {None}]
      /\ Exclusive' /\ RunRecorded'
    BY <1>2, EndedCore
<1>6. events' \in [Collector -> [Key -> Event \cup {None}]]
    <2>1. [k \in Key |-> IF k \in DOMAIN batch THEN Listed(events[c][k], batch[k])
                                               ELSE Missed(events[c][k])]
            \in [Key -> Event \cup {None}]
        BY <1>3, <1>4, FetchOkTables
    <2> QED
        BY <1>1, <1>4, <2>1 DEF TypeOK
<1>7. log' \in [Collector -> [Key -> Seq(Row)]]
    <2>1. [k \in Key |-> log[c][k] \o
             IF k \in DOMAIN batch THEN ListedRows(events[c][k], batch[k], first)
                                   ELSE MissedRows(events[c][k])] \in [Key -> Seq(Row)]
        BY <1>3, <1>4, FetchOkTables
    <2> QED
        BY <1>1, <1>4, <2>1 DEF TypeOK
<1>8. streak' \in [Collector -> [Key -> Nat]]
    BY <1>1, <1>3, <1>4, ObservedType
<1>9. born' \in [Collector -> [Key -> Digest \cup {None}]]
    <2>1. ASSUME NEW k \in Key, k \in DOMAIN batch
          PROVE  Compared(Resolve(batch[k], Blank)) \in Digest
        <3>1. batch[k] \in RawEvent
            BY <2>1, BatchType
        <3>2. Resolve(batch[k], Stored(None)) \in Content
            BY <3>1, ResolveType
        <3> QED
            BY <3>2, ComparedType DEF Stored
    <2>2. [k \in Key |-> IF k \in DOMAIN batch /\ events[c][k] = None
                         THEN Compared(Resolve(batch[k], Blank)) ELSE born[c][k]]
            \in [Key -> Digest \cup {None}]
        BY <1>3, <1>4, <2>1 DEF TypeOK
    <2> QED
        BY <1>1, <1>4, <2>2 DEF TypeOK
<1>10. opening' \in [Collector -> (SUBSET Key) \cup {None}]
    BY <1>1, <1>4, BatchType DEF TypeOK
<1>11. DOMAIN cache' = Collector
    BY <1>1, <1>4 DEF TypeOK
<1>12. TypeOK'
    BY <1>2, <1>4, <1>5, <1>6, <1>7, <1>8, <1>9, <1>10, <1>11 DEF TypeOK
<1> QED
    BY <1>5, <1>12 DEF CoreInv

LEMMA FetchNotModifiedCore ==
    ASSUME CoreInv, NEW p \in Poller, FetchNotModified(p)
    PROVE  CoreInv'
<1> DEFINE c == job[p].c
<1>1. /\ Holds(p) /\ job[p] # None /\ Ended(p, "success")
      /\ events' = [events EXCEPT ![c] = [k \in Key |-> Touched(events[c][k])]]
      /\ Observed(c, DOMAIN cache[c])
      /\ UNCHANGED <<lock, todo, log, cache, now, polls, born, opening>>
    BY DEF FetchNotModified, TouchAll
<1>2. c \in Collector /\ TypeOK
    BY <1>1 DEF CoreInv, TypeOK
<1>3. /\ runs' \in [Collector -> [running: Nat, success: Nat, error: Nat]]
      /\ job' \in [Poller -> [c: Collector, first: BOOLEAN, conditional: BOOLEAN] \cup {None}]
      /\ Exclusive' /\ RunRecorded'
    BY <1>1, EndedCore
<1> HIDE DEF c
<1>4. events' \in [Collector -> [Key -> Event \cup {None}]]
    <2>1. [k \in Key |-> Touched(events[c][k])] \in [Key -> Event \cup {None}]
        BY <1>2, MissedType DEF TypeOK
    <2> QED
        BY <1>1, <1>2, <2>1 DEF TypeOK
<1>5. streak' \in [Collector -> [Key -> Nat]]
    BY <1>1, <1>2, ObservedType
<1>6. TypeOK'
    BY <1>1, <1>2, <1>3, <1>4, <1>5 DEF TypeOK
<1> QED
    BY <1>3, <1>6 DEF CoreInv

LEMMA FetchErrorCore ==
    ASSUME CoreInv, NEW p \in Poller, FetchError(p)
    PROVE  CoreInv'
<1>1. /\ Holds(p) /\ job[p] # None /\ Ended(p, "error")
      /\ UNCHANGED <<lock, todo, events, log, cache, now, polls, ghostVars>>
    BY DEF FetchError
<1>2. /\ runs' \in [Collector -> [running: Nat, success: Nat, error: Nat]]
      /\ job' \in [Poller -> [c: Collector, first: BOOLEAN, conditional: BOOLEAN] \cup {None}]
      /\ Exclusive' /\ RunRecorded'
    BY <1>1, EndedCore
<1>3. TypeOK'
    BY <1>1, <1>2 DEF CoreInv, TypeOK, ghostVars
<1> QED
    BY <1>2, <1>3 DEF CoreInv

\* FinishPoll and Escape: the holder leaves and has no run any more.
LEMMA LeaveCore ==
    ASSUME CoreInv, NEW p \in Poller, Holds(p), lock' = Tail(lock),
           todo' \in [Poller -> SUBSET Collector],
           \/ job[p] = None /\ job' = job
           \/ job' = [job EXCEPT ![p] = None],
           UNCHANGED <<dbVars, now, polls, ghostVars>>
    PROVE  CoreInv'
<1>1. \A q \in Poller : job'[q] = None
    BY OnlyRun DEF CoreInv, TypeOK
<1>2. lock' \in Seq(Poller)
    BY HeadTailProperties DEF CoreInv, TypeOK, Holds
<1>3. job' \in [Poller -> [c: Collector, first: BOOLEAN, conditional: BOOLEAN] \cup {None}]
    BY DEF CoreInv, TypeOK
<1>4. TypeOK'
    BY <1>2, <1>3 DEF CoreInv, TypeOK, dbVars, ghostVars
<1> QED
    BY <1>1, <1>4 DEF CoreInv, Exclusive, RunRecorded

LEMMA CrashCore ==
    ASSUME CoreInv, Crash
    PROVE  CoreInv'
<1>1. << >> \in Seq(Poller)
    OBVIOUS
<1>2. TypeOK'
    BY <1>1 DEF CoreInv, TypeOK, Crash, dbVars, ghostVars
<1> QED
    BY <1>2 DEF CoreInv, Crash, Exclusive, RunRecorded

LEMMA CoreStep ==
    ASSUME CoreInv, [Next]_vars
    PROVE  CoreInv'
<1>1. ASSUME NEW p \in Poller, RunPoll(p)
      PROVE  CoreInv'
    BY <1>1, RunPollCore
<1>2. ASSUME NEW p \in Poller, BeginCollector(p)
      PROVE  CoreInv'
    BY <1>2, BeginCollectorCore
<1>3. ASSUME NEW p \in Poller, FetchOk(p)
      PROVE  CoreInv'
    BY <1>3, FetchOkCore
<1>4. ASSUME NEW p \in Poller, FetchNotModified(p)
      PROVE  CoreInv'
    BY <1>4, FetchNotModifiedCore
<1>5. ASSUME NEW p \in Poller, FetchError(p)
      PROVE  CoreInv'
    BY <1>5, FetchErrorCore
<1>6. ASSUME NEW p \in Poller, FinishPoll(p)
      PROVE  CoreInv'
    BY <1>6, LeaveCore DEF FinishPoll, CoreInv, TypeOK
<1>7. ASSUME NEW p \in Poller, Escape(p)
      PROVE  CoreInv'
    BY <1>7, LeaveCore DEF Escape, CoreInv, TypeOK
<1>8. CASE Crash
    BY <1>8, CrashCore
<1>9. CASE Tick
    BY <1>9 DEF Tick, CoreInv, TypeOK, Exclusive, RunRecorded, Holds, dbVars, ghostVars, Time
<1>10. CASE UNCHANGED vars
    BY <1>10 DEF vars, CoreInv, TypeOK, Exclusive, RunRecorded, Holds
<1> QED
    BY <1>1, <1>2, <1>3, <1>4, <1>5, <1>6, <1>7, <1>8, <1>9, <1>10 DEF Next, Step

\* Every table stays well typed, for any number of pollers: no run's row is
\* counted out of "running" twice, which only the poll lock ensures
\* (scheduler.py:26, core/ingest.py:207).
THEOREM TypeCorrect == Spec => []TypeOK
<1>1. Init => CoreInv
    BY CoreInit
<1>2. CoreInv /\ [Next]_vars => CoreInv'
    BY CoreStep
<1>3. CoreInv => TypeOK
    BY DEF CoreInv
<1> QED
    BY <1>1, <1>2, <1>3, PTL DEF Spec

-----------------------------------------------------------------------------
(* What a step can do to one event: it is listed, missed, touched by a     *)
(* 304, or left alone.                                                     *)

ListedBy(c, k, raw, first) ==
    /\ events'[c][k] = Listed(events[c][k], raw)
    /\ log'[c][k] = log[c][k] \o ListedRows(events[c][k], raw, first)
    /\ streak'[c][k] = 0
    /\ born'[c][k] = IF events[c][k] = None THEN Compared(Resolve(raw, Blank)) ELSE born[c][k]

MissedNow(c, k) ==
    /\ events'[c][k] = Missed(events[c][k])
    /\ log'[c][k] = log[c][k] \o MissedRows(events[c][k])
    /\ streak'[c][k] = IF events[c][k] = None THEN 0 ELSE streak[c][k] + 1
    /\ born'[c][k] = born[c][k]

TouchedNow(c, k) ==
    /\ events'[c][k] = Touched(events[c][k])
    /\ log'[c][k] = log[c][k]
    /\ born'[c][k] = born[c][k]

LeftAlone(c, k) ==
    /\ events'[c][k] = events[c][k]
    /\ log'[c][k] = log[c][k]
    /\ streak'[c][k] = streak[c][k]
    /\ born'[c][k] = born[c][k]

\* A full read lists or misses each event of its collector.
LEMMA FetchOkBatch ==
    ASSUME CoreInv, NEW p \in Poller, FetchOk(p)
    PROVE  \E batch \in Batches(job[p].c) :
              /\ opening' = IF opening[job[p].c] = None
                            THEN [opening EXCEPT ![job[p].c] = DOMAIN batch] ELSE opening
              /\ \A c \in Collector \ {job[p].c} : cache'[c] = cache[c]
              /\ \A c \in Collector, k \in Key :
                    IF c # job[p].c THEN LeftAlone(c, k)
                    ELSE IF k \in DOMAIN batch THEN ListedBy(c, k, batch[k], job[p].first)
                    ELSE MissedNow(c, k)
<1> DEFINE d == job[p].c
<1>1. PICK batch \in Batches(d) :
        /\ events' = [events EXCEPT ![d] =
             [x \in Key |-> IF x \in DOMAIN batch THEN Listed(events[d][x], batch[x])
                                                  ELSE Missed(events[d][x])]]
        /\ log' = [log EXCEPT ![d] =
             [x \in Key |-> log[d][x] \o
                 IF x \in DOMAIN batch THEN ListedRows(events[d][x], batch[x], job[p].first)
                                       ELSE MissedRows(events[d][x])]]
        /\ cache' = IF job[p].conditional
                    THEN [cache EXCEPT ![d] = Index(batch)] ELSE cache
        /\ Observed(d, DOMAIN batch)
        /\ born' = [born EXCEPT ![d] =
             [x \in Key |-> IF x \in DOMAIN batch /\ events[d][x] = None
                            THEN Compared(Resolve(batch[x], Blank)) ELSE born[d][x]]]
        /\ opening' = IF opening[d] = None
                      THEN [opening EXCEPT ![d] = DOMAIN batch] ELSE opening
    BY DEF FetchOk, StoreBatch
<1>2. streak' = [streak EXCEPT ![d] =
        [x \in Key |-> IF x \in DOMAIN batch \/ events[d][x] = None
                       THEN 0 ELSE streak[d][x] + 1]]
    BY <1>1 DEF Observed
<1>3. /\ events \in [Collector -> [Key -> Event \cup {None}]]
      /\ log \in [Collector -> [Key -> Seq(Row)]]
      /\ streak \in [Collector -> [Key -> Nat]]
      /\ born \in [Collector -> [Key -> Digest \cup {None}]]
    BY DEF CoreInv, TypeOK
<1>4. WITNESS batch \in Batches(d)
<1>5. \A c \in Collector \ {d} : cache'[c] = cache[c]
    BY <1>1
<1>6. ASSUME NEW c \in Collector, NEW k \in Key
      PROVE  IF c # d THEN LeftAlone(c, k)
             ELSE IF k \in DOMAIN batch THEN ListedBy(c, k, batch[k], job[p].first)
             ELSE MissedNow(c, k)
    <2> HIDE DEF d
    <2>1. CASE c # d
        BY <1>1, <1>2, <1>3, <2>1 DEF LeftAlone
    <2>2. CASE c = d /\ k \in DOMAIN batch
        BY <1>1, <1>2, <1>3, <2>2 DEF ListedBy
    <2>3. CASE c = d /\ k \notin DOMAIN batch
        BY <1>1, <1>2, <1>3, <2>3 DEF MissedNow
    <2> QED
        BY <2>1, <2>2, <2>3
<1> QED
    BY <1>1, <1>5, <1>6

\* A 304 touches each event of its collector.
LEMMA FetchNotModifiedFate ==
    ASSUME CoreInv, NEW p \in Poller, FetchNotModified(p), NEW c \in Collector, NEW k \in Key
    PROVE  TouchedNow(c, k) \/ LeftAlone(c, k)
<1> DEFINE d == job[p].c
<1>1. /\ events' = [events EXCEPT ![d] = [x \in Key |-> Touched(events[d][x])]]
      /\ Observed(d, DOMAIN cache[d])
      /\ log' = log /\ born' = born
    BY DEF FetchNotModified, TouchAll
<1>2. /\ events \in [Collector -> [Key -> Event \cup {None}]]
      /\ streak \in [Collector -> [Key -> Nat]]
    BY DEF CoreInv, TypeOK
<1> HIDE DEF d
<1>3. CASE c # d
    BY <1>1, <1>2, <1>3 DEF LeftAlone, Observed
<1>4. CASE c = d
    BY <1>1, <1>2, <1>4 DEF TouchedNow
<1> QED
    BY <1>3, <1>4

LEMMA FetchOkFate ==
    ASSUME CoreInv, NEW p \in Poller, FetchOk(p), NEW c \in Collector, NEW k \in Key
    PROVE  \/ \E raw \in RawEvent, first \in BOOLEAN : ListedBy(c, k, raw, first)
           \/ MissedNow(c, k)
           \/ LeftAlone(c, k)
<1>1. job[p].first \in BOOLEAN
    BY DEF CoreInv, TypeOK, FetchOk, StoreBatch
<1>2. PICK batch \in Batches(job[p].c) :
        IF c # job[p].c THEN LeftAlone(c, k)
        ELSE IF k \in DOMAIN batch THEN ListedBy(c, k, batch[k], job[p].first)
        ELSE MissedNow(c, k)
    BY FetchOkBatch
<1>3. k \in DOMAIN batch => batch[k] \in RawEvent
    BY BatchType
<1> QED
    BY <1>1, <1>2, <1>3

LEMMA EventFate ==
    ASSUME CoreInv, [Next]_vars, NEW c \in Collector, NEW k \in Key
    PROVE  \/ \E raw \in RawEvent, first \in BOOLEAN : ListedBy(c, k, raw, first)
           \/ MissedNow(c, k)
           \/ TouchedNow(c, k)
           \/ LeftAlone(c, k)
<1>1. ASSUME NEW p \in Poller, FetchOk(p)
      PROVE  \/ \E raw \in RawEvent, first \in BOOLEAN : ListedBy(c, k, raw, first)
             \/ MissedNow(c, k)
             \/ LeftAlone(c, k)
    BY <1>1, FetchOkFate
<1>2. ASSUME NEW p \in Poller, FetchNotModified(p)
      PROVE  TouchedNow(c, k) \/ LeftAlone(c, k)
    BY <1>2, FetchNotModifiedFate
<1>3. ASSUME NEW p \in Poller,
             RunPoll(p) \/ BeginCollector(p) \/ FetchError(p) \/ FinishPoll(p) \/ Escape(p)
      PROVE  LeftAlone(c, k)
    BY <1>3 DEF RunPoll, BeginCollector, FetchError, FinishPoll, Escape, LeftAlone, dbVars, ghostVars
<1>4. CASE Crash \/ Tick \/ UNCHANGED vars
    BY <1>4 DEF Crash, Tick, vars, LeftAlone, dbVars, ghostVars
<1> QED
    BY <1>1, <1>2, <1>3, <1>4 DEF Next, Step

-----------------------------------------------------------------------------
(* The stored hash.                                                        *)

\* The informational attributes are not hashed.
LEMMA ImageNotHashed ==
    ASSUME NEW d \in Content, NEW image
    PROVE  ContentHash([d EXCEPT !.image_url = image]) = ContentHash(d)
BY DEF ContentHash, Compared, Content

LEMMA ListedHash ==
    ASSUME NEW ev \in Event \cup {None}, NEW raw \in RawEvent,
           ev # None => ev.hash = ContentHash(ev.data)
    PROVE  Listed(ev, raw).hash = ContentHash(Listed(ev, raw).data)
<1> DEFINE res == Resolve(raw, Stored(ev))
           fresh == [data |-> res, hash |-> ContentHash(res), status |-> "active", missing |-> 0]
           kept == [ev EXCEPT !.data.image_url = res.image_url, !.status = "active", !.missing = 0]
<1>1. Listed(ev, raw) = fresh \/ (ev # None /\ Listed(ev, raw) = kept)
    BY DEF Listed
<1>2. fresh.hash = ContentHash(fresh.data)
    OBVIOUS
<1>3. ASSUME ev # None
      PROVE  kept.hash = ContentHash(kept.data)
    <2>1. ev \in Event /\ ev.data \in Content
        BY <1>3 DEF Event
    <2>2. kept.hash = ev.hash /\ kept.data = [ev.data EXCEPT !.image_url = res.image_url]
        BY <2>1 DEF Event
    <2> QED
        BY <1>3, <2>1, <2>2, ImageNotHashed
<1> QED
    BY <1>1, <1>2, <1>3

LEMMA MissedKeepsContent ==
    ASSUME NEW ev \in Event
    PROVE  /\ Missed(ev).hash = ev.hash /\ Missed(ev).data = ev.data
           /\ Touched(ev).hash = ev.hash /\ Touched(ev).data = ev.data
BY DEF Missed, Touched, Event

\* Nothing becomes an event, and no event vanishes, but by being listed.
LEMMA MissedNone == Missed(None) = None /\ Touched(None) = None
BY DEF Missed, Touched, Counts

LEMMA HashStep ==
    ASSUME CoreInv, HashCoherent, [Next]_vars
    PROVE  HashCoherent'
<1> SUFFICES ASSUME NEW c \in Collector, NEW k \in Key, events'[c][k] # None
             PROVE  events'[c][k].hash = ContentHash(events'[c][k].data)
    BY DEF HashCoherent, ContentHash, Compared
<1> DEFINE ev == events[c][k]
<1>1. ev \in Event \cup {None} /\ (ev # None => ev.hash = ContentHash(ev.data))
    BY DEF CoreInv, TypeOK, HashCoherent
<1>2. ASSUME NEW raw \in RawEvent, events'[c][k] = Listed(ev, raw)
      PROVE  events'[c][k].hash = ContentHash(events'[c][k].data)
    BY <1>1, <1>2, ListedHash
<1>3. ASSUME events'[c][k] \in {Missed(ev), Touched(ev), ev}
      PROVE  events'[c][k].hash = ContentHash(events'[c][k].data)
    BY <1>1, <1>3, MissedKeepsContent, MissedNone
<1> QED
    BY <1>2, <1>3, EventFate DEF ListedBy, MissedNow, TouchedNow, LeftAlone

\* What a poll compares a listing against is the hash of what is stored, after
\* any sequence of polls: a change is never hidden by a stale hash
\* (core/ingest.py:121, 157).
THEOREM HashesAgree == Spec => []HashCoherent
<1>1. Init => CoreInv /\ HashCoherent
    BY CoreInit DEF Init, HashCoherent
<1>2. CoreInv /\ HashCoherent /\ [Next]_vars => (CoreInv /\ HashCoherent)'
    BY CoreStep, HashStep
<1> QED
    BY <1>1, <1>2, PTL DEF Spec

-----------------------------------------------------------------------------
(* Removals are earned.                                                    *)

\* The count of an active event never runs ahead of the polls that missed it.
MissedCounted ==
    \A c \in Collector, k \in Key :
        events[c][k] # None /\ events[c][k].status = "active"
        => events[c][k].missing <= streak[c][k]

LEMMA ListedCounts ==
    ASSUME NEW ev \in Event \cup {None}, NEW raw \in RawEvent
    PROVE  Listed(ev, raw).status = "active" /\ Listed(ev, raw).missing = 0
BY DEF Listed, Event

\* A miss counts one up or, like a 304, leaves the status alone.
LEMMA MissedCounts ==
    ASSUME NEW ev \in Event
    PROVE  /\ Missed(ev).missing <= ev.missing + 1
           /\ Missed(ev).status = "active" => ev.status = "active"
           /\ (ev.status = "active" /\ Missed(ev).status = "removed")
              => ev.missing + 1 >= Threshold
           /\ Touched(ev).status = ev.status
           /\ Touched(ev).status = "active" => Touched(ev).missing = 0
<1>1. ev.missing \in Nat /\ ev.status \in {"active", "removed"}
    BY DEF Event
<1>2. CASE Counts(ev)
    <2>1. Missed(ev).missing = ev.missing + 1 /\ ev.status = "active"
        BY <1>2 DEF Missed, Counts, Event
    <2>2. Missed(ev).status = IF Goes(ev) THEN "removed" ELSE "active"
        BY <1>2 DEF Missed, Event
    <2>3. Goes(ev) => ev.missing + 1 >= Threshold
        BY DEF Goes
    <2>4. Touched(ev).status = ev.status /\ Touched(ev).missing = 0
        BY <2>1, <1>2 DEF Touched, Counts, Event
    <2> QED
        BY <1>1, <2>1, <2>2, <2>3, <2>4
<1>3. CASE ~Counts(ev)
    <2>1. Missed(ev) = ev
        BY <1>3 DEF Missed
    <2>2. ev # None => Touched(ev).status = ev.status
        BY DEF Touched, Event
    <2>3. ev # None /\ ev.status = "active" => Touched(ev).missing = 0
        BY DEF Touched, Event
    <2> QED
        BY <1>1, <2>1, <2>2, <2>3, IngestAssumption
<1> QED
    BY <1>2, <1>3

\* One step from a state in which no count is ahead of its streak.
LEMMA RemovalStep ==
    ASSUME CoreInv, MissedCounted, [Next]_vars, NEW c \in Collector, NEW k \in Key
    PROVE  /\ events'[c][k] # None /\ events'[c][k].status = "active"
              => events'[c][k].missing <= streak'[c][k]
           /\ (/\ events[c][k] # None /\ events[c][k].status = "active"
               /\ events'[c][k].status = "removed")
              => streak'[c][k] >= Threshold
<1> DEFINE ev == events[c][k]
<1>1. /\ ev \in Event \cup {None}
      /\ streak[c][k] \in Nat /\ streak'[c][k] \in Nat
      /\ Threshold \in Nat
    BY CoreStep, IngestAssumption DEF CoreInv, TypeOK
<1>2. ev # None /\ ev.status = "active" => ev.missing <= streak[c][k]
    BY DEF MissedCounted
<1>3. ev # None => ev.missing \in Nat /\ ev.status \in {"active", "removed"}
    BY <1>1 DEF Event
<1> HIDE DEF ev
<1>4. ASSUME NEW raw \in RawEvent, NEW first \in BOOLEAN, ListedBy(c, k, raw, first)
      PROVE  events'[c][k].status = "active" /\ events'[c][k].missing = 0
    BY <1>1, <1>4, ListedCounts DEF ListedBy, ev
<1>5. CASE MissedNow(c, k) /\ ev # None
    <2>1. events'[c][k] = Missed(ev) /\ streak'[c][k] = streak[c][k] + 1
        BY <1>5 DEF MissedNow, ev
    <2>2. Missed(ev).missing \in Nat
        BY <1>1, <1>5, MissedType, MissedEvent DEF Event
    <2> QED
        BY <1>1, <1>2, <1>3, <1>5, <2>1, <2>2, MissedCounts DEF ev
<1>6. CASE TouchedNow(c, k) /\ ev # None
    BY <1>1, <1>3, <1>6, MissedCounts DEF TouchedNow, ev
<1>7. CASE LeftAlone(c, k)
    BY <1>1, <1>2, <1>3, <1>7 DEF LeftAlone, ev
<1>8. CASE ev = None /\ (MissedNow(c, k) \/ TouchedNow(c, k))
    BY <1>8, MissedNone DEF MissedNow, TouchedNow, ev
<1>9. CASE \E raw \in RawEvent, first \in BOOLEAN : ListedBy(c, k, raw, first)
    BY <1>1, <1>4, <1>9
<1> QED
    BY <1>5, <1>6, <1>7, <1>8, <1>9, EventFate

\* No poll marks an event removed before Threshold successful polls in a row have
\* not listed it, whatever fails, crashes, overlaps or answers 304 in between
\* (core/ingest.py:180, 197).
THEOREM RemovalsAreEarned == Spec => RemovalEarned
<1>1. Init => CoreInv /\ MissedCounted
    BY CoreInit DEF Init, MissedCounted
<1>2. CoreInv /\ MissedCounted /\ [Next]_vars => (CoreInv /\ MissedCounted)'
    BY CoreStep, RemovalStep DEF MissedCounted
<1>3. CoreInv /\ MissedCounted /\ [Next]_vars
        => \A c \in Collector, k \in Key :
              (/\ events[c][k] # None /\ events[c][k].status = "active"
               /\ events'[c][k].status = "removed")
              => streak'[c][k] >= Threshold
    BY RemovalStep
<1> QED
    BY <1>1, <1>2, <1>3, PTL DEF Spec, RemovalEarned

-----------------------------------------------------------------------------
(* The context of a run.                                                   *)

LEMMA ContextStep ==
    ASSUME CoreInv, ContextFresh, [Next]_vars
    PROVE  ContextFresh'
<1>1. ASSUME NEW p \in Poller, FetchOk(p) \/ FetchNotModified(p) \/ FetchError(p)
      PROVE  ContextFresh'
    <2>1. Holds(p) /\ \E status \in {"success", "error"} : Ended(p, status)
        BY <1>1 DEF FetchOk, StoreBatch, FetchNotModified, TouchAll, FetchError
    <2>2. \A q \in Poller : job'[q] = None
        BY <2>1, EndedAll
    <2> QED
        BY <2>2 DEF ContextFresh
<1>2. ASSUME NEW p \in Poller, FinishPoll(p) \/ Escape(p)
      PROVE  ContextFresh'
    <2>1. Holds(p) /\ ((job[p] = None /\ job' = job) \/ job' = [job EXCEPT ![p] = None])
        BY <1>2 DEF FinishPoll, Escape
    <2>2. \A q \in Poller : job'[q] = None
        BY <2>1, OnlyRun DEF CoreInv, TypeOK
    <2> QED
        BY <2>2 DEF ContextFresh
<1>3. ASSUME NEW p \in Poller, BeginCollector(p)
      PROVE  ContextFresh'
    <2>1. PICK c \in todo[p] :
            /\ runs' = [runs EXCEPT ![c].running = runs[c].running + 1]
            /\ job' = [job EXCEPT ![p] =
                        [c |-> c, first |-> runs[c].success = 0,
                         conditional |-> c \in Conditional /\ RefreshKeys(c) = {}]]
        BY <1>3 DEF BeginCollector
    <2>2. c \in Collector /\ Holds(p) /\ events' = events
        BY <1>3 DEF CoreInv, TypeOK, BeginCollector
    <2>3. \A q \in Poller : q # p => job'[q] = None
        BY <2>1, <2>2, OnlyRun DEF CoreInv, TypeOK
    <2>4. job'[p] = [c |-> c, first |-> runs[c].success = 0,
                     conditional |-> c \in Conditional /\ RefreshKeys(c) = {}]
        BY <2>1 DEF CoreInv, TypeOK
    <2>5. runs'[c].success = runs[c].success
        BY <2>1, <2>2 DEF CoreInv, TypeOK
    <2>6. job'[p].c = c
        BY <2>4
    <2>7. RefreshKeys(job[p].c)' = RefreshKeys(c)
        BY <2>2, <2>6 DEF RefreshKeys
    <2>8. /\ job'[p].first = (runs'[job'[p].c].success = 0)
          /\ job'[p].conditional
             = (job'[p].c \in Conditional /\ RefreshKeys(job[p].c)' = {})
        <3>1. job'[p].first = (runs[c].success = 0)
            BY <2>4
        <3>2. job'[p].conditional = (c \in Conditional /\ RefreshKeys(c) = {})
            BY <2>4
        <3> QED
            BY <3>1, <3>2, <2>5, <2>6, <2>7, Zenon
    <2>9. SUFFICES ASSUME NEW q \in Poller, job'[q] # None
                   PROVE  /\ job'[q].first <=> runs'[job'[q].c].success = 0
                          /\ job'[q].conditional
                             <=> (job'[q].c \in Conditional /\ RefreshKeys(job[q].c)' = {})
        BY DEF ContextFresh, RefreshKeys
    <2>10. q = p
        BY <2>3, <2>9
    <2> QED
        BY <2>8, <2>10
<1>4. ASSUME NEW p \in Poller, RunPoll(p)
      PROVE  ContextFresh'
    BY <1>4 DEF RunPoll, ContextFresh, RefreshKeys, dbVars
<1>5. CASE Crash
    BY <1>5 DEF Crash, ContextFresh
<1>6. CASE Tick \/ UNCHANGED vars
    BY <1>6 DEF Tick, vars, ContextFresh, RefreshKeys, dbVars
<1> QED
    BY <1>1, <1>2, <1>3, <1>4, <1>5, <1>6 DEF Next, Step

\* However many callers of run_poll there are, what a collector's run read before
\* it awaited its source still holds when the batch is stored: the poll lock
\* protects first_run and refresh_keys (core/ingest.py:212, 216).
THEOREM ContextsAreFresh == Spec => []ContextFresh
<1>1. Init => CoreInv /\ ContextFresh
    BY CoreInit DEF Init, ContextFresh
<1>2. CoreInv /\ ContextFresh /\ [Next]_vars => (CoreInv /\ ContextFresh)'
    BY CoreStep, ContextStep
<1> QED
    BY <1>1, <1>2, PTL DEF Spec

-----------------------------------------------------------------------------
(* Baseline rows.  The first successful run is the first batch read: a 304 *)
(* needs a validator, and that was stored with an earlier batch.           *)

OpeningOf(c) ==
    /\ opening[c] = None <=> runs[c].success = 0
    /\ cache[c] # None => opening[c] # None
    /\ opening[c] = None => \A k \in Key : events[c][k] = None
    /\ opening[c] # None => \A k \in opening[c] : events[c][k] # None
    /\ \A k \in Key : events[c][k] = None <=> log[c][k] = << >>

BaselineAt(c, k) ==
    \A i \in DOMAIN log[c][k] :
        log[c][k][i].type = "baseline" <=> (i = 1 /\ k \in opening[c])

OpeningInv == \A c \in Collector : OpeningOf(c) /\ \A k \in Key : BaselineAt(c, k)

\* An event's later rows are no baseline rows.
LEMMA AppendedRows ==
    ASSUME NEW s \in Seq(Row), s # << >>, NEW t \in Seq(Row),
           \A i \in DOMAIN t : t[i].type # "baseline",
           NEW S, NEW k,
           \A i \in DOMAIN s : s[i].type = "baseline" <=> (i = 1 /\ k \in S)
    PROVE  /\ s \o t # << >>
           /\ \A i \in DOMAIN (s \o t) :
                (s \o t)[i].type = "baseline" <=> (i = 1 /\ k \in S)
<1>1. /\ s \o t \in Seq(Row)
      /\ Len(s \o t) = Len(s) + Len(t)
      /\ \A i \in 1..(Len(s) + Len(t)) : (s \o t)[i] = IF i <= Len(s) THEN s[i] ELSE t[i - Len(s)]
    BY ConcatProperties
<1>2. Len(s) \in Nat \ {0} /\ Len(t) \in Nat /\ DOMAIN s = 1..Len(s) /\ DOMAIN t = 1..Len(t)
    BY EmptySeq
<1>3. ASSUME NEW i \in DOMAIN (s \o t)
      PROVE  (s \o t)[i].type = "baseline" <=> (i = 1 /\ k \in S)
    <2>1. i \in 1..(Len(s) + Len(t))
        BY <1>1
    <2>2. CASE i <= Len(s)
        BY <1>1, <1>2, <2>1, <2>2
    <2>3. CASE i > Len(s)
        <3>1. i - Len(s) \in DOMAIN t /\ i # 1
            BY <1>2, <2>1, <2>3
        <3> QED
            BY <1>1, <1>2, <2>1, <2>3, <3>1
    <2> QED
        BY <1>2, <2>1, <2>2, <2>3
<1> QED
    BY <1>1, <1>2, <1>3, EmptySeq

LEMMA ListedRowsKinds ==
    ASSUME NEW ev \in Event \cup {None}, NEW raw, NEW first
    PROVE  /\ ev = None => ListedRows(ev, raw, first) =
                <<[type |-> IF first THEN "baseline" ELSE "added", changes |-> NoChange]>>
           /\ ev # None => \A i \in DOMAIN ListedRows(ev, raw, first) :
                ListedRows(ev, raw, first)[i].type # "baseline"
<1>1. CASE ev = None
    BY <1>1 DEF ListedRows
<1>2. CASE ev # None
    <2> DEFINE ch == FieldChanges(ev.data, Resolve(raw, Stored(ev)))
    <2>1. \/ ListedRows(ev, raw, first) =
                <<[type |-> IF IsTransition(ch) THEN "ticket_status" ELSE "updated",
                   changes |-> ch]>>
          \/ ListedRows(ev, raw, first) = <<[type |-> "added", changes |-> NoChange]>>
          \/ ListedRows(ev, raw, first) = << >>
        BY <1>2 DEF ListedRows
    <2> HIDE DEF ch
    <2> QED
        BY <1>2, <2>1
<1> QED
    BY <1>1, <1>2

\* The rows of one event of a collector that was read in full.
LEMMA OpeningListed ==
    ASSUME CoreInv, ContextFresh, OpeningInv, NEW p \in Poller, job[p] # None,
           NEW c \in Collector, c = job[p].c,
           NEW batch \in Batches(c), NEW k \in Key,
           IF k \in DOMAIN batch THEN ListedBy(c, k, batch[k], job[p].first)
                                 ELSE MissedNow(c, k),
           opening' = IF opening[c] = None
                      THEN [opening EXCEPT ![c] = DOMAIN batch] ELSE opening
    PROVE  /\ k \in opening'[c] => events'[c][k] # None
           /\ events'[c][k] = None <=> log'[c][k] = << >>
           /\ \A i \in DOMAIN log'[c][k] :
                log'[c][k][i].type = "baseline" <=> (i = 1 /\ k \in opening'[c])
<1> DEFINE ev == events[c][k]
           first == job[p].first
<1>1. /\ first \in BOOLEAN
      /\ opening[c] \in (SUBSET Key) \cup {None}
      /\ opening \in [Collector -> (SUBSET Key) \cup {None}]
      /\ log[c][k] \in Seq(Row) /\ ev \in Event \cup {None}
    BY DEF CoreInv, TypeOK
<1>2. OpeningOf(c) /\ BaselineAt(c, k)
    BY <1>1 DEF OpeningInv
<1>3. first <=> opening[c] = None
    BY <1>2 DEF ContextFresh, OpeningOf
<1>4. opening'[c] = IF opening[c] = None THEN DOMAIN batch ELSE opening[c]
    BY <1>1
<1>5. k \in DOMAIN batch => ListedBy(c, k, batch[k], first) /\ batch[k] \in RawEvent
    BY BatchType
<1>6. k \notin DOMAIN batch => MissedNow(c, k)
    OBVIOUS
<1>7. None \notin Event
    BY IngestAssumption
<1> DEFINE Goal ==
               /\ k \in opening'[c] => events'[c][k] # None
               /\ events'[c][k] = None <=> log'[c][k] = << >>
               /\ \A i \in DOMAIN log'[c][k] :
                    log'[c][k][i].type = "baseline" <=> (i = 1 /\ k \in opening'[c])
<1>8. ev = None <=> log[c][k] = << >>
    BY <1>2 DEF OpeningOf
<1>9. opening[c] = None => ev = None
    BY <1>2 DEF OpeningOf
<1>10. opening[c] # None /\ k \in opening[c] => ev # None
    BY <1>2 DEF OpeningOf
<1>11. \A i \in DOMAIN log[c][k] :
          log[c][k][i].type = "baseline" <=> (i = 1 /\ k \in opening[c])
    BY <1>2 DEF BaselineAt
<1> HIDE DEF ev, first
<1>12. ASSUME ev = None, k \in DOMAIN batch
       PROVE  Goal
    <2> DEFINE r == [type |-> IF first THEN "baseline" ELSE "added", changes |-> NoChange]
    <2>1. events'[c][k] # None
        BY <1>1, <1>5, <1>7, <1>12, ListedType DEF ListedBy, ev
    <2>2. r \in Row
        BY NoChangeType DEF Row, ChangeType
    <2>3. log'[c][k] = log[c][k] \o <<r>>
        BY <1>1, <1>5, <1>12, ListedRowsKinds DEF ListedBy, ev
    <2>4. log'[c][k] = <<r>>
        <3>1. <<r>> \in Seq(Row)
            BY <2>2
        <3> QED
            BY <1>8, <1>12, <2>3, <3>1, ConcatEmptySeq
    <2>5. r.type = "baseline" <=> k \in opening'[c]
        BY <1>3, <1>4, <1>10, <1>12
    <2> HIDE DEF r
    <2>6. /\ <<r>> # << >> /\ <<r>>[1] = r
          /\ \A i \in DOMAIN <<r>> : i = 1
        OBVIOUS
    <2> QED
        BY <2>1, <2>4, <2>5, <2>6
<1>13. ASSUME ev = None, k \notin DOMAIN batch
       PROVE  Goal
    <2>1. MissedRows(ev) = << >> /\ Missed(ev) = None
        BY <1>13, MissedNone DEF MissedRows, Goes, Counts
    <2>2. events'[c][k] = None /\ log'[c][k] = << >> \o << >>
        BY <1>6, <1>8, <1>13, <2>1 DEF MissedNow, ev
    <2>3. << >> \o << >> = << >>
        BY ConcatEmptySeq
    <2>4. k \notin opening'[c]
        BY <1>4, <1>10, <1>13
    <2> QED
        BY <2>2, <2>3, <2>4
<1>14. ASSUME ev # None
       PROVE  Goal
    <2>1. PICK rows \in Seq(Row) :
            /\ log'[c][k] = log[c][k] \o rows
            /\ \A i \in DOMAIN rows : rows[i].type # "baseline"
        <3>1. CASE k \in DOMAIN batch
            <4>1. /\ log'[c][k] = log[c][k] \o ListedRows(ev, batch[k], first)
                  /\ batch[k] \in RawEvent
                BY <1>5, <3>1 DEF ListedBy, ev
            <4>2. ListedRows(ev, batch[k], first) \in Seq(Row)
                BY <1>1, <4>1, ListedRowsType
            <4>3. \A i \in DOMAIN ListedRows(ev, batch[k], first) :
                     ListedRows(ev, batch[k], first)[i].type # "baseline"
                BY <1>1, <1>14, ListedRowsKinds
            <4> QED
                BY <4>1, <4>2, <4>3
        <3>2. CASE k \notin DOMAIN batch
            <4>1. MissedRows(ev) \in Seq(Row)
                BY MissedRowsType
            <4>2. \A i \in DOMAIN MissedRows(ev) : MissedRows(ev)[i].type # "baseline"
                BY DEF MissedRows
            <4> QED
                BY <1>6, <3>2, <4>1, <4>2 DEF MissedNow, ev
        <3> QED
            BY <3>1, <3>2
    <2>2. events'[c][k] # None
        BY <1>1, <1>5, <1>6, <1>7, <1>14, ListedType, MissedEvent DEF ListedBy, MissedNow, ev
    <2>3. opening'[c] = opening[c]
        BY <1>4, <1>9, <1>14
    <2>4. log[c][k] \in Seq(Row) /\ log[c][k] # << >>
        BY <1>1, <1>8, <1>14
    <2>5. /\ log[c][k] \o rows # << >>
          /\ \A i \in DOMAIN (log[c][k] \o rows) :
               (log[c][k] \o rows)[i].type = "baseline" <=> (i = 1 /\ k \in opening[c])
        BY <1>11, <2>1, <2>4, AppendedRows
    <2> QED
        BY <2>1, <2>2, <2>3, <2>5
<1>15. Goal
    BY <1>12, <1>13, <1>14
<1> QED
    BY <1>15

\* A collector that the step leaves alone.
LEMMA OpeningSame ==
    ASSUME CoreInv, OpeningInv, NEW c \in Collector,
           opening'[c] = opening[c], cache'[c] = cache[c],
           runs'[c].success = runs[c].success,
           \A k \in Key : events'[c][k] = events[c][k] /\ log'[c][k] = log[c][k]
    PROVE  OpeningOf(c)' /\ \A k \in Key : BaselineAt(c, k)'
<1>1. OpeningOf(c) /\ \A k \in Key : BaselineAt(c, k)
    BY DEF OpeningInv
<1>2. opening[c] # None => opening[c] \subseteq Key
    BY DEF CoreInv, TypeOK
<1>3. OpeningOf(c)'
    BY <1>1, <1>2 DEF OpeningOf
<1>4. ASSUME NEW k \in Key
      PROVE  BaselineAt(c, k)'
    BY <1>1 DEF BaselineAt
<1> QED
    BY <1>3, <1>4

LEMMA OpeningFetchOk ==
    ASSUME CoreInv, ContextFresh, OpeningInv, NEW p \in Poller, FetchOk(p),
           NEW c \in Collector
    PROVE  OpeningOf(c)' /\ \A k \in Key : BaselineAt(c, k)'
<1>1. PICK batch \in Batches(job[p].c) :
        /\ opening' = IF opening[job[p].c] = None
                      THEN [opening EXCEPT ![job[p].c] = DOMAIN batch] ELSE opening
        /\ \A d \in Collector \ {job[p].c} : cache'[d] = cache[d]
        /\ \A d \in Collector, k \in Key :
              IF d # job[p].c THEN LeftAlone(d, k)
              ELSE IF k \in DOMAIN batch THEN ListedBy(d, k, batch[k], job[p].first)
              ELSE MissedNow(d, k)
    BY FetchOkBatch
<1>2. /\ job[p] # None /\ job[p].c \in Collector
      /\ runs' = [runs EXCEPT ![job[p].c].running = runs[job[p].c].running - 1,
                              ![job[p].c]["success"] = runs[job[p].c]["success"] + 1]
      /\ runs \in [Collector -> [running: Nat, success: Nat, error: Nat]]
      /\ opening \in [Collector -> (SUBSET Key) \cup {None}]
    BY DEF FetchOk, StoreBatch, Ended, CoreInv, TypeOK
<1>3. CASE c # job[p].c
    BY <1>1, <1>2, <1>3, OpeningSame DEF LeftAlone
<1>4. CASE c = job[p].c
    <2>1. ASSUME NEW k \in Key
          PROVE  /\ k \in opening'[c] => events'[c][k] # None
                 /\ events'[c][k] = None <=> log'[c][k] = << >>
                 /\ \A i \in DOMAIN log'[c][k] :
                      log'[c][k][i].type = "baseline" <=> (i = 1 /\ k \in opening'[c])
        <3>1. IF k \in DOMAIN batch THEN ListedBy(c, k, batch[k], job[p].first)
                                    ELSE MissedNow(c, k)
            BY <1>1, <1>4
        <3>2. batch \in Batches(c)
            BY <1>4
        <3>3. opening' = IF opening[c] = None
                         THEN [opening EXCEPT ![c] = DOMAIN batch] ELSE opening
            BY <1>1, <1>4
        <3>4. job[p] # None
            BY <1>2
        <3> QED
            BY <1>4, <3>1, <3>2, <3>3, <3>4, OpeningListed
    <2>2. opening'[c] # None /\ opening'[c] \subseteq Key
        BY <1>1, <1>2, <1>4, BatchType, IngestAssumption
    <2>3. runs'[c].success = runs[c].success + 1 /\ runs[c].success \in Nat
        BY <1>2, <1>4
    <2>4. runs'[c].success # 0
        BY <2>3
    <2>5. OpeningOf(c)'
        BY <2>1, <2>2, <2>4 DEF OpeningOf
    <2>6. ASSUME NEW k \in Key
          PROVE  BaselineAt(c, k)'
        BY <2>1 DEF BaselineAt
    <2> QED
        BY <2>5, <2>6
<1> QED
    BY <1>3, <1>4

LEMMA OpeningFetchNotModified ==
    ASSUME CoreInv, OpeningInv, NEW p \in Poller, FetchNotModified(p), NEW c \in Collector
    PROVE  OpeningOf(c)' /\ \A k \in Key : BaselineAt(c, k)'
<1>1. /\ job[p].c \in Collector /\ cache[job[p].c] # None
      /\ runs' = [runs EXCEPT ![job[p].c].running = runs[job[p].c].running - 1,
                              ![job[p].c]["success"] = runs[job[p].c]["success"] + 1]
      /\ runs \in [Collector -> [running: Nat, success: Nat, error: Nat]]
      /\ opening \in [Collector -> (SUBSET Key) \cup {None}]
      /\ UNCHANGED <<log, cache, opening>>
      /\ events \in [Collector -> [Key -> Event \cup {None}]]
      /\ events' = [events EXCEPT ![job[p].c] = [k \in Key |-> Touched(events[job[p].c][k])]]
    BY DEF FetchNotModified, TouchAll, Ended, CoreInv, TypeOK
<1>2. OpeningOf(c) /\ \A k \in Key : BaselineAt(c, k)
    BY DEF OpeningInv
<1>3. CASE c # job[p].c
    BY <1>1, <1>3, OpeningSame
<1>4. CASE c = job[p].c
    <2>1. \A k \in Key : events'[c][k] = Touched(events[c][k])
        BY <1>1, <1>4
    <2>2. \A k \in Key : events'[c][k] = None <=> events[c][k] = None
        <3> SUFFICES ASSUME NEW k \in Key
                     PROVE  events'[c][k] = None <=> events[c][k] = None
            OBVIOUS
        <3>1. events[c][k] \in Event \cup {None}
            BY <1>1
        <3> QED
            BY <2>1, <3>1, MissedEvent, MissedNone, IngestAssumption
    <2>3. runs'[c].success = runs[c].success + 1 /\ runs[c].success \in Nat
        BY <1>1, <1>4
    <2>4. opening'[c] # None /\ opening'[c] \subseteq Key
        BY <1>1, <1>2, <1>4 DEF OpeningOf
    <2>5. \A k \in opening'[c] : events'[c][k] # None
        BY <1>1, <1>2, <2>2, <2>4 DEF OpeningOf
    <2>6. \A k \in Key : events'[c][k] = None <=> log'[c][k] = << >>
        BY <1>1, <1>2, <2>2 DEF OpeningOf
    <2>7. OpeningOf(c)'
        BY <2>3, <2>4, <2>5, <2>6 DEF OpeningOf
    <2> QED
        BY <1>1, <1>2, <2>7 DEF BaselineAt
<1> QED
    BY <1>3, <1>4

LEMMA OpeningStep ==
    ASSUME CoreInv, ContextFresh, OpeningInv, [Next]_vars
    PROVE  OpeningInv'
<1> SUFFICES ASSUME NEW c \in Collector
             PROVE  OpeningOf(c)' /\ \A k \in Key : BaselineAt(c, k)'
    BY DEF OpeningInv
<1>1. ASSUME UNCHANGED <<events, log, cache, opening>>, runs'[c].success = runs[c].success
      PROVE  OpeningOf(c)' /\ \A k \in Key : BaselineAt(c, k)'
    BY <1>1, OpeningSame
<1>2. runs[c] \in [running: Nat, success: Nat, error: Nat] /\ TypeOK
    BY DEF CoreInv, TypeOK
<1>3. ASSUME NEW p \in Poller, BeginCollector(p)
      PROVE  OpeningOf(c)' /\ \A k \in Key : BaselineAt(c, k)'
    <2>1. runs'[c].success = runs[c].success
        BY <1>2, <1>3 DEF BeginCollector, TypeOK
    <2> QED
        BY <1>1, <1>3, <2>1 DEF BeginCollector, ghostVars
<1>4. ASSUME NEW p \in Poller, FetchError(p)
      PROVE  OpeningOf(c)' /\ \A k \in Key : BaselineAt(c, k)'
    <2>1. runs'[c].success = runs[c].success
        BY <1>2, <1>4 DEF FetchError, Ended, TypeOK
    <2> QED
        BY <1>1, <1>4, <2>1 DEF FetchError, ghostVars
<1>5. ASSUME NEW p \in Poller, RunPoll(p) \/ FinishPoll(p) \/ Escape(p)
      PROVE  OpeningOf(c)' /\ \A k \in Key : BaselineAt(c, k)'
    BY <1>1, <1>5 DEF RunPoll, FinishPoll, Escape, dbVars, ghostVars
<1>6. ASSUME Crash \/ Tick \/ UNCHANGED vars
      PROVE  OpeningOf(c)' /\ \A k \in Key : BaselineAt(c, k)'
    BY <1>1, <1>6 DEF Crash, Tick, vars, dbVars, ghostVars
<1> QED
    BY <1>3, <1>4, <1>5, <1>6, OpeningFetchOk, OpeningFetchNotModified DEF Next, Step

\* Exactly the events of the first batch read from a source get a `baseline' row,
\* whichever polls failed, crashed, overlapped or were answered 304 before: it
\* rests on the lock (the run's first_run is still true when it stores) and on a
\* validator being stored only with a batch (core/ingest.py:40, 216).
THEOREM BaselinesAreTheOpening == Spec => []BaselineIsOpening
<1>1. Init => CoreInv /\ ContextFresh /\ OpeningInv
    BY CoreInit DEF Init, ContextFresh, OpeningInv, OpeningOf, BaselineAt
<1>2. CoreInv /\ ContextFresh /\ OpeningInv /\ [Next]_vars
        => (CoreInv /\ ContextFresh /\ OpeningInv)'
    BY CoreStep, ContextStep, OpeningStep
<1>3. OpeningInv => BaselineIsOpening
    BY DEF OpeningInv, BaselineAt, BaselineIsOpening
<1> QED
    BY <1>1, <1>2, <1>3, PTL DEF Spec

-----------------------------------------------------------------------------
(* Refinement: polling implements SerialPolls.                             *)

Polled == {c \in Collector : runs[c].success > 0}

\* A run that fails, and a run that begins, leaves the polled collectors as
\* they are; a run that succeeds adds its own.
LEMMA EndedPolled ==
    ASSUME CoreInv, NEW p \in Poller, job[p] # None,
           NEW status \in {"success", "error"}, Ended(p, status)
    PROVE  Polled' = IF status = "success" THEN Polled \cup {job[p].c} ELSE Polled
<1> DEFINE c == job[p].c
<1>1. c \in Collector /\ runs \in [Collector -> [running: Nat, success: Nat, error: Nat]]
    BY DEF CoreInv, TypeOK
<1>2. runs' = [runs EXCEPT ![c].running = runs[c].running - 1,
                           ![c][status] = runs[c][status] + 1]
    BY DEF Ended
<1> HIDE DEF c
<1>3. \A d \in Collector : runs[d].success \in Nat
    BY <1>1
<1>4. \A d \in Collector : d # c => runs'[d].success = runs[d].success
    BY <1>1, <1>2
<1>5. runs'[c].success = IF status = "success" THEN runs[c].success + 1 ELSE runs[c].success
    BY <1>1, <1>2
<1> QED
    BY <1>1, <1>3, <1>4, <1>5 DEF Polled, c

LEMMA BeginPolled ==
    ASSUME CoreInv, NEW p \in Poller, BeginCollector(p)
    PROVE  Polled' = Polled
<1>1. runs \in [Collector -> [running: Nat, success: Nat, error: Nat]]
    BY DEF CoreInv, TypeOK
<1>2. PICK c \in Collector : runs' = [runs EXCEPT ![c].running = runs[c].running + 1]
    BY DEF BeginCollector, CoreInv, TypeOK
<1>3. \A d \in Collector : runs'[d].success = runs[d].success
    BY <1>1, <1>2
<1> QED
    BY <1>3 DEF Polled

\* The instance's operators are Upsert's own.
LEMMA SerialStores ==
    ASSUME NEW c, NEW batch, NEW first, NEW conditional
    PROVE  Serial!StoreBatch(c, batch, first, conditional)
            = StoreBatch(c, batch, first, conditional)
BY DEF Serial!StoreBatch, Serial!Listed, Serial!ListedRows, Serial!Missed, Serial!MissedRows,
       Serial!Index, Serial!Resolve, Serial!Stored, Serial!Or, Serial!ContentHash,
       Serial!Compared, Serial!FieldChanges, Serial!Pair, Serial!NoChange, Serial!Blank,
       Serial!IsTransition, Serial!Counts, Serial!Goes, Serial!Past,
       StoreBatch, Listed, ListedRows, Missed, MissedRows, Index, Resolve, Stored, Or,
       ContentHash, Compared, FieldChanges, Pair, NoChange, Blank, IsTransition, Counts, Goes,
       Past

LEMMA SerialTouches ==
    ASSUME NEW c
    PROVE  Serial!TouchAll(c) = TouchAll(c)
BY DEF Serial!TouchAll, Serial!Touched, TouchAll, Touched

LEMMA SerialReads ==
    ASSUME NEW c
    PROVE  /\ Serial!Batches(c) = Batches(c)
           /\ Serial!ReadsConditionally(c) = (c \in Conditional /\ RefreshKeys(c) = {})
BY DEF Serial!Batches, Batches, Serial!ReadsConditionally, Serial!RefreshKeys, RefreshKeys

\* A batch that is stored is stored as SerialPolls stores it, since the run's
\* context is what SerialPolls reads at that moment.
LEMMA SerialPoll ==
    ASSUME CoreInv, ContextFresh, NEW p \in Poller, FetchOk(p),
           NEW c \in Collector, c = job[p].c
    PROVE  Serial!Poll(c)
<1>1. job[p] # None /\ Ended(p, "success") /\ now' = now
    BY DEF FetchOk
<1>2. Polled' = Polled \cup {c}
    BY <1>1, EndedPolled
<1>3. job[p].first = (c \notin Polled)
    <2>1. /\ job[p].first \in BOOLEAN
          /\ runs[c].success \in Nat
          /\ job[p].first <=> runs[c].success = 0
        BY <1>1 DEF CoreInv, TypeOK, ContextFresh
    <2>2. job[p].first <=> c \notin Polled
        BY <1>1, <2>1 DEF Polled
    <2> QED
        BY <2>1, <2>2, Zenon
<1>4. job[p].conditional = (c \in Conditional /\ RefreshKeys(c) = {})
    <2>1. /\ job[p].conditional \in BOOLEAN
          /\ job[p].conditional <=> (c \in Conditional /\ RefreshKeys(c) = {})
        BY <1>1 DEF CoreInv, TypeOK, ContextFresh
    <2> QED
        BY <2>1, Zenon
<1>5. \E batch \in Batches(c) :
          StoreBatch(c, batch, job[p].first, job[p].conditional)
    BY DEF FetchOk
<1> QED
    BY <1>1, <1>2, <1>3, <1>4, <1>5, SerialStores, SerialReads DEF Serial!Poll, Polled

LEMMA SerialNotModified ==
    ASSUME CoreInv, ContextFresh, NEW p \in Poller, FetchNotModified(p),
           NEW c \in Collector, c = job[p].c
    PROVE  Serial!NotModified(c)
<1>1. job[p] # None /\ Ended(p, "success")
    BY DEF FetchNotModified
<1>2. Polled' = Polled \cup {c}
    BY <1>1, EndedPolled
<1>3. c \in Conditional /\ RefreshKeys(c) = {}
    BY <1>1 DEF FetchNotModified, ContextFresh
<1>4. /\ cache[c] # None
      /\ TouchAll(c)
      /\ UNCHANGED <<log, cache, now>>
    BY DEF FetchNotModified
<1> QED
    BY <1>2, <1>3, <1>4, SerialTouches, SerialReads DEF Serial!NotModified, Polled

\* Every step of polling is a step of SerialPolls or none.
LEMMA SerialStep ==
    ASSUME CoreInv, ContextFresh, [Next]_vars
    PROVE  [Serial!Next]_(Serial!serialVars)
<1>1. ASSUME NEW p \in Poller, FetchOk(p)
      PROVE  Serial!Next
    <2>1. PICK c \in Collector : c = job[p].c
        BY <1>1 DEF FetchOk, CoreInv, TypeOK
    <2>2. Serial!Poll(c)
        BY <1>1, <2>1, SerialPoll
    <2> QED
        BY <2>2 DEF Serial!Next
<1>2. ASSUME NEW p \in Poller, FetchNotModified(p)
      PROVE  Serial!Next
    <2>1. PICK c \in Collector : c = job[p].c
        BY <1>2 DEF FetchNotModified, CoreInv, TypeOK
    <2>2. Serial!NotModified(c)
        BY <1>2, <2>1, SerialNotModified
    <2> QED
        BY <2>2 DEF Serial!Next
<1>3. ASSUME NEW p \in Poller, FetchError(p)
      PROVE  UNCHANGED Serial!serialVars
    BY <1>3, EndedPolled DEF FetchError, Serial!serialVars, Polled
<1>4. ASSUME NEW p \in Poller, BeginCollector(p)
      PROVE  UNCHANGED Serial!serialVars
    BY <1>4, BeginPolled DEF BeginCollector, Serial!serialVars, Polled
<1>5. ASSUME NEW p \in Poller, RunPoll(p) \/ FinishPoll(p) \/ Escape(p)
      PROVE  UNCHANGED Serial!serialVars
    BY <1>5 DEF RunPoll, FinishPoll, Escape, dbVars, Serial!serialVars
<1>6. ASSUME Crash \/ UNCHANGED vars
      PROVE  UNCHANGED Serial!serialVars
    BY <1>6 DEF Crash, vars, dbVars, Serial!serialVars
<1>7. ASSUME Tick
      PROVE  Serial!Next
    BY <1>7 DEF Tick, dbVars, Serial!Next, Serial!Tick
<1> QED
    BY <1>1, <1>2, <1>3, <1>4, <1>5, <1>6, <1>7 DEF Next, Step

\* Whatever the pollers interleave, whatever fails, waits for the lock or crashes,
\* the tables change only as if each successful poll were one step that read its
\* context when it stored its batch (core/ingest.py:200-249, scheduler.py:26).
THEOREM PollingIsSerial == Spec => PollsAreSerial
<1>1. Init => CoreInv /\ ContextFresh
    BY CoreInit DEF Init, ContextFresh
<1>2. Init => Serial!Init
    BY DEF Init, Serial!Init
<1>3. CoreInv /\ ContextFresh /\ [Next]_vars => (CoreInv /\ ContextFresh)'
    BY CoreStep, ContextStep
<1>4. CoreInv /\ ContextFresh /\ [Next]_vars => [Serial!Next]_(Serial!serialVars)
    BY SerialStep
<1> QED
    BY <1>1, <1>2, <1>3, <1>4, PTL DEF Spec, PollsAreSerial, Serial!Spec

-----------------------------------------------------------------------------
(* The change log is a complete history.  The rows of one event are        *)
(* replayed on the content of its first row; a poll appends at most one    *)
(* row, which starts where the replay ends.                                *)

\* The rows among the first n of s that hold field f.
Touching(s, f, n) == {i \in 1..n : s[i].changes[f] # None}

HasLast(s, f, n) ==
    Touching(s, f, n) # {}
    => \E i \in Touching(s, f, n) : \A j \in Touching(s, f, n) : j <= i

\* Field f after the first n rows of s, from the content b.
After(s, b, f, n) ==
    IF Touching(s, f, n) = {} THEN b[f]
    ELSE s[Latest(Touching(s, f, n))].changes[f][2]

\* The rows of s, replayed on b, lead to e and never contradict the replay.
Replays(s, b, e) ==
    \A f \in DiffField :
        /\ \A n \in 0..Len(s) : HasLast(s, f, n)
        /\ e[f] = After(s, b, f, Len(s))
        /\ \A i \in DOMAIN s :
              s[i].changes[f] # None => s[i].changes[f][1] = After(s, b, f, i - 1)

\* A replay reads only the rows it replays.
LEMMA AfterPrefix ==
    ASSUME NEW s, NEW t, NEW b, NEW f, NEW n \in Nat, HasLast(s, f, n),
           \A i \in 1..n : t[i] = s[i]
    PROVE  HasLast(t, f, n) /\ After(t, b, f, n) = After(s, b, f, n)
<1>1. Touching(t, f, n) = Touching(s, f, n)
    <2>1. \A i \in 1..n : t[i].changes[f] = s[i].changes[f]
        OBVIOUS
    <2> QED
        BY <2>1, Zenon DEF Touching
<1>2. HasLast(t, f, n)
    BY <1>1 DEF HasLast
<1>3. CASE Touching(s, f, n) = {}
    BY <1>1, <1>2, <1>3 DEF After
<1>4. CASE Touching(s, f, n) # {}
    <2> DEFINE last == Latest(Touching(s, f, n))
    <2>1. last \in Touching(s, f, n)
        <3>1. \E i \in Touching(s, f, n) : \A j \in Touching(s, f, n) : j <= i
            BY <1>4 DEF HasLast
        <3> QED
            BY <3>1 DEF Latest
    <2>2. t[last] = s[last]
        BY <2>1 DEF Touching
    <2> QED
        BY <1>1, <1>2, <1>4, <2>2 DEF After
<1> QED
    BY <1>3, <1>4

\* A row that holds the field decides its value.
LEMMA AfterTouch ==
    ASSUME NEW s, NEW b, NEW f, NEW n \in Nat, s[n + 1].changes[f] # None
    PROVE  HasLast(s, f, n + 1) /\ After(s, b, f, n + 1) = s[n + 1].changes[f][2]
<1> DEFINE T == Touching(s, f, n + 1)
<1>1. n + 1 \in T /\ \A j \in T : j \in Nat /\ j <= n + 1
    BY DEF Touching
<1>2. ASSUME NEW i \in T, \A j \in T : j <= i
      PROVE  i = n + 1
    <2>1. i \in Nat /\ i <= n + 1 /\ n + 1 <= i
        BY <1>1, <1>2
    <2> QED
        BY <2>1
<1> HIDE DEF T
<1>3. Latest(T) = n + 1
    BY <1>1, <1>2 DEF Latest
<1> QED
    BY <1>1, <1>3 DEF After, HasLast, T

\* A row without the field leaves its value.
LEMMA AfterSkip ==
    ASSUME NEW s, NEW b, NEW f, NEW n \in Nat, s[n + 1].changes[f] = None, HasLast(s, f, n)
    PROVE  HasLast(s, f, n + 1) /\ After(s, b, f, n + 1) = After(s, b, f, n)
<1>1. Touching(s, f, n + 1) = Touching(s, f, n)
    <2>1. \A i : i \in 1..(n + 1) <=> (i \in 1..n \/ i = n + 1)
        OBVIOUS
    <2> QED
        BY <2>1, Zenon DEF Touching
<1> QED
    BY <1>1 DEF HasLast, After

\* One more row, which takes each of its fields from d to e, leads from d to e.
LEMMA ReplayRow ==
    ASSUME NEW s \in Seq(Row), NEW row \in Row, NEW b, NEW d, NEW e,
           Replays(s, b, d),
           \A f \in DiffField : IF row.changes[f] = None THEN e[f] = d[f]
                                ELSE row.changes[f][1] = d[f] /\ row.changes[f][2] = e[f]
    PROVE  Replays(s \o <<row>>, b, e)
<1> DEFINE t == s \o <<row>>
           m == Len(s)
<1>1. /\ m \in Nat /\ Len(t) = m + 1 /\ t[m + 1] = row
      /\ \A i \in 1..m : t[i] = s[i]
      /\ DOMAIN t = 1..(m + 1) /\ DOMAIN s = 1..m
    <2>1. <<row>> \in Seq(Row) /\ Len(<<row>>) = 1 /\ <<row>>[1] = row
        OBVIOUS
    <2>2. /\ t \in Seq(Row) /\ Len(t) = Len(s) + 1
          /\ \A i \in 1..(Len(s) + 1) : t[i] = IF i <= Len(s) THEN s[i] ELSE <<row>>[i - Len(s)]
        BY <2>1, ConcatProperties
    <2>3. Len(s) \in Nat /\ DOMAIN s = 1..Len(s) /\ DOMAIN t = 1..Len(t)
        BY <2>2, LenProperties
    <2> HIDE DEF t
    <2> QED
        BY <2>1, <2>2, <2>3
<1> HIDE DEF t, m
<1>2. SUFFICES ASSUME NEW f \in DiffField
               PROVE  /\ \A n \in 0..(m + 1) : HasLast(t, f, n)
                      /\ e[f] = After(t, b, f, m + 1)
                      /\ \A i \in 1..(m + 1) :
                            t[i].changes[f] # None => t[i].changes[f][1] = After(t, b, f, i - 1)
    BY <1>1 DEF Replays, t
<1>3. /\ \A n \in 0..m : HasLast(s, f, n)
      /\ d[f] = After(s, b, f, m)
      /\ \A i \in 1..m : s[i].changes[f] # None => s[i].changes[f][1] = After(s, b, f, i - 1)
    BY <1>1 DEF Replays, m
<1>4. ASSUME NEW n \in 0..m
      PROVE  HasLast(t, f, n) /\ After(t, b, f, n) = After(s, b, f, n)
    <2>1. n \in Nat /\ \A i \in 1..n : t[i] = s[i]
        BY <1>1
    <2> QED
        BY <1>3, <2>1, AfterPrefix
<1>5. HasLast(t, f, m) /\ After(t, b, f, m) = d[f]
    BY <1>1, <1>3, <1>4
<1>6. HasLast(t, f, m + 1) /\ e[f] = After(t, b, f, m + 1)
    <2>1. CASE row.changes[f] = None
        BY <1>1, <1>5, <2>1, AfterSkip
    <2>2. CASE row.changes[f] # None
        <3>1. t[m + 1].changes[f] # None /\ t[m + 1].changes[f][2] = e[f]
            BY <1>1, <2>2
        <3>2. m \in Nat
            BY <1>1
        <3>3. HasLast(t, f, m + 1) /\ After(t, b, f, m + 1) = t[m + 1].changes[f][2]
            BY <3>1, <3>2, AfterTouch
        <3> QED
            BY <3>1, <3>3
    <2> QED
        BY <2>1, <2>2
<1>7. ASSUME NEW n \in 0..(m + 1)
      PROVE  HasLast(t, f, n)
    <2>1. n \in 0..m \/ n = m + 1
        BY <1>1
    <2> QED
        BY <1>4, <1>6, <2>1
<1>8. ASSUME NEW i \in 1..(m + 1), t[i].changes[f] # None
      PROVE  t[i].changes[f][1] = After(t, b, f, i - 1)
    <2>1. CASE i \in 1..m
        <3>1. i - 1 \in 0..m
            BY <1>1, <2>1
        <3>2. t[i] = s[i] /\ s[i].changes[f] # None
            BY <1>1, <1>8, <2>1
        <3> QED
            BY <1>3, <1>4, <2>1, <3>1, <3>2
    <2>2. CASE i = m + 1
        <3>1. i - 1 = m /\ t[i] = row
            BY <1>1, <2>2
        <3> QED
            BY <1>5, <1>8, <3>1
    <2> QED
        BY <1>1, <2>1, <2>2
<1> QED
    BY <1>6, <1>7, <1>8

\* The first row of an event holds no field.
LEMMA ReplayFirst ==
    ASSUME NEW row, \A f \in DiffField : row.changes[f] = None, NEW e
    PROVE  Replays(<<row>>, e, e)
<1> DEFINE s == <<row>>
<1>1. Len(s) = 1 /\ DOMAIN s = 1..1 /\ s[1] = row
    OBVIOUS
<1> HIDE DEF s
<1>2. SUFFICES ASSUME NEW f \in DiffField
               PROVE  /\ \A n \in 0..1 : HasLast(s, f, n)
                      /\ e[f] = After(s, e, f, 1)
                      /\ \A i \in 1..1 :
                            s[i].changes[f] # None => s[i].changes[f][1] = After(s, e, f, i - 1)
    BY <1>1 DEF Replays, s
<1>3. \A n \in 0..1 : Touching(s, f, n) = {}
    BY <1>1 DEF Touching
<1>4. s[1].changes[f] = None
    BY <1>1
<1> QED
    BY <1>3, <1>4 DEF HasLast, After

\* A pair tells None from a change, whatever the two values are.
LEMMA PairSays ==
    ASSUME NEW f \in DiffField, NEW x \in Digest, NEW y \in Digest
    PROVE  IF Pair(x[f], y[f]) = None THEN y[f] = x[f]
           ELSE Pair(x[f], y[f])[1] = x[f] /\ Pair(x[f], y[f])[2] = y[f]
<1> DEFINE Value == NormTitle \cup Time \cup Status \cup Url \cup Tour \cup {None}
<1>1. x[f] \in Value /\ y[f] \in Value
    BY DEF Digest, DiffField
<1>2. None \notin Value \X Value
    BY DiffAssumption DEF NormTitle
<1>3. <<x[f], y[f]>> # None
    BY <1>1, <1>2
<1> QED
    BY <1>3 DEF Pair

\* What field_changes reports of a field is its old and its new value.
LEMMA FieldChangesSay ==
    ASSUME NEW d \in Content, NEW e \in Content, NEW f \in DiffField
    PROVE  LET ch == FieldChanges(d, e)
           IN IF ch[f] = None THEN Compared(e)[f] = Compared(d)[f]
              ELSE ch[f][1] = Compared(d)[f] /\ ch[f][2] = Compared(e)[f]
<1>1. Compared(d) \in Digest /\ Compared(e) \in Digest
    BY ComparedType
<1>2. FieldChanges(d, e)[f] = Pair(Compared(d)[f], Compared(e)[f])
    BY DEF FieldChanges, DiffField
<1> QED
    BY <1>1, <1>2, PairSays

LEMMA NoChangeSays == \A f \in DiffField : NoChange[f] = None
BY DEF NoChange, DiffField

LEMMA ImageNotCompared ==
    ASSUME NEW d \in Content, NEW image
    PROVE  Compared([d EXCEPT !.image_url = image]) = Compared(d)
BY DEF Compared, Content

\* What is stored compares like what was resolved.
LEMMA ListedCompares ==
    ASSUME NEW ev \in Event, NEW raw \in RawEvent, NEW f \in DiffField
    PROVE  Compared(Listed(ev, raw).data)[f] = Compared(Resolve(raw, Stored(ev)))[f]
<1> DEFINE res == Resolve(raw, Stored(ev))
           fresh == [data |-> res, hash |-> ContentHash(res), status |-> "active", missing |-> 0]
           kept == [ev EXCEPT !.data.image_url = res.image_url, !.status = "active", !.missing = 0]
<1>1. res \in Content /\ ev.data \in Content
    BY ResolveType DEF Event
<1>2. Listed(ev, raw) = fresh \/ (Listed(ev, raw) = kept /\ FieldChanges(ev.data, res) = NoChange)
    BY DEF Listed
<1>3. CASE Listed(ev, raw) = fresh
    BY <1>3
<1>4. CASE Listed(ev, raw) = kept /\ FieldChanges(ev.data, res) = NoChange
    <2>1. kept.data = [ev.data EXCEPT !.image_url = res.image_url]
        BY DEF Event
    <2>2. Compared(kept.data) = Compared(ev.data)
        BY <1>1, <2>1, ImageNotCompared
    <2>3. Compared(res)[f] = Compared(ev.data)[f]
        <3>1. NoChange[f] = None
            BY NoChangeSays
        <3>2. FieldChanges(ev.data, res) = NoChange
            BY <1>4
        <3> HIDE DEF res
        <3> QED
            BY <1>1, <3>1, <3>2, FieldChangesSay
    <2> QED
        BY <1>4, <2>2, <2>3
<1> QED
    BY <1>2, <1>3, <1>4

LEMMA ReplaySame ==
    ASSUME NEW s, NEW b, NEW d, NEW e, Replays(s, b, d), \A f \in DiffField : e[f] = d[f]
    PROVE  Replays(s, b, e)
BY DEF Replays

\* The rows of a listing lead from what was stored to what is stored.
LEMMA ListedReplays ==
    ASSUME NEW ev \in Event, NEW raw \in RawEvent, NEW first,
           NEW s \in Seq(Row), NEW b, Replays(s, b, Compared(ev.data))
    PROVE  Replays(s \o ListedRows(ev, raw, first), b, Compared(Listed(ev, raw).data))
<1> DEFINE res == Resolve(raw, Stored(ev))
           ch == FieldChanges(ev.data, res)
           old == Compared(ev.data)
           new == Compared(Listed(ev, raw).data)
<1>1. res \in Content /\ ev.data \in Content /\ ev # None /\ ch \in Changes
    BY ResolveType, FieldChangesType, IngestAssumption DEF Event
<1>2. \A f \in DiffField : IF ch[f] = None THEN new[f] = old[f]
                           ELSE ch[f][1] = old[f] /\ ch[f][2] = new[f]
    BY <1>1, FieldChangesSay, ListedCompares
<1>3. \/ \E t \in ChangeType : ListedRows(ev, raw, first) = <<[type |-> t, changes |-> ch]>>
      \/ ch = NoChange /\ ListedRows(ev, raw, first) = <<[type |-> "added", changes |-> NoChange]>>
      \/ ch = NoChange /\ ListedRows(ev, raw, first) = << >>
    BY <1>1 DEF ListedRows, ChangeType
<1>4. ch = NoChange => \A f \in DiffField : new[f] = old[f]
    BY <1>2, NoChangeSays
<1> HIDE DEF ch, old, new, res
<1>5. ASSUME NEW t \in ChangeType
      PROVE  Replays(s \o <<[type |-> t, changes |-> ch]>>, b, new)
    <2>1. [type |-> t, changes |-> ch] \in Row
        BY <1>1 DEF Row
    <2> QED
        BY <1>2, <2>1, ReplayRow DEF old
<1>6. CASE ch = NoChange /\ ListedRows(ev, raw, first) = << >>
    <2>1. s \o << >> = s
        OBVIOUS
    <2>2. Replays(s, b, new)
        BY <1>4, <1>6, ReplaySame DEF old
    <2> QED
        BY <1>6, <2>1, <2>2 DEF new
<1> QED
    BY <1>3, <1>5, <1>6 DEF new, ChangeType

\* A removal is no change of a field.
LEMMA MissedReplays ==
    ASSUME NEW ev, NEW s \in Seq(Row), NEW b, NEW e, Replays(s, b, e)
    PROVE  Replays(s \o MissedRows(ev), b, e)
<1>1. [type |-> "removed", changes |-> NoChange] \in Row
    BY NoChangeType DEF Row, ChangeType
<1>2. Replays(s \o <<[type |-> "removed", changes |-> NoChange]>>, b, e)
    BY <1>1, NoChangeSays, ReplayRow
<1>3. s \o << >> = s
    OBVIOUS
<1> QED
    BY <1>2, <1>3 DEF MissedRows

\* What the invariant says of one event.
ReplayOf(c, k) ==
    /\ events[c][k] = None => log[c][k] = << >>
    /\ events[c][k] # None => Replays(log[c][k], born[c][k], Compared(events[c][k].data))

LEMMA ReplayStep ==
    ASSUME CoreInv, [Next]_vars, NEW c \in Collector, NEW k \in Key, ReplayOf(c, k)
    PROVE  ReplayOf(c, k)'
<1> DEFINE ev == events[c][k]
<1>1. ev \in Event \cup {None} /\ log[c][k] \in Seq(Row)
    BY DEF CoreInv, TypeOK
<1>2. SUFFICES /\ events'[c][k] = None => log'[c][k] = << >>
               /\ events'[c][k] # None
                  => Replays(log'[c][k], born'[c][k], Compared(events'[c][k].data))
    BY DEF ReplayOf, Replays, HasLast, After, Touching, Latest, Compared
<1>3. /\ ev = None => log[c][k] = << >>
      /\ ev # None => Replays(log[c][k], born[c][k], Compared(ev.data))
    BY DEF ReplayOf
<1>4. ASSUME NEW raw \in RawEvent, NEW first \in BOOLEAN, ListedBy(c, k, raw, first)
      PROVE  /\ events'[c][k] # None
             /\ Replays(log'[c][k], born'[c][k], Compared(events'[c][k].data))
    <2>1. events'[c][k] = Listed(ev, raw) /\ Listed(ev, raw) # None
        BY <1>1, <1>4, ListedType, IngestAssumption DEF ListedBy
    <2>2. log'[c][k] = log[c][k] \o ListedRows(ev, raw, first)
        BY <1>4 DEF ListedBy
    <2>3. CASE ev = None
        <3> DEFINE row == [type |-> IF first THEN "baseline" ELSE "added", changes |-> NoChange]
        <3>1. Listed(ev, raw).data = Resolve(raw, Blank)
            BY <2>3 DEF Listed, Stored
        <3>2. born'[c][k] = Compared(Resolve(raw, Blank))
            BY <1>4, <2>3 DEF ListedBy
        <3>3. ListedRows(ev, raw, first) = <<row>> /\ \A f \in DiffField : row.changes[f] = None
            BY <1>1, <2>3, ListedRowsKinds, NoChangeSays
        <3> HIDE DEF row
        <3>4. log'[c][k] = <<row>>
            <4>1. log'[c][k] = << >> \o <<row>>
                BY <1>3, <2>2, <2>3, <3>3
            <4>2. << >> \o <<row>> = <<row>>
                OBVIOUS
            <4> QED
                BY <4>1, <4>2
        <3> QED
            BY <2>1, <3>1, <3>2, <3>3, <3>4, ReplayFirst
    <2>4. CASE ev # None
        <3>1. born'[c][k] = born[c][k]
            BY <1>4, <2>4 DEF ListedBy
        <3> QED
            BY <1>1, <1>3, <2>1, <2>2, <2>4, <3>1, ListedReplays
    <2> QED
        BY <2>3, <2>4
<1>5. CASE ev # None /\ (MissedNow(c, k) \/ TouchedNow(c, k) \/ LeftAlone(c, k))
    <2>1. /\ born'[c][k] = born[c][k]
          /\ log'[c][k] \in {log[c][k], log[c][k] \o MissedRows(ev)}
          /\ events'[c][k] \in {Missed(ev), Touched(ev), ev}
        BY <1>5 DEF MissedNow, TouchedNow, LeftAlone
    <2>2. events'[c][k] # None /\ events'[c][k].data = ev.data
        BY <1>1, <1>5, <2>1, MissedEvent, MissedKeepsContent, IngestAssumption
    <2> QED
        BY <1>1, <1>3, <1>5, <2>1, <2>2, MissedReplays
<1>6. CASE ev = None /\ (MissedNow(c, k) \/ TouchedNow(c, k) \/ LeftAlone(c, k))
    <2>1. MissedRows(ev) = << >>
        BY <1>6 DEF MissedRows, Goes, Counts
    <2>2. log'[c][k] = << >>
        BY <1>3, <1>6, <2>1 DEF MissedNow, TouchedNow, LeftAlone
    <2>3. events'[c][k] = None
        BY <1>6, MissedNone DEF MissedNow, TouchedNow, LeftAlone
    <2> QED
        BY <2>2, <2>3
<1> QED
    BY <1>4, <1>5, <1>6, EventFate

\* Each row of the change log starts where the rows before it end, and the whole log
\* ends at what the events table stores, after any sequence of polls: what is
\* stored never changes without its row, and no row reports a change that the
\* stored event did not make (core/ingest.py:91-168, core/diff.py:66-92).
THEOREM LogIsAHistory == Spec => []LogReplays
<1> DEFINE Inv == \A c \in Collector, k \in Key : ReplayOf(c, k)
<1>1. Init => CoreInv /\ Inv
    BY CoreInit DEF Init, ReplayOf
<1>2. CoreInv /\ Inv /\ [Next]_vars => (CoreInv /\ Inv)'
    BY CoreStep, ReplayStep
<1>3. CoreInv /\ Inv => LogReplays
    <2> SUFFICES ASSUME CoreInv, Inv, NEW c \in Collector, NEW k \in Key, events[c][k] # None
                 PROVE  /\ \A f \in DiffField : Compared(events[c][k].data)[f]
                                                = ValueAfter(c, k, f, Len(log[c][k]))
                        /\ \A i \in DOMAIN log[c][k], f \in DiffField :
                              log[c][k][i].changes[f] # None
                              => log[c][k][i].changes[f][1] = ValueAfter(c, k, f, i - 1)
        BY DEF LogReplays
    <2>1. \A f, n : ValueAfter(c, k, f, n) = After(log[c][k], born[c][k], f, n)
        BY DEF ValueAfter, After, Touching
    <2>2. Replays(log[c][k], born[c][k], Compared(events[c][k].data))
        BY DEF ReplayOf
    <2> QED
        BY <2>1, <2>2 DEF Replays
<1> QED
    BY <1>1, <1>2, <1>3, PTL DEF Spec

-----------------------------------------------------------------------------
(* Absence is removal.                                                     *)

\* The clock does not go back, and so what is over stays over.
LEMMA PastStays ==
    ASSUME CoreInv, [Next]_vars, NEW d \in Content, Past(d)
    PROVE  Or(d.ends_at, d.starts_at) # None /\ Or(d.ends_at, d.starts_at) < now'
<1>1. now \in Nat /\ now' \in Nat /\ now <= now'
    <2>1. now \in Nat
        BY DEF CoreInv, TypeOK, Time
    <2>2. now' = now \/ now' = now + 1
        BY DEF Next, Step, RunPoll, BeginCollector, FetchOk, FetchNotModified, FetchError,
               FinishPoll, Escape, Crash, Tick, vars
    <2> QED
        BY <2>1, <2>2
<1>2. Or(d.ends_at, d.starts_at) \in Nat \cup {None}
    BY DEF Content, Or, Time
<1> QED
    BY <1>1, <1>2 DEF Past

\* Only a conditional collector is answered 304.
LEMMA UnconditionalFate ==
    ASSUME CoreInv, ContextFresh, [Next]_vars, NEW c \in Collector \ Conditional, NEW k \in Key
    PROVE  \/ \E raw \in RawEvent, first \in BOOLEAN : ListedBy(c, k, raw, first)
           \/ MissedNow(c, k)
           \/ LeftAlone(c, k)
<1>1. ASSUME NEW p \in Poller, FetchNotModified(p)
      PROVE  LeftAlone(c, k)
    <2>1. job[p].c \in Conditional
        BY <1>1 DEF FetchNotModified, ContextFresh
    <2>2. /\ events' = [events EXCEPT ![job[p].c] = [x \in Key |-> Touched(events[job[p].c][x])]]
          /\ Observed(job[p].c, DOMAIN cache[job[p].c])
          /\ log' = log /\ born' = born
        BY <1>1 DEF FetchNotModified, TouchAll
    <2>3. /\ events \in [Collector -> [Key -> Event \cup {None}]]
          /\ streak \in [Collector -> [Key -> Nat]]
        BY DEF CoreInv, TypeOK
    <2> QED
        BY <2>1, <2>2, <2>3 DEF LeftAlone, Observed
<1>2. ASSUME NEW p \in Poller, FetchOk(p)
      PROVE  \/ \E raw \in RawEvent, first \in BOOLEAN : ListedBy(c, k, raw, first)
             \/ MissedNow(c, k)
             \/ LeftAlone(c, k)
    BY <1>2, FetchOkFate
<1>3. ASSUME NEW p \in Poller,
             RunPoll(p) \/ BeginCollector(p) \/ FetchError(p) \/ FinishPoll(p) \/ Escape(p)
      PROVE  LeftAlone(c, k)
    BY <1>3 DEF RunPoll, BeginCollector, FetchError, FinishPoll, Escape, LeftAlone, dbVars, ghostVars
<1>4. CASE Crash \/ Tick \/ UNCHANGED vars
    BY <1>4 DEF Crash, Tick, vars, LeftAlone, dbVars, ghostVars
<1> QED
    BY <1>1, <1>2, <1>3, <1>4 DEF Next, Step

\* No missed poll is forgotten while the event's date is not over.
MissesCount ==
    \A c \in Collector \ Conditional, k \in Key :
        events[c][k] # None /\ events[c][k].status = "active" /\ ~Past(events[c][k].data)
        => /\ streak[c][k] <= events[c][k].missing
           /\ events[c][k].missing < Threshold \/ events[c][k].missing = 0

LEMMA MissesStep ==
    ASSUME CoreInv, ContextFresh, MissesCount, [Next]_vars
    PROVE  MissesCount'
<1> SUFFICES ASSUME NEW c \in Collector \ Conditional, NEW k \in Key,
                    events'[c][k] # None, events'[c][k].status = "active",
                    ~(/\ Or(events'[c][k].data.ends_at, events'[c][k].data.starts_at) # None
                      /\ Or(events'[c][k].data.ends_at, events'[c][k].data.starts_at) < now')
             PROVE  /\ streak'[c][k] <= events'[c][k].missing
                    /\ events'[c][k].missing < Threshold \/ events'[c][k].missing = 0
    BY DEF MissesCount, Past, Or
<1> DEFINE ev == events[c][k]
<1>1. /\ ev \in Event \cup {None} /\ streak[c][k] \in Nat /\ Threshold \in Nat
      /\ ev # None => /\ ev.missing \in Nat /\ ev.data \in Content
                      /\ ev.status \in {"active", "removed"}
    BY IngestAssumption DEF CoreInv, TypeOK, Event
<1>2. ASSUME NEW raw \in RawEvent, NEW first \in BOOLEAN, ListedBy(c, k, raw, first)
      PROVE  streak'[c][k] = 0 /\ events'[c][k].missing = 0
    BY <1>1, <1>2, ListedCounts DEF ListedBy
<1>3. ASSUME ev # None, events'[c][k].data = ev.data
      PROVE  ~Past(ev.data)
    BY <1>1, <1>3, PastStays
<1>4. CASE MissedNow(c, k)
    <2>1. events'[c][k] = Missed(ev) /\ ev # None /\ ev \in Event
        BY <1>1, <1>4, MissedNone DEF MissedNow
    <2>2. streak'[c][k] = streak[c][k] + 1
        BY <1>4, <2>1 DEF MissedNow
    <2>3. ~Past(ev.data)
        BY <1>3, <2>1, MissedKeepsContent
    <2>4. ev.status = "active"
        BY <2>1, MissedCounts
    <2>5. Counts(ev)
        BY <2>1, <2>3, <2>4 DEF Counts
    <2>6. Missed(ev).missing = ev.missing + 1 /\ ~Goes(ev)
        BY <2>1, <2>5 DEF Missed, Event
    <2>7. ev.missing + 1 < Threshold
        BY <1>1, <2>1, <2>5, <2>6 DEF Goes
    <2>8. streak[c][k] <= ev.missing
        BY <2>1, <2>3, <2>4 DEF MissesCount
    <2> QED
        BY <1>1, <2>1, <2>2, <2>6, <2>7, <2>8
<1>5. CASE LeftAlone(c, k)
    <2>1. events'[c][k] = ev /\ streak'[c][k] = streak[c][k] /\ ev # None
        BY <1>5 DEF LeftAlone
    <2>2. ~Past(ev.data)
        BY <1>3, <2>1
    <2> QED
        BY <2>1, <2>2 DEF MissesCount
<1>6. CASE \E raw \in RawEvent, first \in BOOLEAN : ListedBy(c, k, raw, first)
    BY <1>2, <1>6
<1> QED
    BY <1>4, <1>5, <1>6, UnconditionalFate

\* A source that is always read in full loses no removal: an event that it stopped
\* listing, and whose date is not over, does not outlive the Threshold-th successful
\* poll in a row without it (core/ingest.py:170-188).  It rests on the run's context
\* being fresh: an unconditional collector is never answered 304.
THEOREM AbsenceIsRemoval == Spec => []FullReadsRemove
<1>1. Init => CoreInv /\ ContextFresh /\ MissesCount
    BY CoreInit DEF Init, ContextFresh, MissesCount
<1>2. CoreInv /\ ContextFresh /\ MissesCount /\ [Next]_vars
        => (CoreInv /\ ContextFresh /\ MissesCount)'
    BY CoreStep, ContextStep, MissesStep
<1>3. CoreInv /\ MissesCount => FullReadsRemove
    <2> SUFFICES ASSUME CoreInv, MissesCount, NEW c \in Collector \ Conditional, NEW k \in Key,
                        events[c][k] # None, events[c][k].status = "active",
                        ~Past(events[c][k].data)
                 PROVE  streak[c][k] < Threshold \/ streak[c][k] = 0
        BY DEF FullReadsRemove
    <2>1. streak[c][k] \in Nat /\ events[c][k].missing \in Nat /\ Threshold \in Nat
        BY IngestAssumption DEF CoreInv, TypeOK, Event
    <2>2. /\ streak[c][k] <= events[c][k].missing
          /\ events[c][k].missing < Threshold \/ events[c][k].missing = 0
        BY DEF MissesCount
    <2> QED
        BY <2>1, <2>2
<1> QED
    BY <1>1, <1>2, <1>3, PTL DEF Spec

=============================================================================
