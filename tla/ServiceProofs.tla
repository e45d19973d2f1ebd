--------------------------- MODULE ServiceProofs ----------------------------
(***************************************************************************)
(* The jobs of the scheduler, for any items, any clock, any number of      *)
(* collectors and any number of copies kept: what is announced and pushed  *)
(* of sales, the warnings about failing polls as an Outbox, and the copies *)
(* of the database that are kept.                                          *)
(***************************************************************************)
EXTENDS Service, CommonProofs

-----------------------------------------------------------------------------
(* The inductive invariant: a warning in progress is due, and one that is  *)
(* to be recorded has reached ntfy.                                        *)

Warnings == Collector \X (0..MaxTime \div DayLen)

PollState ==
    [pc : {"idle", "fetch", "report", "check", "warn", "record"}, at : Nat,
     failed : SUBSET Collector, key : Warnings \cup {None}]

WarningInv ==
    /\ clock \in 0..MaxTime
    /\ poll \in PollState
    /\ due \subseteq Warnings
    /\ poll.pc \in {"check", "warn", "record"} => poll.key \in due
    /\ poll.pc = "record" => poll.key \in warned

Hand == [t \in {"poll"} |-> IF poll.pc = "warn" THEN {poll.key} ELSE {}]

LEMMA DayIsInRange ==
    ASSUME clock \in 0..MaxTime
    PROVE  Day \in 0..MaxTime \div DayLen
    BY DivMonotone, SalesAssumption DEF Day

LEMMA WarningInit == Init => WarningInv
    BY SalesAssumption DEF Init, SalesInit, NoPoll, WarningInv, PollState

LEMMA WarningStep == WarningInv /\ [Next]_vars => WarningInv'
<1> SUFFICES ASSUME WarningInv, [Next]_vars
             PROVE  WarningInv'
    OBVIOUS
<1> USE DEF WarningInv, PollState
<1>1. CASE UNCHANGED salesVars
    BY <1>1 DEF salesVars, Warnings
<1>2. CASE SalesNext
    <2> USE SalesAssumption
    <2>1. CASE BeginPoll
        <3>1. poll' = [pc |-> "fetch", at |-> clock, failed |-> {}, key |-> None]
            BY <2>1 DEF BeginPoll, NoPoll
        <3>2. UNCHANGED <<clock, due, warned>>
            BY <2>1 DEF BeginPoll, warnings
        <3>3. clock \in Nat
            OBVIOUS
        <3> QED
            BY <3>1, <3>2, <3>3 DEF Warnings
    <2>2. ASSUME NEW failed \in SUBSET Collector, Fetched(failed)
          PROVE  WarningInv'
        BY <2>2 DEF Fetched, warnings
    <2>3. ASSUME NEW c \in Collector, Report(c)
          PROVE  WarningInv'
        <3>1. <<c, Day>> \in Warnings
            BY DayIsInRange DEF Warnings
        <3> QED
            BY <2>3, <3>1 DEF Report
    <2>4. CASE CheckKey
        BY <2>4 DEF CheckKey, warnings
    <2>5. ASSUME NEW answered \in BOOLEAN, Warn(answered)
          PROVE  WarningInv'
        BY <2>5 DEF Warn
    <2>6. CASE WarnFails
        BY <2>6 DEF WarnFails, warnings
    <2>7. CASE RecordWarning
        BY <2>7 DEF RecordWarning, warnings
    <2>8. CASE RecordFails \/ EndPoll \/ Die
        BY <2>8 DEF RecordFails, EndPoll, Die, NoPoll, warnings
    <2>9. CASE Edit
        BY <2>9 DEF Edit, warnings
    <2>10. CASE Later
        BY <2>10 DEF Later, warnings
    <2> QED
        BY <1>2, <2>1, <2>2, <2>3, <2>4, <2>5, <2>6, <2>7, <2>8, <2>9, <2>10 DEF SalesNext
<1> QED
    BY <1>1, <1>2 DEF Next, vars

-----------------------------------------------------------------------------
(* Every step is a step of Outbox, or none for it.                         *)

LEMMA OpsStep == WarningInv /\ [Next]_vars => [Ops!Next]_(Ops!outboxVars)
<1> SUFFICES ASSUME WarningInv, [Next]_vars
             PROVE  [Ops!Next]_(Ops!outboxVars)
    OBVIOUS
<1> USE DEF Ops!outboxVars, Hand
<1>1. CASE UNCHANGED salesVars
    BY <1>1 DEF salesVars
<1>2. CASE SalesNext
    <2>1. CASE BeginPoll
        BY <2>1 DEF BeginPoll, NoPoll, warnings, tables
    <2>2. ASSUME NEW failed \in SUBSET Collector, Fetched(failed)
          PROVE  UNCHANGED Ops!outboxVars
        BY <2>2 DEF Fetched, warnings, WarningInv, PollState
    <2>3. ASSUME NEW c \in Collector, Report(c)
          PROVE  Ops!Offer
        <3>1. {<<c, Day>>} \in SUBSET Warnings
            BY DayIsInRange DEF Warnings, WarningInv
        <3>2. due' = due \cup {<<c, Day>>} /\ UNCHANGED <<opsKeys, warned, Hand>>
            BY <2>3 DEF Report, tables, WarningInv, PollState
        <3> QED
            BY <3>1, <3>2 DEF Ops!Offer, Warnings
    <2>4. CASE CheckKey
        <3>1. CASE WarnedBefore(poll.key)
            BY <2>4, <3>1 DEF CheckKey, warnings, tables, WarningInv, PollState
        <3>2. CASE ~WarnedBefore(poll.key)
            <4>1. {poll.key} \in SUBSET (due \ opsKeys)
                BY <2>4, <3>2 DEF CheckKey, WarnedBefore, WarningInv
            <4>2. Hand' = [Hand EXCEPT !["poll"] = {poll.key}] /\ UNCHANGED <<due, opsKeys, warned>>
                BY <2>4, <3>2 DEF CheckKey, warnings, tables, WarningInv, PollState
            <4>3. Ops!Take("poll")
                BY <4>1, <4>2 DEF Ops!Take
            <4> QED
                BY <4>3 DEF Ops!Next
        <3> QED
            BY <3>1, <3>2
    <2>5. ASSUME NEW answered \in BOOLEAN, Warn(answered)
          PROVE  Ops!Tell("poll")
        BY <2>5 DEF Warn, tables, Ops!Tell, WarningInv, PollState
    <2>6. CASE WarnFails
        BY <2>6 DEF WarnFails, warnings, tables, WarningInv, PollState, Ops!Next, Ops!Drop
    <2>7. CASE RecordWarning
        <3>1. {poll.key} \in SUBSET warned
            BY <2>7 DEF RecordWarning, WarningInv
        <3>2. opsKeys' = opsKeys \cup {poll.key} /\ UNCHANGED <<due, warned, Hand>>
            BY <2>7 DEF RecordWarning, warnings, WarningInv, PollState
        <3>3. Ops!Claim
            BY <3>1, <3>2 DEF Ops!Claim
        <3> QED
            BY <3>3 DEF Ops!Next
    <2>8. CASE RecordFails \/ EndPoll \/ Die
        <3>1. UNCHANGED <<due, opsKeys, warned>> /\ Hand' = [t \in {"poll"} |-> {}]
            BY <2>8 DEF RecordFails, EndPoll, Die, NoPoll, warnings, tables
        <3>2. Ops!Drop
            BY <3>1 DEF Ops!Drop
        <3> QED
            BY <3>2 DEF Ops!Next
    <2>9. CASE Edit \/ Later
        BY <2>9 DEF Edit, Later, warnings, tables
    <2> QED
        BY <1>2, <2>1, <2>2, <2>3, <2>4, <2>5, <2>6, <2>7, <2>8, <2>9
        DEF SalesNext, Ops!Next
<1> QED
    BY <1>1, <1>2 DEF Next, vars

\* No key is committed for a warning that ntfy did not take, and a day's warning is not
\* sent again once its key is there, whatever fails (notify/dispatch.py:145-158).
THEOREM WarningsImplementOutbox == Spec => WarningsAreOutbox
<1>1. Init => WarningInv
    BY WarningInit
<1>2. WarningInv /\ [Next]_vars => WarningInv'
    BY WarningStep
<1>3. Init => Ops!Init
    BY DEF Init, SalesInit, NoPoll, Ops!Init
<1>4. WarningInv /\ [Next]_vars => [Ops!Next]_(Ops!outboxVars)
    BY OpsStep
<1> QED
    BY <1>1, <1>2, <1>3, <1>4, PTL DEF Spec, WarningsAreOutbox, Ops!Spec
-----------------------------------------------------------------------------
(* Alerts.                                                                 *)

\* A reading says presale or on sale only while a ticket presale or the public sale is
\* open, or Discovery says so.
LEMMA StatusIsOpen ==
    ASSUME NEW t, TicketStatus(item, t) \in {"on_sale", "presale"}, TicketStatus(item, t) # None
    PROVE  item.code = "onsale" \/ \E sale \in SeatSales : Open(sale, t)
<1>1. TicketPresales(item) \subseteq SeatSales /\ item.public \in SeatSales
    BY DEF TicketPresales, SeatSales
<1>2. \/ item.code = "onsale"
      \/ Open(item.public, t)
      \/ \E p \in TicketPresales(item) : Open(p, t)
    BY DEF TicketStatus
<1> QED
    BY <1>1, <1>2

LEMMA AlertStep ==
    ASSUME alerts \in Nat, [Next]_vars
    PROVE  /\ alerts' \in Nat
           /\ alerts' > alerts => \/ item.code = "onsale"
                                  \/ \E sale \in SeatSales : Open(sale, poll.at)
<1>1. CASE UNCHANGED alerts
    BY <1>1
<1>2. ASSUME NEW failed \in SUBSET Collector, Fetched(failed)
      PROVE  /\ alerts' \in Nat
             /\ alerts' > alerts => \/ item.code = "onsale"
                                    \/ \E sale \in SeatSales : Open(sale, poll.at)
    <2> DEFINE old == IF event = None THEN NotStored ELSE event
               new == Resolved(Mapped(item, poll.at), old)
    <2>1. alerts' = alerts \/ (alerts' = alerts + 1 /\ Alerted(event, new))
        BY <1>2 DEF Fetched
    <2>2. ASSUME Alerted(event, new)
          PROVE  TicketStatus(item, poll.at) \in {"on_sale", "presale"} \ {None}
        <3>1. /\ ChangeOf(event, new).change_type = "ticket_status"
              /\ ChangeOf(event, new).ticket_status_to \in {"on_sale", "presale"}
            <4>1. ChangeOf(event, new).source = "ticketmaster"
                BY DEF ChangeOf
            <4> QED
                BY <2>2, <4>1, DefaultAlerts DEF Alerted, BuyTickets
        <3>2. event # None /\ event.status # new.status /\ new.status \in {"on_sale", "presale"}
            BY <3>1 DEF ChangeOf
        <3>3. new.status = IF TicketStatus(item, poll.at) = None THEN old.status
                           ELSE TicketStatus(item, poll.at)
            BY DEF Resolved, Mapped
        <3> QED
            BY <3>2, <3>3
    <2> QED
        BY <2>1, <2>2, StatusIsOpen
<1>3. CASE Edit
    BY <1>3 DEF Edit
<1> QED
    BY <1>1, <1>2, <1>3
    DEF Next, vars, SalesNext, salesVars, observers, BeginPoll, Report, CheckKey, Warn, WarnFails,
        RecordWarning, RecordFails, EndPoll, Die, Later

\* Whatever is edited, fails or opens while it is read, an alert says that tickets can be
\* bought only if a presale or the public sale was open, or Discovery said so, when the
\* fetch began (ticketmaster.py:125-177, config.py:54-56).
THEOREM AlertsAreForOpenSales == Spec => AlertsAreOpenings
<1>1. Init => alerts \in Nat
    BY DEF Init, SalesInit
<1>2. alerts \in Nat /\ [Next]_vars => (alerts \in Nat)'
    BY AlertStep
<1>3. alerts \in Nat /\ [Next]_vars =>
        [alerts' > alerts =>
            \/ item.code = "onsale"
            \/ \E sale \in SeatSales : Open(sale, poll.at)]_salesVars
    BY AlertStep
<1> QED
    BY <1>1, <1>2, <1>3, PTL DEF Spec, AlertsAreOpenings
-----------------------------------------------------------------------------
(* Backups.                                                                *)

\* The newest whole copy that was ever made is still there.
NewestIsKept ==
    made # {} => \E copy \in complete \cap made : \A day \in made : day <= copy

\* Files bear the days before the next run, so that a new copy is the newest file.
BackupInv ==
    /\ night \in Nat
    /\ \A day \in complete \cup partial \cup made : day \in Nat /\ day < night
    /\ NewestIsKept

\* Nothing is newer than the file of this night, so it is not among the old ones.
LEMMA NewestIsNotOld ==
    ASSUME BackupInv
    PROVE  night \notin Old(Files \cup {night})
<1>1. {g \in Files \cup {night} : g > night} = {}
    <2>1. ASSUME NEW g \in Files \cup {night}, g > night
          PROVE  FALSE
        <3>1. g \in Nat /\ night \in Nat /\ g <= night
            BY <2>1 DEF BackupInv, Files
        <3> QED
            BY <2>1, <3>1
    <2> QED
        BY <2>1
<1>2. Cardinality({g \in Files \cup {night} : g > night}) = 0
    BY <1>1, FS_EmptySet
<1>3. ~(0 >= Keep)
    BY BackupAssumption
<1> QED
    BY <1>2, <1>3 DEF Old

LEMMA BackUpKeepsNewest ==
    ASSUME BackupInv, BackUp
    PROVE  BackupInv'
<1>1. night \in Nat /\ night' = night + 1 /\ made' = made \cup {night}
    BY DEF BackUp, Night, BackupInv
<1>2. complete' \cup partial' \subseteq complete \cup partial \cup {night}
    BY DEF BackUp, Files
<1>3. night \in complete'
    BY NewestIsNotOld DEF BackUp
<1>4. \A day \in complete \cup partial \cup made : day \in Nat /\ day < night
    BY DEF BackupInv
<1>5. \A day \in (complete \cup partial \cup made)' : day \in Nat /\ day < night'
    BY <1>1, <1>2, <1>4
<1>6. \A day \in made' : day <= night
    BY <1>1, <1>4
<1> QED
    BY <1>1, <1>3, <1>5, <1>6 DEF BackupInv, NewestIsKept

LEMMA BackupStep == BackupInv /\ [Next]_vars => BackupInv'
<1> SUFFICES ASSUME BackupInv, [Next]_vars
             PROVE  BackupInv'
    OBVIOUS
<1>1. CASE UNCHANGED backupVars
    BY <1>1 DEF BackupInv, NewestIsKept, backupVars
<1>2. CASE BackupNext
    <2>1. CASE BackUp
        BY <2>1, BackUpKeepsNewest
    <2>2. ASSUME NEW leaves \in {{}, {night}}, BackUpFails(leaves)
          PROVE  BackupInv'
        <3>1. /\ night \in Nat /\ night' = night + 1
              /\ UNCHANGED <<complete, made>> /\ partial' = partial \cup leaves
            BY <2>2 DEF BackUpFails, Night, BackupInv
        <3> QED
            BY <2>2, <3>1 DEF BackupInv, NewestIsKept
    <2>3. CASE NoBackUp
        BY <2>3 DEF NoBackUp, Night, BackupInv, NewestIsKept
    <2> QED
        BY <1>2, <2>1, <2>2, <2>3 DEF BackupNext
<1> QED
    BY <1>1, <1>2 DEF Next, vars

\* Whatever copies fail, are cut short or are not made, the newest whole copy is never
\* removed: once there was a copy to restore from, there always is one
\* (scheduler.py:44-53).
THEOREM NewestCopyIsKept == Spec => []NewestIsKept
<1>1. Init => BackupInv
    BY DEF Init, BackupInit, BackupInv, NewestIsKept
<1>2. BackupInv /\ [Next]_vars => BackupInv'
    BY BackupStep
<1>3. BackupInv => NewestIsKept
    BY DEF BackupInv
<1> QED
    BY <1>1, <1>2, <1>3, PTL DEF Spec

\* The files of days up to n are finitely many.
LEMMA FilesFinite ==
    ASSUME NEW n \in Nat, NEW S, S \subseteq 0..n
    PROVE  IsFiniteSet(S) /\ Cardinality(S) \in Nat
<1>1. IsFiniteSet(0..n)
    BY FS_Interval
<1>2. IsFiniteSet(S)
    BY <1>1, FS_Subset
<1> QED
    BY <1>2, FS_CardinalityType

\* Removing the old files leaves Keep files newer than any day that had them.
LEMMA OldLeavesKeep ==
    ASSUME NEW n \in Nat, NEW F, F \subseteq 0..n, NEW day \in Nat,
           Cardinality({g \in F : g > day}) >= Keep
    PROVE  Cardinality({g \in F \ Old(F) : g > day}) >= Keep
<1> DEFINE newer == {g \in F : g > day}
           kept  == {g \in F \ Old(F) : g > day}
<1>1. IsFiniteSet(newer) /\ IsFiniteSet(kept) /\ Cardinality(kept) \in Nat
    BY FilesFinite
<1>2. CASE newer \cap Old(F) = {}
    <2>1. kept = newer
        BY <1>2
    <2> QED
        BY <2>1
<1>3. CASE newer \cap Old(F) # {}
    <2>1. PICK m \in newer \cap Old(F) : \A g \in newer \cap Old(F) : g <= m
        BY <1>3, GreatestUpTo
    <2> DEFINE newest == {g \in F : g > m}
    <2>2. Cardinality(newest) >= Keep
        BY <2>1 DEF Old
    <2>3. newest \subseteq kept
        <3>1. ASSUME NEW g \in newest
              PROVE  g \in kept
            <4>1. g \in Nat /\ m \in Nat /\ g > m /\ m > day /\ g \in F
                BY <2>1
            <4>2. g > day /\ ~(g <= m)
                BY <4>1
            <4>3. g \notin Old(F)
                BY <2>1, <4>1, <4>2
            <4> QED
                BY <4>1, <4>2, <4>3
        <3> QED
            BY <3>1
    <2>4. Cardinality(newest) <= Cardinality(kept)
        BY <1>1, <2>3, FS_Subset
    <2>5. Cardinality(newest) \in Nat
        BY FilesFinite
    <2> HIDE DEF newest, kept
    <2>6. Cardinality(kept) >= Keep
        BY <1>1, <2>2, <2>4, <2>5, BackupAssumption
    <2> QED
        BY <2>6 DEF kept
<1> QED
    BY <1>2, <1>3

\* A day whose copy is gone has Keep newer files.
GivenUpForNewer ==
    \A day \in made \ complete : Cardinality({f \in Files : f > day}) >= Keep

\* Keep files stay Keep files if others join them.
LEMMA MoreThanKeep ==
    ASSUME NEW n \in Nat, NEW S, NEW T, S \subseteq T, T \subseteq 0..n, Cardinality(S) >= Keep
    PROVE  Cardinality(T) >= Keep
<1>1. IsFiniteSet(T) /\ Cardinality(T) \in Nat /\ Cardinality(S) \in Nat
    BY FilesFinite
<1>2. Cardinality(S) <= Cardinality(T)
    BY <1>1, FS_Subset
<1> QED
    BY <1>1, <1>2, BackupAssumption

LEMMA BackUpGivesUp ==
    ASSUME BackupInv, GivenUpForNewer, BackUp
    PROVE  GivenUpForNewer'
<1> DEFINE F == Files \cup {night}
<1>1. /\ night \in Nat /\ F \subseteq 0..night
      /\ made' = made \cup {night} /\ night \in complete'
      /\ \A day \in made : day \in Nat
    <2>1. night \in complete' /\ made' = made \cup {night}
        BY NewestIsNotOld DEF BackUp
    <2>2. night \in Nat /\ \A day \in Files \cup made : day \in Nat /\ day < night
        BY DEF BackupInv, Files
    <2> QED
        BY <2>1, <2>2
<1>2. PICK left \in SUBSET Old(F) :
        /\ complete' = ((complete \cup {night}) \ Old(F)) \cup (left \cap complete)
        /\ partial' = (partial \ Old(F)) \cup (left \cap partial)
    BY DEF BackUp
<1>3. F \ Old(F) \subseteq Files' /\ Files' \subseteq F
    BY <1>2 DEF Files, Old
<1>4. ASSUME NEW day \in made', day \notin complete'
      PROVE  Cardinality({g \in Files' : g > day}) >= Keep
    <2>1. day \in made /\ day \in Nat
        BY <1>1, <1>4
    <2>2. Cardinality({g \in F : g > day}) >= Keep
        <3>1. CASE day \in complete
            <4>1. day \in Old(F)
                BY <1>2, <1>4, <3>1
            <4> QED
                BY <4>1 DEF Old
        <3>2. CASE day \notin complete
            <4> DEFINE a == {g \in Files : g > day}
                       b == {g \in F : g > day}
            <4>1. a \subseteq b /\ b \subseteq 0..night /\ Cardinality(a) >= Keep
                BY <1>1, <2>1, <3>2 DEF GivenUpForNewer
            <4>2. Cardinality(b) >= Keep
                <5> HIDE DEF a, b
                <5> QED
                    BY <1>1, <4>1, MoreThanKeep
            <4> QED
                BY <4>2
        <3> QED
            BY <3>1, <3>2
    <2>3. Cardinality({g \in F \ Old(F) : g > day}) >= Keep
        <3> HIDE DEF F
        <3> QED
            BY <1>1, <2>1, <2>2, OldLeavesKeep
    <2>4. Files' \subseteq 0..night
        BY <1>1, <1>3
    <2> HIDE DEF F
    <2> DEFINE a == {g \in F \ Old(F) : g > day}
               b == {g \in Files' : g > day}
    <2>5. a \subseteq b /\ b \subseteq 0..night /\ Cardinality(a) >= Keep
        BY <1>3, <2>3, <2>4
    <2>6. Cardinality(b) >= Keep
        <3> HIDE DEF a, b
        <3> QED
            BY <1>1, <2>5, MoreThanKeep
    <2> QED
        BY <2>6
<1> QED
    BY <1>4 DEF GivenUpForNewer

LEMMA GivenUpStep ==
    ASSUME BackupInv, GivenUpForNewer, [Next]_vars
    PROVE  GivenUpForNewer'
<1>1. CASE UNCHANGED backupVars
    BY <1>1 DEF GivenUpForNewer, Files, backupVars
<1>2. CASE BackUp
    BY <1>2, BackUpGivesUp
<1>3. ASSUME NEW leaves \in {{}, {night}}, BackUpFails(leaves) \/ (leaves = {} /\ NoBackUp)
      PROVE  GivenUpForNewer'
    <2>1. UNCHANGED <<complete, made>> /\ partial' = partial \cup leaves
        BY <1>3 DEF BackUpFails, NoBackUp
    <2>2. Files \subseteq Files' /\ Files' \subseteq 0..night /\ night \in Nat
        BY <2>1 DEF Files, BackupInv
    <2>3. ASSUME NEW day \in made \ complete
          PROVE  Cardinality({g \in Files' : g > day}) >= Keep
        <3> DEFINE a == {g \in Files : g > day}
                   b == {g \in Files' : g > day}
        <3>1. a \subseteq b /\ b \subseteq 0..night /\ Cardinality(a) >= Keep
            BY <2>2 DEF GivenUpForNewer
        <3>2. Cardinality(b) >= Keep
            <4> HIDE DEF a, b
            <4> QED
                BY <2>2, <3>1, MoreThanKeep
        <3> QED
            BY <3>2
    <2> QED
        BY <2>1, <2>3 DEF GivenUpForNewer
<1> QED
    BY <1>1, <1>2, <1>3 DEF Next, BackupNext, vars

\* Whatever nights fail and wherever a pruning stops, a whole copy is gone only when Keep
\* files are newer, one of them whole: neither failed copies nor half-done prunings eat
\* into what is kept (scheduler.py:44-53).
THEOREM CopiesAreKept == Spec => []BackupsKept
<1>1. Init => BackupInv /\ GivenUpForNewer
    BY DEF Init, BackupInit, BackupInv, NewestIsKept, GivenUpForNewer
<1>2. BackupInv /\ [Next]_vars => BackupInv'
    BY BackupStep
<1>3. BackupInv /\ GivenUpForNewer /\ [Next]_vars => GivenUpForNewer'
    BY GivenUpStep
<1>4. BackupInv /\ GivenUpForNewer => BackupsKept
    <2> SUFFICES ASSUME BackupInv, GivenUpForNewer, NEW day \in made, day \notin complete
                 PROVE  /\ Cardinality({f \in Files : f > day}) >= Keep
                        /\ \E copy \in complete : copy > day
        BY DEF BackupsKept
    <2>1. PICK copy \in complete \cap made : \A d \in made : d <= copy
        BY DEF BackupInv, NewestIsKept
    <2>2. copy \in Nat /\ day \in Nat /\ day <= copy /\ day # copy
        BY <2>1 DEF BackupInv
    <2>3. copy > day
        BY <2>2
    <2> QED
        BY <2>1, <2>3 DEF GivenUpForNewer
<1> QED
    BY <1>1, <1>2, <1>3, <1>4, PTL DEF Spec

-----------------------------------------------------------------------------
(* What is announced.                                                      *)

\* The least of some numbers is one of them.
LEMMA MinOf ==
    ASSUME NEW S \in SUBSET Nat, S # {}
    PROVE  /\ Min(S) \in S /\ Min(S) \in Nat
           /\ \A n \in S : Min(S) <= n
<1>1. PICK m \in S : \A n \in S : m <= n
    BY LeastNat
<1>2. Min(S) = m
    BY <1>1, LeastIsMin
<1> QED
    BY <1>1, <1>2

\* The starts of ticket presales after t.
StartsAfter(i, t) == {s \in {p.start : p \in TicketPresales(i)} \ {None} : s > t}

\* What a start that NextPresale names is, and what it means that there is none.
LEMMA NextPresaleIs ==
    ASSUME NEW i \in Item, NEW t \in Nat
    PROVE  /\ StartsAfter(i, t) \subseteq Nat
           /\ NextPresale(i, t) = None => StartsAfter(i, t) = {}
           /\ NextPresale(i, t) # None =>
                /\ NextPresale(i, t) \in StartsAfter(i, t)
                /\ \A s \in StartsAfter(i, t) : NextPresale(i, t) <= s
<1>1. StartsAfter(i, t) \subseteq Nat
    BY ItemAssumption DEF StartsAfter, TicketPresales
<1>2. NextPresale(i, t) = IF StartsAfter(i, t) = {} THEN None ELSE Min(StartsAfter(i, t))
    BY DEF NextPresale, StartsAfter
<1>3. CASE StartsAfter(i, t) = {}
    BY <1>1, <1>2, <1>3
<1>4. CASE StartsAfter(i, t) # {}
    <2>1. /\ Min(StartsAfter(i, t)) \in StartsAfter(i, t) /\ Min(StartsAfter(i, t)) \in Nat
          /\ \A s \in StartsAfter(i, t) : Min(StartsAfter(i, t)) <= s
        BY <1>1, <1>4, MinOf
    <2> QED
        BY <1>1, <1>2, <1>4, <2>1, ItemAssumption
<1> QED
    BY <1>3, <1>4

\* The presale date that is stored: the next one as of the last reading, or, when no
\* presale was ahead any more, one that earlier readings left behind.
PresaleAsOf(stored, i, t) ==
    IF NextPresale(i, t) # None THEN stored = NextPresale(i, t)
    ELSE stored # None => stored \in Nat /\ stored <= t

Times ==
    /\ clock \in 0..MaxTime
    /\ item \in Item
    /\ asOf \in 0..clock
    /\ poll.at \in 0..clock
    /\ poll.pc = "fetch" => asOf <= poll.at

\* While the item stays as it is, the stored dates are those it had at the last reading.
AnnounceInv ==
    /\ Times
    /\ steady /\ event # None =>
        /\ event.public_sale_start = item.public.start
        /\ PresaleAsOf(event.presale_start, item, asOf)

\* Readings go forward in time: a presale that is behind stays behind.
LEMMA PresaleLater ==
    ASSUME NEW i \in Item, NEW t \in Nat, NEW u \in Nat, t <= u,
           NEW stored, PresaleAsOf(stored, i, t)
    PROVE  PresaleAsOf(IF NextPresale(i, u) = None THEN stored ELSE NextPresale(i, u), i, u)
<1>1. CASE NextPresale(i, u) # None
    BY <1>1 DEF PresaleAsOf
<1>2. CASE NextPresale(i, u) = None /\ stored # None
    <2>1. StartsAfter(i, u) = {}
        BY <1>2, NextPresaleIs
    <2>2. CASE NextPresale(i, t) = None
        BY <1>2, <2>2 DEF PresaleAsOf
    <2>3. CASE NextPresale(i, t) # None
        <3>1. stored \in StartsAfter(i, t) /\ stored \in Nat
            BY <2>3, NextPresaleIs DEF PresaleAsOf
        <3>2. ~(stored > u)
            BY <2>1, <3>1 DEF StartsAfter
        <3> QED
            BY <1>2, <3>1, <3>2 DEF PresaleAsOf
    <2> QED
        BY <2>2, <2>3
<1>3. CASE NextPresale(i, u) = None /\ stored = None
    BY <1>3 DEF PresaleAsOf
<1> QED
    BY <1>1, <1>2, <1>3

\* Instants stay in order: a fetch judges by a time after the last reading it follows.
LEMMA TimesStep ==
    ASSUME WarningInv, Times, [Next]_vars
    PROVE  Times'
<1> USE SalesAssumption DEF Times, WarningInv, PollState
<1>1. CASE BeginPoll
    BY <1>1 DEF BeginPoll, NoPoll, observers
<1>2. ASSUME NEW failed \in SUBSET Collector, Fetched(failed)
      PROVE  Times'
    BY <1>2 DEF Fetched
<1>3. ASSUME NEW c \in Collector, Report(c)
      PROVE  Times'
    BY <1>3 DEF Report, observers
<1>4. ASSUME NEW answered \in BOOLEAN, Warn(answered)
      PROVE  Times'
    BY <1>4 DEF Warn, observers
<1>5. CASE CheckKey \/ WarnFails \/ RecordWarning
    BY <1>5 DEF CheckKey, WarnFails, RecordWarning, observers
<1>6. CASE RecordFails \/ EndPoll \/ Die
    BY <1>6 DEF RecordFails, EndPoll, Die, NoPoll, observers
<1>7. CASE Edit
    BY <1>7 DEF Edit
<1>8. CASE Later
    BY <1>8 DEF Later, observers
<1>9. CASE UNCHANGED salesVars
    BY <1>9 DEF salesVars
<1> QED
    BY <1>1, <1>2, <1>3, <1>4, <1>5, <1>6, <1>7, <1>8, <1>9 DEF Next, SalesNext, vars

\* A reading stores the dates of the item as of the beginning of the fetch.
LEMMA ReadingStores ==
    ASSUME AnnounceInv, WarningInv, NEW failed \in SUBSET Collector, Fetched(failed),
           steady, "ticketmaster" \notin failed
    PROVE  /\ event'.public_sale_start = item.public.start
           /\ PresaleAsOf(event'.presale_start, item, poll.at)
<1> DEFINE old == IF event = None THEN NotStored ELSE event
           n == NextPresale(item, poll.at)
<1>1. /\ event' = Resolved(Mapped(item, poll.at), old)
      /\ item \in Item /\ asOf \in Nat /\ poll.at \in Nat /\ asOf <= poll.at
    BY SalesAssumption DEF Fetched, AnnounceInv, Times
<1>2. /\ event'.public_sale_start =
            IF item.public.start = None THEN old.public_sale_start ELSE item.public.start
      /\ event'.presale_start = IF n = None THEN old.presale_start ELSE n
    BY <1>1 DEF Resolved, Mapped
<1>3. old.public_sale_start \in {item.public.start, None}
    BY DEF AnnounceInv, NotStored
<1>4. PresaleAsOf(IF n = None THEN old.presale_start ELSE n, item, poll.at)
    <2>1. CASE event = None
        BY <2>1 DEF PresaleAsOf, NotStored
    <2>2. CASE event # None
        <3>1. PresaleAsOf(event.presale_start, item, asOf)
            BY <2>2 DEF AnnounceInv
        <3> QED
            BY <1>1, <2>2, <3>1, PresaleLater
    <2> QED
        BY <2>1, <2>2
<1> HIDE DEF n
<1> QED
    BY <1>2, <1>3, <1>4

\* Each step keeps the stored dates those of the last reading.
LEMMA AnnounceStep ==
    ASSUME WarningInv, AnnounceInv, [Next]_vars
    PROVE  AnnounceInv'
<1>1. Times'
    BY TimesStep DEF AnnounceInv
<1>2. ASSUME NEW failed \in SUBSET Collector, Fetched(failed), "ticketmaster" \notin failed
      PROVE  AnnounceInv'
    <2>1. item' = item /\ steady' = steady /\ asOf' = poll.at
        BY <1>2 DEF Fetched
    <2>2. PresaleAsOf(event.presale_start, item, asOf)'
            = PresaleAsOf(event'.presale_start, item, poll.at)
        BY <2>1 DEF PresaleAsOf
    <2> QED
        BY <1>1, <1>2, <2>1, <2>2, ReadingStores DEF AnnounceInv
<1>3. CASE Edit
    <2>1. event' = event /\ steady' = (event = None)
        BY <1>3 DEF Edit, tables
    <2> QED
        BY <1>1, <2>1 DEF AnnounceInv
<1>4. CASE UNCHANGED <<item, event, steady, asOf>>
    <2>1. PresaleAsOf(event.presale_start, item, asOf)' = PresaleAsOf(event.presale_start, item, asOf)
        BY <1>4 DEF PresaleAsOf
    <2> QED
        BY <1>1, <1>4, <2>1 DEF AnnounceInv
<1>5. ASSUME NEW failed \in SUBSET Collector, Fetched(failed), "ticketmaster" \in failed
      PROVE  UNCHANGED <<item, event, steady, asOf>>
    BY <1>5 DEF Fetched
<1> QED
    BY <1>2, <1>3, <1>4, <1>5
    DEF Next, vars, SalesNext, salesVars, tables, observers, BeginPoll, Report, CheckKey, Warn,
        WarnFails, RecordWarning, RecordFails, EndPoll, Die, Later

-----------------------------------------------------------------------------
\* The real starts ahead of t, as numbers.
LEMMA AheadAreStarts ==
    ASSUME item \in Item, NEW t \in Nat
    PROVE  /\ SalesAhead(t) \subseteq Nat
           /\ \A s : s \in SalesAhead(t) <=>
                /\ s = item.public.start \/ s \in {p.start : p \in TicketPresales(item)}
                /\ s # None /\ t < s /\ s < Far
BY ItemAssumption DEF SalesAhead, SeatSales, TicketPresales

\* The two dates that the event keeps are all it takes to find the earliest sale ahead.
LEMMA NextSaleIsNext ==
    ASSUME AnnounceInv, steady, event # None
    PROVE  LET two == {s \in {event.presale_start, event.public_sale_start} : Ahead(s, clock)}
           IN /\ two \subseteq SalesAhead(clock)
              /\ SalesAhead(clock) # {} /\ ~(\E s \in SalesAhead(asOf) : s <= clock)
                   => Min(SalesAhead(clock)) \in two
<1> DEFINE n == NextPresale(item, asOf)
           two == {s \in {event.presale_start, event.public_sale_start} : Ahead(s, clock)}
           ahead == SalesAhead(clock)
<1>1. /\ item \in Item /\ clock \in Nat /\ asOf \in Nat /\ asOf <= clock /\ Far \in Nat
      /\ event.public_sale_start = item.public.start
      /\ PresaleAsOf(event.presale_start, item, asOf)
    BY SalesAssumption, ItemAssumption DEF AnnounceInv, Times
<1>2. ASSUME Ahead(event.presale_start, clock)
      PROVE  event.presale_start \in ahead
    <2>1. event.presale_start # None /\ event.presale_start > clock /\ event.presale_start < Far
        BY <1>2 DEF Ahead
    <2>2. CASE n = None
        BY <1>1, <2>1, <2>2 DEF PresaleAsOf
    <2>3. CASE n # None
        <3>1. event.presale_start \in StartsAfter(item, asOf)
            BY <1>1, <2>3, NextPresaleIs DEF PresaleAsOf
        <3> QED
            BY <1>1, <2>1, <3>1, AheadAreStarts DEF StartsAfter
    <2> QED
        BY <2>2, <2>3
<1>3. ASSUME Ahead(event.public_sale_start, clock)
      PROVE  event.public_sale_start \in ahead
    BY <1>1, <1>3, AheadAreStarts DEF Ahead
<1>4. two \subseteq ahead
    BY <1>2, <1>3
<1>5. ASSUME ahead # {}, ~(\E s \in SalesAhead(asOf) : s <= clock)
      PROVE  Min(ahead) \in two
    <2>1. PICK m \in ahead : m = Min(ahead) /\ m \in Nat /\ \A s \in ahead : m <= s
        BY <1>1, <1>5, AheadAreStarts, MinOf
    <2>2. m # None /\ clock < m /\ m < Far
        BY <1>1, <2>1, AheadAreStarts
    <2>3. CASE m = item.public.start
        BY <1>1, <2>1, <2>2, <2>3 DEF Ahead
    <2>4. CASE m \in {p.start : p \in TicketPresales(item)}
        <3>1. m \in StartsAfter(item, asOf)
            BY <1>1, <2>1, <2>2, <2>4 DEF StartsAfter
        <3>2. /\ n # None /\ n \in Nat /\ n > asOf /\ n <= m
              /\ n \in {p.start : p \in TicketPresales(item)}
              /\ event.presale_start = n
            BY <1>1, <3>1, NextPresaleIs DEF StartsAfter, PresaleAsOf
        <3> HIDE DEF n
        <3>3. n < Far
            BY <1>1, <2>1, <2>2, <3>2
        <3>4. n \in SalesAhead(asOf)
            BY <1>1, <3>2, <3>3, AheadAreStarts
        <3>5. clock < n
            BY <1>1, <1>5, <3>2, <3>4
        <3>6. n \in ahead
            BY <1>1, <3>2, <3>3, <3>5, AheadAreStarts
        <3>7. n = m
            BY <2>1, <3>2, <3>6
        <3> QED
            BY <2>1, <2>2, <3>2, <3>7 DEF Ahead
    <2> QED
        BY <1>1, <2>1, <2>3, <2>4, AheadAreStarts
<1> QED
    BY <1>4, <1>5

\* What is stored makes the announcements right.
LEMMA AnnouncementsHold ==
    ASSUME AnnounceInv
    PROVE  AnnouncedIsNext
<1> SUFFICES ASSUME steady, event # None
             PROVE  LET ahead == SalesAhead(clock)
                        opened == \E s \in SalesAhead(asOf) : s <= clock
                        announced == {b[2] : b \in SaleBadges(event, clock)} \ {None}
                    IN /\ announced \subseteq ahead
                       /\ ahead # {} /\ event.status \notin {"sold_out", "presale"} /\ ~opened
                            => announced = {Min(ahead)}
                       /\ ahead # {} /\ ~opened => OnSaleSoon(event, clock)
    BY DEF AnnouncedIsNext
<1> DEFINE two == {s \in {event.presale_start, event.public_sale_start} : Ahead(s, clock)}
           ahead == SalesAhead(clock)
           opened == \E s \in SalesAhead(asOf) : s <= clock
           next == NextSale(event, clock)
           announced == {b[2] : b \in SaleBadges(event, clock)} \ {None}
<1>1. /\ two \subseteq ahead /\ ahead \subseteq Nat
      /\ \A s \in ahead : s # None
    BY NextSaleIsNext, AheadAreStarts, SalesAssumption DEF AnnounceInv, Times
<1>2. ahead # {} /\ ~opened => Min(ahead) \in two /\ \A s \in ahead : Min(ahead) <= s
    BY <1>1, NextSaleIsNext, MinOf
<1>3. next = IF two = {} THEN None ELSE Min(two)
    BY DEF NextSale
<1>4. two \in SUBSET Nat /\ ahead \in SUBSET Nat
    BY <1>1
<1>5. next # None => next \in ahead
    <2>1. CASE two = {}
        BY <1>3, <2>1
    <2>2. CASE two # {}
        <3>1. Min(two) \in two
            <4> HIDE DEF two
            <4> QED
                BY <1>4, <2>2, MinOf
        <3> QED
            BY <1>1, <1>3, <2>2, <3>1
    <2> QED
        BY <2>1, <2>2
<1>6. ahead # {} /\ ~opened => next = Min(ahead) /\ next # None
    <2> SUFFICES ASSUME ahead # {}, ~opened
                 PROVE  next = Min(ahead) /\ next # None
        OBVIOUS
    <2>1. Min(ahead) \in two /\ \A s \in two : Min(ahead) <= s
        BY <1>1, <1>2
    <2>2. Min(two) = Min(ahead)
        <3> DEFINE m == Min(ahead)
        <3> HIDE DEF two, m
        <3>1. m \in two /\ \A s \in two : m <= s
            BY <2>1 DEF m
        <3>2. Min(two) = m
            BY <1>4, <3>1, LeastIsMin
        <3> QED
            BY <3>2 DEF m
    <2>3. Min(ahead) # None /\ two # {}
        BY <1>1, <2>1
    <2> QED
        BY <1>3, <2>2, <2>3
<1>7. UpcomingSale(event, clock) # None => UpcomingSale(event, clock) \in ahead
    BY <1>1 DEF UpcomingSale
<1>8. announced \subseteq ahead
    <2>1. ASSUME NEW b \in SaleBadges(event, clock), b[2] # None
          PROVE  b[2] \in ahead
        <3>1. \/ b \in {<<"sold-out", None>>, <<"presale", None>>, <<"soon", None>>}
              \/ b = <<"soon", UpcomingSale(event, clock)>>
              \/ b = <<"soon", next>>
            BY DEF SaleBadges
        <3> HIDE DEF next, ahead
        <3> QED
            BY <1>5, <1>7, <2>1, <3>1
    <2> QED
        BY <2>1
<1>9. ahead # {} /\ event.status \notin {"sold_out", "presale"} /\ ~opened
        => announced = {Min(ahead)}
    <2> SUFFICES ASSUME ahead # {}, event.status \notin {"sold_out", "presale"}, ~opened
                 PROVE  announced = {Min(ahead)}
        OBVIOUS
    <2>1. SaleBadges(event, clock) = {<<"soon", next>>}
        BY <1>6 DEF SaleBadges
    <2>2. {b[2] : b \in {<<"soon", next>>}} = {next}
        OBVIOUS
    <2> HIDE DEF next, ahead
    <2> QED
        BY <1>6, <2>1, <2>2
<1>10. ahead # {} /\ ~opened => OnSaleSoon(event, clock)
    BY <1>6 DEF OnSaleSoon
<1> QED
    BY <1>8, <1>9, <1>10

\* Whatever sales open between two readings, fail to be read or are placeholders, what the
\* dashboard announces of an item that stays as it is, is right at every moment
\* (ticketmaster.py:180-191, fmt.py:147-156, web/listing.py:86-96).
THEOREM AnnouncementsAreRight == Spec => []AnnouncedIsNext
<1>1. Init => WarningInv /\ AnnounceInv
    BY WarningInit, SalesAssumption DEF Init, SalesInit, NoPoll, AnnounceInv, Times
<1>2. WarningInv /\ [Next]_vars => WarningInv'
    BY WarningStep
<1>3. WarningInv /\ AnnounceInv /\ [Next]_vars => AnnounceInv'
    BY AnnounceStep
<1>4. AnnounceInv => AnnouncedIsNext
    BY AnnouncementsHold
<1> QED
    BY <1>1, <1>2, <1>3, <1>4, PTL DEF Spec

-----------------------------------------------------------------------------
(* Type correctness.                                                       *)

\* The tables of a behaviour, without what WarningInv says of the poll.
TablesOK ==
    /\ edits \in 0..MaxEdits
    /\ event # None => event.status \in Statuses
    /\ night \in 0..MaxNight
    /\ Files \subseteq 0..(night - 1)
    /\ complete \cap partial = {}

\* A reading without a status keeps the one that is stored.
LEMMA StatusStays ==
    ASSUME NEW t, NEW old, old.status \in Statuses
    PROVE  Resolved(Mapped(item, t), old).status \in Statuses
<1>1. Resolved(Mapped(item, t), old).status =
        IF TicketStatus(item, t) = None THEN old.status ELSE TicketStatus(item, t)
    BY DEF Resolved, Mapped
<1>2. TicketStatus(item, t) = None \/ TicketStatus(item, t) \in Statuses
    BY DEF TicketStatus, Statuses
<1> QED
    BY <1>1, <1>2

\* Polls and edits.
LEMMA SalesTables ==
    ASSUME TablesOK, SalesNext, UNCHANGED backupVars
    PROVE  TablesOK'
<1>1. night' \in 0..MaxNight /\ Files' \subseteq 0..(night' - 1) /\ complete' \cap partial' = {}
    BY DEF TablesOK, backupVars, Files
<1>2. ASSUME NEW failed \in SUBSET Collector, Fetched(failed)
      PROVE  TablesOK'
    <2> DEFINE old == IF event = None THEN NotStored ELSE event
    <2>1. old.status \in Statuses
        BY DEF TablesOK, NotStored, Statuses
    <2>2. event' = event \/ event' = Resolved(Mapped(item, poll.at), old)
        BY <1>2 DEF Fetched
    <2> HIDE DEF old
    <2>3. edits' = edits
        BY <1>2 DEF Fetched
    <2> QED
        BY <1>1, <2>1, <2>2, <2>3, StatusStays DEF TablesOK
<1>3. CASE Edit
    <2>1. edits < MaxEdits /\ edits' = edits + 1 /\ event' = event
        BY <1>3 DEF Edit, tables
    <2>2. edits' \in 0..MaxEdits
        BY <2>1, SalesAssumption DEF TablesOK
    <2> QED
        BY <1>1, <2>1, <2>2 DEF TablesOK
<1>4. CASE UNCHANGED <<edits, event>>
    BY <1>1, <1>4 DEF TablesOK
<1> QED
    BY <1>1, <1>2, <1>3, <1>4
    DEF SalesNext, tables, observers, BeginPoll, Report, CheckKey, Warn,
        WarnFails, RecordWarning, RecordFails, EndPoll, Die, Later

\* Nights.
LEMMA BackupTables ==
    ASSUME TablesOK, BackupNext, UNCHANGED salesVars
    PROVE  TablesOK'
<1>1. /\ night \in Nat /\ night' = night + 1 /\ night' \in 0..MaxNight
      /\ \A f \in complete \cup partial : f \in 0..night /\ f # night
      /\ complete \cap partial = {}
    BY BackupAssumption DEF TablesOK, BackupNext, BackUp, BackUpFails, NoBackUp, Night, Files
<1>2. edits' \in 0..MaxEdits /\ (event' # None => event'.status \in Statuses)
    BY DEF TablesOK, salesVars
<1>3. CASE BackUp
    <2> DEFINE old == Old(Files \cup {night})
    <2>1. PICK left :
            /\ complete' = ((complete \cup {night}) \ old) \cup (left \cap complete)
            /\ partial' = (partial \ old) \cup (left \cap partial)
        BY <1>3 DEF BackUp
    <2> HIDE DEF old
    <2>2. complete' \subseteq complete \cup {night} /\ partial' \subseteq partial
        BY <2>1
    <2>3. Files' \subseteq 0..night /\ complete' \cap partial' = {}
        BY <1>1, <2>2 DEF Files
    <2>4. night' - 1 = night
        BY <1>1
    <2> QED
        BY <1>1, <1>2, <2>3, <2>4 DEF TablesOK
<1>4. ASSUME NEW leaves \in {{}, {night}}, BackUpFails(leaves) \/ (leaves = {} /\ NoBackUp)
      PROVE  TablesOK'
    <2>1. complete' = complete /\ partial' = partial \cup leaves
        BY <1>4 DEF BackUpFails, NoBackUp
    <2>2. Files' \subseteq 0..night /\ complete' \cap partial' = {}
        BY <1>1, <2>1 DEF Files
    <2>3. night' - 1 = night
        BY <1>1
    <2> QED
        BY <1>1, <1>2, <2>2, <2>3 DEF TablesOK
<1> QED
    BY <1>3, <1>4 DEF BackupNext

\* The tables, the poll in progress and the files of the copies stay well typed, for any
\* items, collectors and nights.
THEOREM ServiceTypeCorrect == Spec => []TypeOK
<1>1. Init => WarningInv /\ Times /\ TablesOK
    BY WarningInit, SalesAssumption, BackupAssumption
       DEF Init, SalesInit, BackupInit, NoPoll, Times, TablesOK, Files
<1>2. WarningInv /\ [Next]_vars => WarningInv'
    BY WarningStep
<1>3. WarningInv /\ Times /\ [Next]_vars => Times'
    BY TimesStep
<1>4. TablesOK /\ [Next]_vars => TablesOK'
    <2>1. TablesOK /\ UNCHANGED vars => TablesOK'
        BY DEF TablesOK, vars, salesVars, backupVars, Files
    <2> QED
        BY <2>1, SalesTables, BackupTables DEF Next
<1>5. WarningInv /\ Times /\ TablesOK => TypeOK
    BY DEF WarningInv, PollState, Times, TablesOK, TypeOK
<1> QED
    BY <1>1, <1>2, <1>3, <1>4, <1>5, PTL DEF Spec

-----------------------------------------------------------------------------
(* How often is alerted.                                                   *)

PresaleOn(i, t) == \E p \in TicketPresales(i) : Open(p, t)

\* The ticket presales that opened by t, and their number.
Started(i, t) == {p \in TicketPresales(i) : p.start # None /\ p.start <= t}

Opened(i, t) == Cardinality(Started(i, t))

\* The most alerts there can have been when the reading at t is stored: one for each
\* presale that opened, one for the public sale, and where a presale can interrupt "on
\* sale" one for each return.
Budget(i, t) ==
    LET presale == TicketStatus(i, t) = "presale"
    IN IF ~RealStart(i) THEN 2 * Opened(i, t) + (IF presale THEN 0 ELSE 1)
       ELSE IF t < i.public.start THEN Opened(i, t)
       ELSE IF Open(i.public, t) \/ PublicIsLast(i) THEN Opened(i, t) + 1
       ELSE 2 * Opened(i, t) + (IF presale THEN 1 ELSE 2)

\* Between two edits, what is stored is what the last reading said, and its budget holds.
AlertInv ==
    /\ alerts \in Nat
    /\ alerts > 0 =>
        /\ item.code # "cancelled"
        /\ event.status = TicketStatus(item, asOf)
        /\ alerts <= Budget(item, asOf)

\* Presales are few, and those that opened stay open or are over.
LEMMA OpenedGrows ==
    ASSUME NEW i \in Item, NEW t \in Nat, NEW u \in Nat, t <= u
    PROVE  /\ Opened(i, t) \in Nat /\ Opened(i, u) \in Nat
           /\ Opened(i, t) <= Opened(i, u)
           /\ PresaleOn(i, u) => Opened(i, u) >= 1
           /\ PresaleOn(i, u) /\ ~PresaleOn(i, t) => Opened(i, t) + 1 <= Opened(i, u)
<1>1. /\ IsFiniteSet(i.presales)
      /\ \A p \in TicketPresales(i) : /\ p \in i.presales
                                      /\ p.start \in Nat \cup {None} /\ p.end \in Nat \cup {None}
    BY ItemAssumption DEF TicketPresales
<1>2. Started(i, t) \subseteq Started(i, u)
    BY <1>1, ItemAssumption DEF Started
<1>3. IsFiniteSet(Started(i, t)) /\ IsFiniteSet(Started(i, u))
    <2>1. Started(i, t) \subseteq i.presales /\ Started(i, u) \subseteq i.presales
        BY <1>1 DEF Started
    <2> QED
        BY <1>1, <2>1, FS_Subset
<1>4. Opened(i, t) \in Nat /\ Opened(i, u) \in Nat
    BY <1>3, FS_CardinalityType DEF Opened
<1>5. Opened(i, t) <= Opened(i, u)
    BY <1>2, <1>3, FS_Subset DEF Opened
<1>6. ASSUME PresaleOn(i, u)
      PROVE  Opened(i, u) >= 1
    <2>1. Started(i, u) # {}
        BY <1>6 DEF PresaleOn, Open, Started
    <2>2. Opened(i, u) # 0
        BY <1>3, <2>1, FS_EmptySet DEF Opened
    <2> QED
        BY <1>4, <2>2
<1>7. ASSUME PresaleOn(i, u), ~PresaleOn(i, t)
      PROVE  Opened(i, t) + 1 <= Opened(i, u)
    <2>1. PICK p \in TicketPresales(i) : Open(p, u) /\ ~Open(p, t)
        BY <1>7 DEF PresaleOn
    <2>2. p \in Started(i, u) /\ p \notin Started(i, t)
        BY <1>1, <2>1, ItemAssumption DEF Open, Started
    <2>3. Opened(i, t) # Opened(i, u)
        BY <1>2, <1>3, <2>2, FS_Subset DEF Opened
    <2> QED
        BY <1>4, <1>5, <2>3
<1> QED
    BY <1>4, <1>5, <1>6, <1>7

\* The status of an item that is not cancelled.
LEMMA StatusIs ==
    ASSUME NEW i \in Item, NEW t \in 0..MaxTime, i.code # "cancelled"
    PROVE  LET status == TicketStatus(i, t)
           IN /\ status # None
              /\ ~RealStart(i) =>
                    status = IF i.code = "offsale" THEN "unknown"
                             ELSE IF PresaleOn(i, t) THEN "presale"
                             ELSE IF i.code = "onsale" THEN "on_sale" ELSE "unknown"
              /\ RealStart(i) /\ t < i.public.start =>
                    status = IF PresaleOn(i, t) THEN "presale" ELSE "coming_soon"
              /\ RealStart(i) /\ ~(t < i.public.start) =>
                    status = IF i.code = "offsale" THEN "sold_out"
                             ELSE IF Open(i.public, t) THEN "on_sale"
                             ELSE IF PresaleOn(i, t) THEN "presale"
                             ELSE IF i.code = "onsale" THEN "on_sale" ELSE "unknown"
<1>1. ~RealStart(i) => ~Open(i.public, t)
    BY ItemAssumption, SalesAssumption DEF RealStart, Open
<1>2. CASE ~RealStart(i)
    BY <1>1, <1>2, ItemAssumption DEF TicketStatus, PresaleOn
<1>3. CASE RealStart(i) /\ t < i.public.start
    BY <1>3, ItemAssumption DEF TicketStatus, PresaleOn
<1>4. CASE RealStart(i) /\ ~(t < i.public.start)
    BY <1>4, ItemAssumption DEF TicketStatus, PresaleOn
<1> QED
    BY <1>2, <1>3, <1>4

\* The public sale opens and closes once.
LEMMA PublicOnce ==
    ASSUME NEW i \in Item, NEW t \in 0..MaxTime, NEW u \in 0..MaxTime, t <= u, RealStart(i)
    PROVE  /\ u < i.public.start => t < i.public.start
           /\ ~(t < i.public.start) /\ Open(i.public, u) => Open(i.public, t)
           /\ t < i.public.start => ~Open(i.public, t)
           /\ PublicIsLast(i) /\ ~(t < i.public.start) /\ ~Open(i.public, t) => ~PresaleOn(i, t)
<1>1. /\ i.public.start \in Nat /\ i.public.end \in Nat \cup {None}
      /\ t \in Nat /\ u \in Nat
      /\ \A p \in TicketPresales(i) : p.start \in Nat \cup {None} /\ p.end \in Nat \cup {None}
    BY ItemAssumption, SalesAssumption DEF RealStart, TicketPresales
<1>2. ASSUME PublicIsLast(i), ~(t < i.public.start), ~Open(i.public, t)
      PROVE  ~PresaleOn(i, t)
    <2>1. i.public.end # None /\ i.public.end < t /\ i.public.end \in Nat
        BY <1>1, <1>2, ItemAssumption DEF Open
    <2>2. ASSUME NEW p \in TicketPresales(i)
          PROVE  ~Open(p, t)
        <3>1. p.end # None /\ p.end \in Nat /\ p.end <= i.public.end
            BY <1>1, <1>2, <2>1 DEF PublicIsLast
        <3>2. ~(p.end >= t)
            BY <1>1, <2>1, <3>1
        <3> QED
            BY <3>1, <3>2 DEF Open
    <2> QED
        BY <2>2 DEF PresaleOn
<1> QED
    BY <1>1, <1>2, ItemAssumption DEF Open

\* The budget never shrinks, grows by one at least for each alert, and begins with one.
LEMMA BudgetGrows ==
    ASSUME NEW i \in Item, NEW t \in 0..MaxTime, NEW u \in 0..MaxTime, t <= u,
           i.code # "cancelled"
    PROVE  LET alert == TicketStatus(i, u) \in {"presale", "on_sale"}
           IN /\ Budget(i, t) \in Nat /\ Budget(i, u) \in Nat
              /\ Budget(i, t) <= Budget(i, u)
              /\ alert => Budget(i, u) >= 1
              /\ alert /\ TicketStatus(i, t) # TicketStatus(i, u) => Budget(i, t) + 1 <= Budget(i, u)
<1> DEFINE k == Opened(i, t)
           n == Opened(i, u)
           before(x) == x < i.public.start
<1>1. /\ k \in Nat /\ n \in Nat /\ k <= n
      /\ PresaleOn(i, u) => n >= 1
      /\ PresaleOn(i, u) /\ ~PresaleOn(i, t) => k + 1 <= n
    BY OpenedGrows, SalesAssumption
<1> HIDE DEF k, n
<1>2. CASE ~RealStart(i)
    <2>1. /\ Budget(i, t) = 2 * k + (IF TicketStatus(i, t) = "presale" THEN 0 ELSE 1)
          /\ Budget(i, u) = 2 * n + (IF TicketStatus(i, u) = "presale" THEN 0 ELSE 1)
        BY <1>2 DEF Budget, k, n
    <2>2. /\ TicketStatus(i, t) =
                IF i.code = "offsale" THEN "unknown"
                ELSE IF PresaleOn(i, t) THEN "presale"
                ELSE IF i.code = "onsale" THEN "on_sale" ELSE "unknown"
          /\ TicketStatus(i, u) =
                IF i.code = "offsale" THEN "unknown"
                ELSE IF PresaleOn(i, u) THEN "presale"
                ELSE IF i.code = "onsale" THEN "on_sale" ELSE "unknown"
        BY <1>2, StatusIs
    <2> QED
        BY <1>1, <2>1, <2>2
<1>3. CASE RealStart(i) /\ before(u)
    <2>1. before(t)
        BY <1>3, PublicOnce
    <2>2. Budget(i, t) = k /\ Budget(i, u) = n
        BY <1>3, <2>1 DEF Budget, k, n
    <2>3. /\ TicketStatus(i, t) = IF PresaleOn(i, t) THEN "presale" ELSE "coming_soon"
          /\ TicketStatus(i, u) = IF PresaleOn(i, u) THEN "presale" ELSE "coming_soon"
        BY <1>3, <2>1, StatusIs
    <2> QED
        BY <1>1, <2>2, <2>3
<1>4. CASE RealStart(i) /\ ~before(u) /\ before(t)
    <2>1. Budget(i, t) = k
        BY <1>4 DEF Budget, k
    <2>2. Budget(i, u) \in {n + 1, 2 * n + 1, 2 * n + 2}
        BY <1>4 DEF Budget, n
    <2> QED
        BY <1>1, <2>1, <2>2
<1>5. CASE RealStart(i) /\ ~before(t) /\ ~before(u)
    <2> DEFINE on(x) == Open(i.public, x)
    <2>1. /\ Budget(i, t) = IF on(t) \/ PublicIsLast(i) THEN k + 1
                            ELSE 2 * k + (IF TicketStatus(i, t) = "presale" THEN 1 ELSE 2)
          /\ Budget(i, u) = IF on(u) \/ PublicIsLast(i) THEN n + 1
                            ELSE 2 * n + (IF TicketStatus(i, u) = "presale" THEN 1 ELSE 2)
        BY <1>5 DEF Budget, k, n
    <2>2. /\ TicketStatus(i, t) =
                IF i.code = "offsale" THEN "sold_out"
                ELSE IF on(t) THEN "on_sale"
                ELSE IF PresaleOn(i, t) THEN "presale"
                ELSE IF i.code = "onsale" THEN "on_sale" ELSE "unknown"
          /\ TicketStatus(i, u) =
                IF i.code = "offsale" THEN "sold_out"
                ELSE IF on(u) THEN "on_sale"
                ELSE IF PresaleOn(i, u) THEN "presale"
                ELSE IF i.code = "onsale" THEN "on_sale" ELSE "unknown"
        BY <1>5, StatusIs
    <2>3. /\ on(u) => on(t)
          /\ PublicIsLast(i) /\ ~on(t) => ~PresaleOn(i, t)
          /\ PublicIsLast(i) /\ ~on(u) => ~PresaleOn(i, u)
        BY <1>5, PublicOnce
    <2> HIDE DEF on
    <2> QED
        BY <1>1, <2>1, <2>2, <2>3
<1> QED
    BY <1>2, <1>3, <1>4, <1>5

\* What a reading that is alerted says.
LEMMA AlertedSays ==
    ASSUME NEW t, NEW old, NEW event0,
           Alerted(event0, Resolved(Mapped(item, t), old)),
           event0 # None => event0 = old
    PROVE  /\ event0 # None
           /\ old.status # Resolved(Mapped(item, t), old).status
           /\ TicketStatus(item, t) \in {"on_sale", "presale"}
           /\ Resolved(Mapped(item, t), old).status = TicketStatus(item, t)
           /\ TicketStatus(item, t) # None
<1> DEFINE new == Resolved(Mapped(item, t), old)
<1>1. /\ ChangeOf(event0, new).change_type = "ticket_status"
      /\ ChangeOf(event0, new).ticket_status_to \in {"on_sale", "presale"}
    <2>1. ChangeOf(event0, new).source = "ticketmaster"
        BY DEF ChangeOf
    <2> QED
        BY <2>1, DefaultAlerts DEF Alerted, BuyTickets
<1>2. event0 # None /\ event0.status # new.status /\ new.status \in {"on_sale", "presale"}
    BY <1>1 DEF ChangeOf
<1>3. new.status = IF TicketStatus(item, t) = None THEN old.status ELSE TicketStatus(item, t)
    BY DEF Resolved, Mapped
<1> QED
    BY <1>2, <1>3

\* A reading that is stored.
LEMMA FetchedCounts ==
    ASSUME Times, AlertInv, NEW failed \in SUBSET Collector, Fetched(failed),
           "ticketmaster" \notin failed
    PROVE  AlertInv'
<1> DEFINE old == IF event = None THEN NotStored ELSE event
           new == Resolved(Mapped(item, poll.at), old)
<1>1. /\ event' = new /\ asOf' = poll.at /\ item' = item
      /\ alerts' = IF Alerted(event, new) THEN alerts + 1 ELSE alerts
      /\ item \in Item /\ asOf \in 0..MaxTime /\ poll.at \in 0..MaxTime /\ asOf <= poll.at
      /\ alerts \in Nat
    BY SalesAssumption DEF Fetched, Times, AlertInv
<1>2. item.code = "cancelled" => TicketStatus(item, poll.at) = None
    BY DEF TicketStatus
<1>3. event # None => event = old
    OBVIOUS
<1>4. new.status = IF TicketStatus(item, poll.at) = None THEN old.status
                   ELSE TicketStatus(item, poll.at)
    BY DEF Resolved, Mapped
<1>5. CASE Alerted(event, new)
    <2>1. /\ event # None /\ event.status # new.status
          /\ TicketStatus(item, poll.at) \in {"on_sale", "presale"}
          /\ new.status = TicketStatus(item, poll.at)
          /\ item.code # "cancelled"
        BY <1>2, <1>3, <1>5, AlertedSays
    <2>2. alerts' = alerts + 1 /\ alerts' \in Nat
        BY <1>1, <1>5
    <2>3. alerts + 1 <= Budget(item, poll.at)
        <3>1. CASE alerts = 0
            BY <1>1, <2>1, <3>1, BudgetGrows
        <3>2. CASE alerts > 0
            <4>1. /\ alerts <= Budget(item, asOf)
                  /\ TicketStatus(item, asOf) # TicketStatus(item, poll.at)
                BY <2>1, <3>2 DEF AlertInv
            <4>2. /\ Budget(item, asOf) \in Nat /\ Budget(item, poll.at) \in Nat
                  /\ Budget(item, asOf) + 1 <= Budget(item, poll.at)
                BY <1>1, <2>1, <4>1, BudgetGrows
            <4> QED
                BY <1>1, <4>1, <4>2
        <3> QED
            BY <1>1, <3>1, <3>2
    <2> QED
        BY <1>1, <2>1, <2>2, <2>3 DEF AlertInv, Budget
<1>6. CASE ~Alerted(event, new)
    <2>1. alerts' = alerts
        BY <1>1, <1>6
    <2>2. CASE alerts = 0
        BY <1>1, <2>1, <2>2 DEF AlertInv
    <2>3. CASE alerts > 0
        <3>1. item.code # "cancelled" /\ alerts <= Budget(item, asOf)
            BY <2>3 DEF AlertInv
        <3>2. new.status = TicketStatus(item, poll.at)
            BY <1>1, <1>4, <3>1, StatusIs
        <3>3. /\ Budget(item, asOf) \in Nat /\ Budget(item, poll.at) \in Nat
              /\ Budget(item, asOf) <= Budget(item, poll.at)
            BY <1>1, <3>1, BudgetGrows
        <3>4. alerts <= Budget(item, poll.at)
            BY <1>1, <3>1, <3>3
        <3> QED
            BY <1>1, <2>1, <2>3, <3>1, <3>2, <3>4 DEF AlertInv, Budget
    <2> QED
        BY <1>1, <2>2, <2>3
<1> QED
    BY <1>5, <1>6

\* Each step of the system.
LEMMA AlertsCountStep ==
    ASSUME WarningInv, Times, AlertInv, [Next]_vars
    PROVE  AlertInv'
<1>1. ASSUME NEW failed \in SUBSET Collector, Fetched(failed), "ticketmaster" \notin failed
      PROVE  AlertInv'
    BY <1>1, FetchedCounts
<1>2. CASE Edit
    BY <1>2 DEF Edit, AlertInv
<1>3. CASE UNCHANGED <<item, event, asOf, alerts>>
    <2>1. Budget(item, asOf)' = Budget(item, asOf) /\ TicketStatus(item, asOf)' = TicketStatus(item, asOf)
        BY <1>3
    <2> QED
        BY <1>3, <2>1 DEF AlertInv
<1>4. ASSUME NEW failed \in SUBSET Collector, Fetched(failed), "ticketmaster" \in failed
      PROVE  UNCHANGED <<item, event, asOf, alerts>>
    BY <1>4 DEF Fetched
<1> QED
    BY <1>1, <1>2, <1>3, <1>4
    DEF Next, vars, SalesNext, salesVars, tables, observers, BeginPoll, Report, CheckKey, Warn,
        WarnFails, RecordWarning, RecordFails, EndPoll, Die, Later

\* The sales of the item: the public one and the ticket presales.
LEMMA SalesAreMore ==
    ASSUME item \in Item, NEW t \in Nat
    PROVE  /\ Opened(item, t) \in Nat /\ Cardinality(SeatSales) \in Nat
           /\ Opened(item, t) + 1 <= Cardinality(SeatSales)
<1>1. IsFiniteSet(item.presales) /\ Opened(item, t) \in Nat
    BY ItemAssumption, OpenedGrows
<1>2. SeatSales = TicketPresales(item) \cup {item.public} /\ item.public \notin TicketPresales(item)
    BY ItemAssumption DEF SeatSales, TicketPresales
<1>3. IsFiniteSet(TicketPresales(item)) /\ Cardinality(TicketPresales(item)) \in Nat
    BY <1>1, FS_Subset, FS_CardinalityType DEF TicketPresales
<1>4. Cardinality(SeatSales) = Cardinality(TicketPresales(item)) + 1
    BY <1>2, <1>3, FS_AddElement
<1>5. Opened(item, t) <= Cardinality(TicketPresales(item))
    <2>1. Started(item, t) \subseteq TicketPresales(item)
        BY DEF Started
    <2> QED
        BY <1>3, <2>1, FS_Subset DEF Opened
<1> QED
    BY <1>1, <1>3, <1>4, <1>5

\* The budget is within what the property allows.
LEMMA BudgetIsBounded ==
    ASSUME Times, AlertInv
    PROVE  AlertsCountSales
<1> DEFINE k == Opened(item, asOf)
           sales == Cardinality(SeatSales)
<1>1. k \in Nat /\ sales \in Nat /\ k + 1 <= sales /\ alerts \in Nat
    BY SalesAreMore, SalesAssumption DEF Times, AlertInv
<1> HIDE DEF k, sales
<1>2. CASE alerts = 0
    BY <1>1, <1>2 DEF AlertsCountSales, sales
<1>3. CASE alerts > 0
    <2>1. alerts <= Budget(item, asOf)
        BY <1>3 DEF AlertInv
    <2>2. PublicIsLast(item) => RealStart(item)
        BY DEF PublicIsLast
    <2>3. Budget(item, asOf) =
            IF ~RealStart(item) THEN 2 * k + (IF TicketStatus(item, asOf) = "presale" THEN 0 ELSE 1)
            ELSE IF asOf < item.public.start THEN k
            ELSE IF Open(item.public, asOf) \/ PublicIsLast(item) THEN k + 1
            ELSE 2 * k + (IF TicketStatus(item, asOf) = "presale" THEN 1 ELSE 2)
        BY DEF Budget, k
    <2>4. /\ alerts <= 2 * sales
          /\ PublicIsLast(item) => alerts <= sales
          /\ ~RealStart(item) => alerts < 2 * sales
        BY <1>1, <2>1, <2>2, <2>3
    <2> QED
        BY <2>4 DEF AlertsCountSales, sales
<1> QED
    BY <1>1, <1>2, <1>3

\* However often an item is read, fails to be read or is read late, an edit of it is
\* followed by at most one alert for each ticket sale, and by two only where presales
\* interrupt a sale (ticketmaster.py:125-177 with core/ingest.py:148-157).
THEOREM AlertsAreNotRepeated == Spec => []AlertsCountSales
<1>1. Init => WarningInv /\ Times /\ AlertInv
    BY WarningInit, SalesAssumption DEF Init, SalesInit, NoPoll, Times, AlertInv
<1>2. WarningInv /\ [Next]_vars => WarningInv'
    BY WarningStep
<1>3. WarningInv /\ Times /\ [Next]_vars => Times'
    BY TimesStep
<1>4. WarningInv /\ Times /\ AlertInv /\ [Next]_vars => AlertInv'
    BY AlertsCountStep
<1>5. Times /\ AlertInv => AlertsCountSales
    BY BudgetIsBounded
<1> QED
    BY <1>1, <1>2, <1>3, <1>4, <1>5, PTL DEF Spec
=============================================================================
