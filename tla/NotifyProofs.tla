---------------------------- MODULE NotifyProofs ----------------------------
(***************************************************************************)
(* Theorems about Notify, for every number of changes, every set of        *)
(* classes, dispatchers and digesters, every layout of the day and every   *)
(* set of faults.                                                          *)
(***************************************************************************)
EXTENDS Notify, FiniteSetTheorems, WellFoundedInduction, TLAPS

-----------------------------------------------------------------------------
(* Operators.                                                              *)

\* A run that has changes left has an oldest one.
LEMMA OldestInside ==
    ASSUME NEW S \in SUBSET Change, S # {}
    PROVE  Oldest(S) \in S
<1>1. PICK ch \in S : \A other \in S : ~(<<other, ch>> \in OpToRel(<, Nat))
    <2>1. S \subseteq Nat
        BY NotifyAssumption DEF Change
    <2> QED
        BY <2>1, WFMin, NatLessThanWellFounded
<1>2. \A other \in S : ch <= other
    <2>1. \A m, n \in Nat : m < n => <<m, n>> \in OpToRel(<, Nat)
        BY DEF OpToRel
    <2> SUFFICES ASSUME NEW other \in S
                 PROVE  ch <= other
        OBVIOUS
    <2>2. ch \in Nat /\ other \in Nat
        BY NotifyAssumption DEF Change
    <2>3. ~(other < ch)
        BY <1>1, <2>1, <2>2
    <2> QED
        BY <2>2, <2>3
<1> QED
    BY <1>2 DEF Oldest

LEMMA CappedType ==
    ASSUME NEW n \in 0..MaxCount
    PROVE  Capped(n) \in 0..MaxCount /\ Capped(n + 1) \in 0..MaxCount /\ Capped(n + 1) > 0
BY NotifyAssumption DEF Capped

LEMMA CountedType ==
    ASSUME NEW f \in [Change -> 0..MaxCount], NEW S
    PROVE  /\ Counted(f, S) \in [Change -> 0..MaxCount]
           /\ \A x \in Change : Counted(f, S)[x] > 0 <=> (f[x] > 0 \/ x \in S)
<1>1. \A x \in Change : Capped(f[x] + 1) \in 0..MaxCount /\ Capped(f[x] + 1) > 0
    BY CappedType
<1>2. Counted(f, S) = [x \in Change |-> IF x \in S THEN Capped(f[x] + 1) ELSE f[x]]
    BY DEF Counted
<1> HIDE DEF Change
<1> QED
    BY <1>1, <1>2, NotifyAssumption

-----------------------------------------------------------------------------
(* The inductive invariant.                                                *)

\* What a dispatcher holds: it sends something, each change it has in hand is a
\* row, it notes and stamps only what was pushed, and nothing between two runs.
DispatcherInv(d) ==
    /\ disp[d].pc = "idle" => ~Dirty(d)
    /\ disp[d].pc = "send" => disp[d].pending # {}
    /\ \A ch \in disp[d].pending : row[ch] # None
    /\ \A ch \in disp[d].newKeys : pushes[ch] > 0
    /\ disp[d].stamps \subseteq keys \cup disp[d].newKeys

PushInv ==
    /\ \A d \in Dispatcher : DispatcherInv(d)
    /\ \A ch \in keys : pushes[ch] > 0
    /\ \A ch \in Change : row[ch] # None /\ row[ch].notified => ch \in keys
    /\ \A ch \in Change : pushes[ch] > 0 => row[ch] # None

\* What a digester holds: rows, listed by a mail before it stamps them.
DigesterInv(g) ==
    /\ \A ch \in digest[g].ids : row[ch] # None
    /\ digest[g].pc = "mailed" => \A ch \in Listable(digest[g].ids) : mails[ch] > 0
    /\ digest[g].pc = "housekeeping" => Listable(digest[g].ids) = {}

PostInv ==
    /\ \A g \in Digester : DigesterInv(g)
    /\ \A ch \in Change :
          row[ch] # None /\ row[ch].class.news /\ row[ch].digested => mails[ch] > 0
    /\ \A ch \in Change : mails[ch] > 0 => row[ch] # None /\ row[ch].class.news

NotifyInv == TypeOK /\ PushInv /\ PostInv

DispRecord == [pc: {"idle", "loop", "send"}, pending: SUBSET Change,
               newKeys: SUBSET Change, stamps: SUBSET Change]

DigestRecord == [pc: {"idle", "build", "mail", "mailed", "housekeeping"},
                 ids: SUBSET Change, day: {0, 1}, already: BOOLEAN, force: BOOLEAN]

LEMMA IdleType == Idle \in DispRecord /\ NoDigest \in DigestRecord
BY DEF Idle, NoDigest, DispRecord, DigestRecord

\* The row functions that a step leaves in place of row keep each class.
LEMMA RowType ==
    ASSUME TypeOK, NEW ch \in Change
    PROVE  /\ row[ch] \in Row \cup {None}
           /\ row[ch] # None =>
                /\ row[ch].class \in Class /\ row[ch].age \in 0..(MaxAge + 1)
                /\ row[ch].notified \in BOOLEAN /\ row[ch].digested \in BOOLEAN
BY DEF TypeOK, Row

LEMMA NotifyInit ==
    ASSUME Init
    PROVE  NotifyInv
<1>1. TypeOK
    BY IdleType, NotifyAssumption DEF Init, TypeOK, DispRecord, DigestRecord
<1>2. PushInv
    BY DEF Init, PushInv, DispatcherInv, Idle, Dirty
<1>3. PostInv
    BY DEF Init, PostInv, DigesterInv, NoDigest
<1> QED
    BY <1>1, <1>2, <1>3 DEF NotifyInv

-----------------------------------------------------------------------------
(* Type correctness.                                                       *)

\* A stamp that is set.
LEMMA StampedType ==
    ASSUME NotifyInv, NEW S \in SUBSET Change, \A ch \in S : row[ch] # None
    PROVE  /\ [ch \in Change |-> IF ch \in S THEN [row[ch] EXCEPT !.notified = TRUE] ELSE row[ch]]
                \in [Change -> Row \cup {None}]
           /\ [ch \in Change |-> IF ch \in S THEN [row[ch] EXCEPT !.digested = TRUE] ELSE row[ch]]
                \in [Change -> Row \cup {None}]
BY RowType DEF NotifyInv, Row

\* The rows a dispatcher stamps are rows.
LEMMA StampsAreRows ==
    ASSUME NotifyInv, NEW d \in Dispatcher
    PROVE  \A ch \in disp[d].stamps : row[ch] # None
BY DEF NotifyInv, PushInv, DispatcherInv, TypeOK

LEMMA DispType ==
    ASSUME TypeOK, NEW d \in Dispatcher
    PROVE  /\ disp \in [Dispatcher -> DispRecord]
           /\ disp[d].pc \in {"idle", "loop", "send"}
           /\ disp[d].pending \subseteq Change /\ disp[d].newKeys \subseteq Change
           /\ disp[d].stamps \subseteq Change
BY DEF TypeOK, DispRecord

LEMMA DigestType ==
    ASSUME TypeOK, NEW g \in Digester
    PROVE  /\ digest \in [Digester -> DigestRecord]
           /\ digest[g].ids \subseteq Change /\ digest[g].day \in {0, 1}
           /\ digest[g].force \in BOOLEAN
BY DEF TypeOK, DigestRecord

\* The runs of the other dispatchers stay.
Others(d) == \A e \in Dispatcher : e # d => disp'[e] = disp[e]

\* What Sent leaves of a run.
LEMMA SentType ==
    ASSUME TypeOK, NEW d \in Dispatcher, disp[d].pc = "send", disp[d].pending # {},
           NEW recorded \in BOOLEAN, Sent(d, recorded)
    PROVE  LET ch == Oldest(disp[d].pending)
               note == IF recorded THEN {ch} ELSE {}
           IN /\ ch \in Change /\ ch \in disp[d].pending
              /\ disp' \in [Dispatcher -> DispRecord]
              /\ Others(d)
              /\ disp'[d].pc = "loop"
              /\ disp'[d].pending = disp[d].pending \ {ch}
              /\ disp'[d].newKeys = disp[d].newKeys \cup note
              /\ disp'[d].stamps = disp[d].stamps \cup note
<1> DEFINE ch == Oldest(disp[d].pending)
           note == IF recorded THEN {ch} ELSE {}
           r == [disp[d] EXCEPT !.pc = "loop", !.pending = @ \ {ch},
                                !.newKeys = @ \cup note, !.stamps = @ \cup note]
<1>1. ch \in disp[d].pending /\ ch \in Change
    BY DispType, OldestInside
<1>2. disp[d] \in DispRecord /\ disp \in [Dispatcher -> DispRecord]
    BY DispType
<1>3. disp' = [disp EXCEPT ![d] = r]
    BY <1>2 DEF Sent
<1> HIDE DEF ch
<1>4. r \in DispRecord
    BY <1>1, <1>2 DEF DispRecord
<1>5. /\ r.pc = "loop" /\ r.pending = disp[d].pending \ {ch}
      /\ r.newKeys = disp[d].newKeys \cup note /\ r.stamps = disp[d].stamps \cup note
    BY <1>2 DEF DispRecord
<1> HIDE DEF r
<1> QED
    BY <1>1, <1>2, <1>3, <1>4, <1>5 DEF Others, ch

\* What Check leaves of a run.
LEMMA CheckType ==
    ASSUME TypeOK, NEW d \in Dispatcher, Check(d)
    PROVE  LET ch == Oldest(disp[d].pending)
           IN /\ ch \in Change /\ ch \in disp[d].pending
              /\ disp' \in [Dispatcher -> DispRecord]
              /\ Others(d)
              /\ disp'[d].newKeys = disp[d].newKeys
              /\ IF Seen(d, ch)
                 THEN /\ disp'[d].pc = "loop"
                      /\ disp'[d].pending = disp[d].pending \ {ch}
                      /\ disp'[d].stamps = disp[d].stamps \cup {ch}
                 ELSE /\ disp'[d].pc = "send"
                      /\ disp'[d].pending = disp[d].pending
                      /\ disp'[d].stamps = disp[d].stamps
<1> DEFINE ch == Oldest(disp[d].pending)
           r == IF Seen(d, ch)
                THEN [disp[d] EXCEPT !.pending = @ \ {ch}, !.stamps = @ \cup {ch}]
                ELSE [disp[d] EXCEPT !.pc = "send"]
<1>1. ch \in disp[d].pending /\ ch \in Change
    BY DispType, OldestInside DEF Check
<1>2. disp[d] \in DispRecord /\ disp \in [Dispatcher -> DispRecord] /\ disp[d].pc = "loop"
    BY DispType DEF Check
<1>3. disp' = [disp EXCEPT ![d] = r]
    BY <1>2 DEF Check
<1> HIDE DEF ch
<1>4. r \in DispRecord
    BY <1>1, <1>2 DEF DispRecord
<1>5. /\ r.newKeys = disp[d].newKeys
      /\ Seen(d, ch) => /\ r.pc = "loop" /\ r.pending = disp[d].pending \ {ch}
                        /\ r.stamps = disp[d].stamps \cup {ch}
      /\ ~Seen(d, ch) => /\ r.pc = "send" /\ r.pending = disp[d].pending
                         /\ r.stamps = disp[d].stamps
    BY <1>2 DEF DispRecord
<1> HIDE DEF r
<1> QED
    BY <1>1, <1>2, <1>3, <1>4, <1>5 DEF Others, ch

LEMMA NewChangeType ==
    ASSUME NotifyInv, NewChange
    PROVE  TypeOK' /\ \A ch \in Change : row[ch] # None => row'[ch] = row[ch]
<1>1. PICK ch \in Change, cl \in Class :
        /\ row[ch] = None
        /\ row' = [row EXCEPT ![ch] =
                    [class |-> cl, age |-> 0, notified |-> FALSE, digested |-> FALSE]]
    BY DEF NewChange
<1>2. [class |-> cl, age |-> 0, notified |-> FALSE, digested |-> FALSE] \in Row
    BY NotifyAssumption DEF Row
<1>3. row' \in [Change -> Row \cup {None}] /\ \A x \in Change : row[x] # None => row'[x] = row[x]
    BY <1>1, <1>2 DEF NotifyInv, TypeOK
<1> QED
    BY <1>3 DEF NotifyInv, TypeOK, NewChange, Dirty, ghosts

LEMMA StartDispatchType ==
    ASSUME NotifyInv, NEW d \in Dispatcher, StartDispatch(d)
    PROVE  /\ TypeOK' /\ Others(d)
           /\ disp'[d].pc = "loop" /\ disp'[d].newKeys = {} /\ disp'[d].stamps = {}
           /\ \A ch \in disp'[d].pending : row[ch] # None
<1> DEFINE P == {ch \in Change : Pending(ch) /\ Wanted(ch)}
           r == [Idle EXCEPT !.pc = "loop", !.pending = P]
<1>1. disp' = [disp EXCEPT ![d] = r] /\ disp[d].pc = "idle" /\ disp \in [Dispatcher -> DispRecord]
    BY DispType DEF StartDispatch, NotifyInv
<1>2. \A ch \in P : row[ch] # None
    BY DEF Pending
<1> HIDE DEF P
<1>3. P \subseteq Change
    BY DEF P
<1>4. r \in DispRecord /\ r.pc = "loop" /\ r.newKeys = {} /\ r.stamps = {} /\ r.pending = P
    BY <1>3 DEF Idle, DispRecord
<1> HIDE DEF r
<1>5. /\ disp' \in [Dispatcher -> DispRecord] /\ Others(d) /\ disp'[d] = r
    BY <1>1, <1>4 DEF Others
<1>6. TypeOK'
    <2>1. \A e \in Dispatcher : writer' = e => Dirty(e)'
        <3>1. writer # d
            BY <1>1 DEF NotifyInv, PushInv, DispatcherInv, TypeOK
        <3> QED
            BY <1>5, <3>1 DEF NotifyInv, TypeOK, StartDispatch, Dirty, Others
    <2> QED
        BY <1>5, <2>1 DEF NotifyInv, TypeOK, StartDispatch, db, ghosts, DispRecord
<1> QED
    BY <1>2, <1>4, <1>5, <1>6

LEMMA CheckTypeOK ==
    ASSUME NotifyInv, NEW d \in Dispatcher, Check(d)
    PROVE  TypeOK'
<1>1. /\ disp' \in [Dispatcher -> DispRecord] /\ Others(d)
      /\ disp'[d].newKeys = disp[d].newKeys
      /\ disp[d].stamps \subseteq disp'[d].stamps
    BY CheckType DEF NotifyInv
<1>2. \A e \in Dispatcher : Dirty(e) => Dirty(e)'
    BY <1>1 DEF Dirty, Others
<1>3. writer' = IF Dirty(d) THEN d ELSE writer
    BY DEF Check
<1>4. \A e \in Dispatcher : writer' = e => Dirty(e)'
    BY <1>2, <1>3 DEF NotifyInv, TypeOK
<1>5. writer' \in Dispatcher \cup {"ingest", None}
    BY <1>3 DEF NotifyInv, TypeOK
<1> QED
    BY <1>1, <1>4, <1>5 DEF NotifyInv, TypeOK, Check, db, ghosts, DispRecord

LEMMA SentTypeOK ==
    ASSUME NotifyInv, NEW d \in Dispatcher, disp[d].pc = "send",
           NEW recorded \in BOOLEAN, Sent(d, recorded),
           UNCHANGED <<db, writer, digest, tick, due, mails>>,
           pushes' \in [Change -> 0..MaxCount], lost' \in [Change -> 0..MaxCount]
    PROVE  TypeOK'
<1>1. /\ disp' \in [Dispatcher -> DispRecord] /\ Others(d)
      /\ disp[d].newKeys \subseteq disp'[d].newKeys
    BY SentType DEF NotifyInv, PushInv, DispatcherInv
<1>2. disp[d].stamps \subseteq disp'[d].stamps
    BY SentType DEF NotifyInv, PushInv, DispatcherInv
<1>3. \A e \in Dispatcher : Dirty(e) => Dirty(e)'
    BY <1>1, <1>2 DEF Dirty, Others
<1>4. \A e \in Dispatcher : writer' = e => Dirty(e)'
    BY <1>3 DEF NotifyInv, TypeOK
<1> QED
    BY <1>1, <1>4 DEF NotifyInv, TypeOK, db, DispRecord

\* The run's session ends: nothing of it stays.
LEMMA EndedRun ==
    ASSUME NotifyInv, NEW d \in Dispatcher,
           disp' = [disp EXCEPT ![d] = Idle], writer' = Released(d)
    PROVE  /\ disp' \in [Dispatcher -> DispRecord]
           /\ Others(d) /\ disp'[d] = Idle
           /\ writer' \in Dispatcher \cup {"ingest", None}
           /\ \A e \in Dispatcher : writer' = e => Dirty(e)'
<1>1. disp' \in [Dispatcher -> DispRecord] /\ Others(d) /\ disp'[d] = Idle
    BY DispType, IdleType DEF NotifyInv, Others
<1>2. writer' # d
    <2>1. d # None
        BY NotifyAssumption
    <2> QED
        BY <2>1 DEF Released
<1>3. writer' \in {writer, None}
    BY DEF Released
<1>4. \A e \in Dispatcher : e # d => (Dirty(e)' <=> Dirty(e))
    BY <1>1 DEF Dirty, Others
<1>5. None \notin Dispatcher
    BY NotifyAssumption
<1> QED
    BY <1>1, <1>2, <1>3, <1>4, <1>5 DEF NotifyInv, TypeOK

LEMMA CommitTypeOK ==
    ASSUME NotifyInv, NEW d \in Dispatcher, Commit(d)
    PROVE  TypeOK'
<1>1. disp[d].newKeys \subseteq Change /\ disp[d].stamps \subseteq Change
    BY DispType DEF NotifyInv
<1>2. row' \in [Change -> Row \cup {None}]
    BY <1>1, StampedType, StampsAreRows DEF Commit
<1>3. keys' \subseteq Change
    BY <1>1 DEF Commit, NotifyInv, TypeOK
<1> QED
    BY <1>2, <1>3, EndedRun DEF NotifyInv, TypeOK, Commit, ghosts, DispRecord

LEMMA RollbackTypeOK ==
    ASSUME NotifyInv, NEW d \in Dispatcher, Rollback(d)
    PROVE  TypeOK'
<1>1. lost' \in [Change -> 0..MaxCount]
    BY CountedType DEF Rollback, NotifyInv, TypeOK
<1> QED
    BY <1>1, EndedRun DEF NotifyInv, TypeOK, Rollback, db, DispRecord

LEMMA DigestStays ==
    ASSUME TypeOK, NEW g \in Digester, NEW r \in DigestRecord, digest' = [digest EXCEPT ![g] = r]
    PROVE  /\ digest' \in [Digester -> DigestRecord]
           /\ digest'[g] = r
           /\ \A h \in Digester : h # g => digest'[h] = digest[h]
BY DigestType

LEMMA StartDigestType ==
    ASSUME NotifyInv, NEW g \in Digester, StartDigest(g)
    PROVE  /\ TypeOK'
           /\ \A h \in Digester : digest'[h] = digest[h] \/ (digest'[h].pc = "build" /\ digest'[h].ids = {})
<1>1. PICK force \in BOOLEAN :
        digest' = IF 0 \in digestKeys /\ ~force THEN digest
                  ELSE [digest EXCEPT ![g] =
                        [NoDigest EXCEPT !.pc = "build", !.already = 0 \in digestKeys,
                                         !.force = force]]
    BY DEF StartDigest
<1> DEFINE known == 0 \in digestKeys
           r == [NoDigest EXCEPT !.pc = "build", !.already = known, !.force = force]
<1> known \in BOOLEAN
    OBVIOUS
<1> HIDE DEF known
<1>2. r \in DigestRecord /\ r.pc = "build" /\ r.ids = {}
    BY DEF NoDigest, DigestRecord
<1>3. digest' = digest \/ digest' = [digest EXCEPT ![g] = r]
    BY <1>1 DEF known
<1> HIDE DEF r
<1>4. /\ digest' \in [Digester -> DigestRecord]
      /\ \A h \in Digester : digest'[h] = digest[h] \/ (digest'[h].pc = "build" /\ digest'[h].ids = {})
    BY <1>2, <1>3, DigestStays, DigestType DEF NotifyInv
<1>5. due' \in BOOLEAN
    BY DEF StartDigest, NotifyInv, TypeOK
<1> QED
    BY <1>4, <1>5 DEF NotifyInv, TypeOK, StartDigest, db, ghosts, DigestRecord, Dirty

\* Build(g) ends the run, or leaves it with what it read.
LEMMA BuildType ==
    ASSUME NotifyInv, NEW g \in Digester, Build(g)
    PROVE  /\ TypeOK'
           /\ \A h \in Digester : h # g => digest'[h] = digest[h]
           /\ \/ digest'[g] = NoDigest
              \/ /\ digest'[g].ids = Undigested
                 /\ \/ digest'[g].pc = "mail"
                    \/ digest'[g].pc = "housekeeping" /\ Listable(Undigested) = {}
<1> DEFINE ids == Undigested
           f == digest[g].force
           r == IF ids = {} /\ ~f THEN NoDigest
                ELSE [digest[g] EXCEPT !.ids = ids,
                        !.pc = IF Listable(ids) = {} /\ ~f THEN "housekeeping" ELSE "mail"]
<1>1. digest' = [digest EXCEPT ![g] = r]
    BY DigestType DEF Build, NotifyInv
<1>2. ids \subseteq Change
    BY DEF Undigested
<1> HIDE DEF ids
<1>3. digest[g] \in DigestRecord
    BY DigestType DEF NotifyInv
<1>4. r \in DigestRecord
    BY <1>2, <1>3, IdleType DEF DigestRecord
<1>5. \/ r = NoDigest
      \/ r.ids = ids /\ (r.pc = "mail" \/ (r.pc = "housekeeping" /\ Listable(ids) = {}))
    BY <1>3 DEF DigestRecord
<1> HIDE DEF r
<1>6. TypeOK'
    <2>1. UNCHANGED <<db, writer, disp, tick, due, ghosts>>
        BY DEF Build
    <2>2. digest' \in [Digester -> DigestRecord]
        BY <1>1, <1>4, DigestStays DEF NotifyInv
    <2> QED
        BY <2>1, <2>2 DEF NotifyInv, TypeOK, db, ghosts, DigestRecord, Dirty
<1> QED
    BY <1>1, <1>4, <1>5, <1>6, DigestStays DEF NotifyInv, ids

\* A mail is sent, answered or not, or fails.
LEMMA MailType ==
    ASSUME NotifyInv, NEW g \in Digester, Mail(g) \/ MailUnacknowledged(g) \/ MailFails(g)
    PROVE  /\ TypeOK'
           /\ \A h \in Digester : h # g => digest'[h] = digest[h]
           /\ \A x \in Change : mails[x] > 0 => mails'[x] > 0
           /\ \/ Mail(g) /\ digest'[g].pc = "mailed" /\ digest'[g].ids = digest[g].ids
              \/ digest'[g] = NoDigest
           /\ MailFails(g) \/ \A x \in Change :
                mails'[x] > 0 <=> (mails[x] > 0 \/ x \in Listable(digest[g].ids))
           /\ MailFails(g) => mails' = mails
<1> DEFINE r == IF Mail(g) THEN [digest[g] EXCEPT !.pc = "mailed"] ELSE NoDigest
<1>1. digest' = [digest EXCEPT ![g] = r]
    BY DigestType DEF Mail, MailUnacknowledged, MailFails, NotifyInv
<1>2. digest[g] \in DigestRecord
    BY DigestType DEF NotifyInv
<1>3. r \in DigestRecord
    BY <1>2, IdleType DEF DigestRecord
<1>4. \/ Mail(g) /\ r.pc = "mailed" /\ r.ids = digest[g].ids
      \/ r = NoDigest
    BY <1>2 DEF DigestRecord
<1> HIDE DEF r
<1>5. /\ mails' \in [Change -> 0..MaxCount]
      /\ MailFails(g) \/ \A x \in Change :
            mails'[x] > 0 <=> (mails[x] > 0 \/ x \in Listable(digest[g].ids))
      /\ MailFails(g) => mails' = mails
    BY CountedType DEF Mail, MailUnacknowledged, MailFails, NotifyInv, TypeOK, ghosts
<1>6. TypeOK'
    BY <1>1, <1>3, <1>5, DigestStays
       DEF NotifyInv, TypeOK, Mail, MailUnacknowledged, MailFails, db, ghosts, DigestRecord, Dirty
<1>7. /\ \A h \in Digester : h # g => digest'[h] = digest[h]
      /\ digest'[g] = r
    BY <1>1, <1>3, DigestStays DEF NotifyInv
<1> QED
    BY <1>4, <1>5, <1>6, <1>7

\* The end of a digest, with or without its stamps.
LEMMA EndDigestType ==
    ASSUME NotifyInv, NEW g \in Digester, CommitDigest(g) \/ RollbackDigest(g)
    PROVE  /\ TypeOK'
           /\ \A h \in Digester : h # g => digest'[h] = digest[h]
           /\ digest'[g] = NoDigest
<1>1. digest' = [digest EXCEPT ![g] = NoDigest]
    BY DEF CommitDigest, RollbackDigest
<1>2. row' \in [Change -> Row \cup {None}]
    <2>1. CASE CommitDigest(g)
        <3>1. ToStamp(g) \subseteq Change /\ \A ch \in ToStamp(g) : row[ch] # None
            BY DigestType DEF NotifyInv, PostInv, DigesterInv, ToStamp
        <3> QED
            BY <2>1, <3>1, StampedType DEF CommitDigest
    <2>2. CASE RollbackDigest(g)
        BY <2>2 DEF RollbackDigest, db, NotifyInv, TypeOK
    <2> QED
        BY <2>1, <2>2
<1>3. digestKeys' \subseteq {0, 1}
    BY DigestType DEF CommitDigest, RollbackDigest, DayKeys, db, NotifyInv, TypeOK
<1>4. UNCHANGED <<keys, writer, disp, tick, due, ghosts>>
    BY DEF CommitDigest, RollbackDigest, db
<1>5. /\ digest' \in [Digester -> DigestRecord]
      /\ \A h \in Digester : h # g => digest'[h] = digest[h]
      /\ digest'[g] = NoDigest
    BY <1>1, DigestStays, IdleType DEF NotifyInv
<1> QED
    BY <1>2, <1>3, <1>4, <1>5 DEF NotifyInv, TypeOK, ghosts, DigestRecord, Dirty

\* Rows grow older and digests may cross midnight; nothing else of them changes.
LEMMA TickType ==
    ASSUME NotifyInv, Tick
    PROVE  /\ TypeOK'
           /\ \A ch \in Change :
                /\ row'[ch] = None <=> row[ch] = None
                /\ row[ch] # None => /\ row'[ch].class = row[ch].class
                                     /\ row'[ch].notified = row[ch].notified
                                     /\ row'[ch].digested = row[ch].digested
           /\ \A g \in Digester : digest'[g].pc = digest[g].pc /\ digest'[g].ids = digest[g].ids
<1> DEFINE later(ch) == IF row[ch] = None THEN None
                        ELSE [row[ch] EXCEPT !.age = IF @ > MaxAge THEN @ ELSE @ + 1]
           midnight == tick = DayLen - 1
           aged(g) == IF midnight /\ digest[g].pc # "idle"
                      THEN [digest[g] EXCEPT !.day = 1] ELSE digest[g]
<1>1. \A ch \in Change :
        /\ later(ch) \in Row \cup {None}
        /\ later(ch) = None <=> row[ch] = None
        /\ row[ch] # None => /\ later(ch).class = row[ch].class
                             /\ later(ch).notified = row[ch].notified
                             /\ later(ch).digested = row[ch].digested
    <2> SUFFICES ASSUME NEW ch \in Change, row[ch] # None
                 PROVE  /\ later(ch) \in Row
                        /\ later(ch).class = row[ch].class
                        /\ later(ch).notified = row[ch].notified
                        /\ later(ch).digested = row[ch].digested
        BY NotifyAssumption
    <2>1. row[ch] \in Row /\ row[ch].age \in 0..(MaxAge + 1) /\ MaxAge \in Nat
        BY RowType, NotifyAssumption DEF NotifyInv
    <2>2. (IF row[ch].age > MaxAge THEN row[ch].age ELSE row[ch].age + 1) \in 0..(MaxAge + 1)
        BY <2>1
    <2> QED
        BY <2>1, <2>2 DEF Row
<1>2. row' = [ch \in Change |-> later(ch)]
    BY DEF Tick
<1>3. \A g \in Digester :
        aged(g) \in DigestRecord /\ aged(g).pc = digest[g].pc /\ aged(g).ids = digest[g].ids
    BY DigestType DEF NotifyInv, DigestRecord
<1>4. digest' = [g \in Digester |-> aged(g)]
    BY DEF Tick
<1>5. /\ digestKeys' \subseteq {0, 1}
      /\ tick' \in 0..(DayLen - 1)
      /\ due' \in BOOLEAN
    <2>1. digestKeys' \in {{day + 1 : day \in digestKeys \cap {0}}, digestKeys}
        BY DEF Tick
    <2>2. tick \in 0..(DayLen - 1) /\ DayLen \in Nat \ {0}
        BY NotifyAssumption DEF NotifyInv, TypeOK
    <2>3. tick' = IF tick = DayLen - 1 THEN 0 ELSE tick + 1
        BY DEF Tick
    <2>4. due' \in BOOLEAN
        BY DEF Tick, NotifyInv, TypeOK
    <2>5. digestKeys' \subseteq {0, 1}
        <3>1. {day + 1 : day \in digestKeys \cap {0}} \subseteq {0, 1}
            OBVIOUS
        <3> QED
            BY <2>1, <3>1 DEF NotifyInv, TypeOK
    <2>6. tick' \in 0..(DayLen - 1)
        BY <2>2, <2>3
    <2> QED
        BY <2>4, <2>5, <2>6
<1>6. UNCHANGED <<keys, writer, disp, pushes, lost, mails>>
    BY DEF Tick
<1> HIDE DEF later, aged, midnight
<1>7. row' \in [Change -> Row \cup {None}] /\ digest' \in [Digester -> DigestRecord]
    BY <1>1, <1>2, <1>3, <1>4
<1>8. TypeOK'
    BY <1>5, <1>6, <1>7 DEF NotifyInv, TypeOK, DigestRecord, Dirty
<1> QED
    BY <1>1, <1>2, <1>3, <1>4, <1>8

LEMMA CrashType ==
    ASSUME NotifyInv, Crash
    PROVE  /\ TypeOK'
           /\ \A d \in Dispatcher : disp'[d] = Idle
           /\ \A g \in Digester : digest'[g] = NoDigest
<1>1. \A ch \in Change : Capped(lost[ch] + InFlight(ch)) \in 0..MaxCount
    <2> SUFFICES ASSUME NEW ch \in Change
                 PROVE  Capped(lost[ch] + InFlight(ch)) \in 0..MaxCount
        OBVIOUS
    <2>1. IsFiniteSet({"poll", "flush"})
        <3>1. IsFiniteSet({"poll"})
            BY FS_Singleton
        <3>2. {"poll", "flush"} = {"poll"} \cup {"flush"}
            OBVIOUS
        <3> QED
            BY <3>1, <3>2, FS_AddElement
    <2>2. IsFiniteSet({d \in Dispatcher : ch \in disp[d].newKeys})
        BY <2>1, FS_Subset, NotifyAssumption
    <2>3. InFlight(ch) \in Nat
        BY <2>2, FS_CardinalityType DEF InFlight
    <2> QED
        BY <2>3, NotifyAssumption DEF Capped, NotifyInv, TypeOK
<1>2. /\ lost' \in [Change -> 0..MaxCount]
      /\ disp' = [d \in Dispatcher |-> Idle] /\ digest' = [g \in Digester |-> NoDigest]
      /\ writer' = None /\ due' \in BOOLEAN
      /\ UNCHANGED <<db, tick, pushes, mails>>
    BY <1>1 DEF Crash
<1>3. None \notin Dispatcher
    BY NotifyAssumption
<1> QED
    BY <1>2, <1>3, IdleType DEF NotifyInv, TypeOK, db, DispRecord, DigestRecord

LEMMA RestType ==
    ASSUME NotifyInv, PollWrites \/ UNCHANGED vars
    PROVE  TypeOK'
<1>1. writer' \in Dispatcher \cup {"ingest", None}
    BY DEF PollWrites, vars, NotifyInv, TypeOK
<1>2. \A d \in Dispatcher : writer' = d => writer = d
    BY NotifyAssumption DEF PollWrites, vars
<1>3. UNCHANGED <<row, keys, digestKeys, disp, digest, tick, due, pushes, lost, mails>>
    BY DEF PollWrites, vars, db, ghosts
<1> QED
    BY <1>1, <1>2, <1>3 DEF NotifyInv, TypeOK, Dirty

LEMMA TypeStep ==
    ASSUME NotifyInv, [Next]_vars
    PROVE  TypeOK'
<1>1. ASSUME NEW d \in Dispatcher, DispatchStep(d)
      PROVE  TypeOK'
    <2>1. ASSUME Send(d) \/ SendFails(d) \/ SendUnacknowledged(d)
          PROVE  TypeOK'
        <3>1. /\ disp[d].pc = "send"
              /\ Sent(d, TRUE) \/ Sent(d, FALSE)
              /\ UNCHANGED <<db, writer, digest, tick, due, mails>>
            BY <2>1 DEF Send, SendFails, SendUnacknowledged, ghosts
        <3>2. pushes' \in [Change -> 0..MaxCount] /\ lost' \in [Change -> 0..MaxCount]
            <4>1. \A S : /\ Counted(pushes, S) \in [Change -> 0..MaxCount]
                         /\ Counted(lost, S) \in [Change -> 0..MaxCount]
                BY CountedType DEF NotifyInv, TypeOK
            <4>2. /\ pushes' = pushes \/ \E S : pushes' = Counted(pushes, S)
                  /\ lost' = lost \/ \E S : lost' = Counted(lost, S)
                BY <2>1 DEF Send, SendFails, SendUnacknowledged, ghosts
            <4> QED
                BY <4>1, <4>2 DEF NotifyInv, TypeOK
        <3> QED
            BY <3>1, <3>2, SentTypeOK
    <2> QED
        BY <1>1, <2>1, StartDispatchType, CheckTypeOK, CommitTypeOK, RollbackTypeOK
           DEF DispatchStep
<1>2. ASSUME NEW g \in Digester, StartDigest(g) \/ DigestStep(g)
      PROVE  TypeOK'
    BY <1>2, StartDigestType, BuildType, MailType, EndDigestType DEF DigestStep
<1> QED
    BY <1>1, <1>2, NewChangeType, TickType, CrashType, RestType DEF Next

-----------------------------------------------------------------------------
(* Pushes.                                                                 *)

\* A step that leaves the dispatchers' sessions, the keys and the pushes alone and
\* neither takes a row away nor stamps one.
LEMMA PushSame ==
    ASSUME NotifyInv, UNCHANGED <<keys, disp, pushes>>,
           \A ch \in Change : row[ch] # None => row'[ch] # None,
           \A ch \in Change : row'[ch] # None /\ row'[ch].notified
                              => row[ch] # None /\ row[ch].notified
    PROVE  PushInv'
<1>1. ASSUME NEW d \in Dispatcher
      PROVE  DispatcherInv(d)'
    <2>1. DispatcherInv(d) /\ disp[d].pending \subseteq Change
        BY DispType DEF NotifyInv, PushInv
    <2>2. Dirty(d)' <=> Dirty(d)
        BY DEF Dirty
    <2> QED
        BY <2>1, <2>2 DEF DispatcherInv
<1> QED
    BY <1>1 DEF NotifyInv, PushInv

\* A step of one dispatcher that touches no row.
LEMMA PushOne ==
    ASSUME NotifyInv, NEW d \in Dispatcher, Others(d), UNCHANGED <<row, keys>>,
           \A ch \in Change : pushes[ch] > 0 => pushes'[ch] > 0,
           \A ch \in Change : pushes'[ch] > 0 => row[ch] # None,
           DispatcherInv(d)'
    PROVE  PushInv'
<1>1. ASSUME NEW e \in Dispatcher, e # d
      PROVE  DispatcherInv(e)'
    <2>1. DispatcherInv(e) /\ disp[e].newKeys \subseteq Change
        BY DispType DEF NotifyInv, PushInv
    <2>2. disp'[e] = disp[e] /\ (Dirty(e)' <=> Dirty(e))
        BY <1>1 DEF Others, Dirty
    <2> QED
        BY <2>1, <2>2 DEF DispatcherInv
<1> QED
    BY <1>1 DEF NotifyInv, PushInv, TypeOK

LEMMA StartDispatchPush ==
    ASSUME NotifyInv, NEW d \in Dispatcher, StartDispatch(d)
    PROVE  PushInv'
<1>1. DispatcherInv(d)'
    BY StartDispatchType DEF DispatcherInv, StartDispatch, db
<1> QED
    BY <1>1, StartDispatchType, PushOne DEF StartDispatch, db, ghosts, NotifyInv, PushInv

LEMMA CheckPush ==
    ASSUME NotifyInv, NEW d \in Dispatcher, Check(d)
    PROVE  PushInv'
<1> DEFINE ch == Oldest(disp[d].pending)
<1>1. DispatcherInv(d) /\ UNCHANGED <<row, keys, pushes>>
    BY DEF NotifyInv, PushInv, Check, db, ghosts
<1>2. /\ disp'[d].newKeys = disp[d].newKeys
      /\ disp'[d].pending \subseteq disp[d].pending
      /\ disp'[d].pc # "idle"
      /\ disp'[d].pc = "send" => disp'[d].pending # {}
      /\ disp'[d].stamps \subseteq keys \cup disp[d].newKeys
    BY <1>1, CheckType DEF NotifyInv, DispatcherInv, Seen
<1>3. DispatcherInv(d)'
    BY <1>1, <1>2 DEF DispatcherInv
<1> QED
    BY <1>1, <1>3, CheckType, PushOne DEF NotifyInv, PushInv

LEMMA SentPush ==
    ASSUME NotifyInv, NEW d \in Dispatcher, disp[d].pc = "send",
           NEW recorded \in BOOLEAN, Sent(d, recorded), UNCHANGED <<row, keys>>,
           \/ pushes' = Counted(pushes, {Oldest(disp[d].pending)})
           \/ ~recorded /\ pushes' = pushes
    PROVE  PushInv'
<1> DEFINE ch == Oldest(disp[d].pending)
           note == IF recorded THEN {ch} ELSE {}
<1>1. DispatcherInv(d)
    BY DEF NotifyInv, PushInv
<1>2. /\ ch \in Change /\ ch \in disp[d].pending /\ Others(d)
      /\ disp'[d].pc = "loop"
      /\ disp'[d].pending = disp[d].pending \ {ch}
      /\ disp'[d].newKeys = disp[d].newKeys \cup note
      /\ disp'[d].stamps = disp[d].stamps \cup note
    BY <1>1, SentType DEF NotifyInv, DispatcherInv
<1> HIDE DEF ch
<1>3. \A x \in Change : pushes'[x] > 0 <=> (pushes[x] > 0 \/ (pushes' # pushes /\ x = ch))
    <2>1. CASE pushes' = Counted(pushes, {ch})
        BY <2>1, CountedType DEF NotifyInv, TypeOK
    <2>2. CASE pushes' = pushes
        BY <2>2
    <2> QED
        BY <2>1, <2>2 DEF ch
<1>4. recorded => pushes'[ch] > 0
    BY <1>2, CountedType DEF NotifyInv, TypeOK, ch
<1>5. DispatcherInv(d)'
    BY <1>1, <1>2, <1>3, <1>4, DispType DEF DispatcherInv, NotifyInv
<1>6. row[ch] # None
    BY <1>1, <1>2 DEF DispatcherInv
<1> QED
    BY <1>2, <1>3, <1>5, <1>6, PushOne DEF NotifyInv, PushInv

LEMMA CommitPush ==
    ASSUME NotifyInv, NEW d \in Dispatcher, Commit(d)
    PROVE  PushInv'
<1>1. /\ disp'[d] = Idle /\ Others(d)
      /\ keys' = keys \cup disp[d].newKeys
      /\ pushes' = pushes
      /\ disp[d].newKeys \subseteq Change /\ disp[d].stamps \subseteq Change
    BY DispType, EndedRun DEF Commit, NotifyInv, ghosts
<1>2. \A ch \in Change :
        /\ row'[ch] # None <=> row[ch] # None
        /\ row'[ch] # None /\ row'[ch].notified
            => ch \in disp[d].stamps \/ (row[ch] # None /\ row[ch].notified)
    <2> SUFFICES ASSUME NEW ch \in Change
                 PROVE  /\ row'[ch] # None <=> row[ch] # None
                        /\ row'[ch] # None /\ row'[ch].notified
                            => ch \in disp[d].stamps \/ (row[ch] # None /\ row[ch].notified)
        OBVIOUS
    <2>1. row'[ch] = IF ch \in disp[d].stamps
                     THEN [row[ch] EXCEPT !.notified = TRUE] ELSE row[ch]
        BY DEF Commit
    <2>2. ch \in disp[d].stamps => row[ch] \in Row /\ row[ch] # None
        BY StampsAreRows, RowType DEF NotifyInv
    <2>3. ch \in disp[d].stamps => row'[ch] \in Row
        BY <2>1, <2>2 DEF Row
    <2> QED
        BY <2>1, <2>2, <2>3, NotifyAssumption
<1>3. DispatcherInv(d)
    BY DEF NotifyInv, PushInv
<1>4. DispatcherInv(d)'
    BY <1>1 DEF DispatcherInv, Idle, Dirty
<1>5. ASSUME NEW e \in Dispatcher, e # d
      PROVE  DispatcherInv(e)'
    <2>1. DispatcherInv(e) /\ disp[e].pending \subseteq Change
        BY DispType DEF NotifyInv, PushInv
    <2>2. disp'[e] = disp[e] /\ (Dirty(e)' <=> Dirty(e))
        BY <1>1, <1>5 DEF Others, Dirty
    <2> QED
        BY <1>1, <1>2, <2>1, <2>2 DEF DispatcherInv
<1> QED
    BY <1>1, <1>2, <1>3, <1>4, <1>5 DEF NotifyInv, PushInv, DispatcherInv

LEMMA RollbackPush ==
    ASSUME NotifyInv, NEW d \in Dispatcher, Rollback(d)
    PROVE  PushInv'
<1>1. disp'[d] = Idle /\ Others(d)
    BY EndedRun DEF Rollback
<1>2. DispatcherInv(d)'
    BY <1>1 DEF DispatcherInv, Idle, Dirty
<1> QED
    BY <1>1, <1>2, PushOne DEF Rollback, db, NotifyInv, PushInv

LEMMA PushStep ==
    ASSUME NotifyInv, [Next]_vars
    PROVE  PushInv'
<1>1. ASSUME NEW d \in Dispatcher, DispatchStep(d)
      PROVE  PushInv'
    <2>1. ASSUME Send(d) \/ SendUnacknowledged(d)
          PROVE  PushInv'
        <3>1. /\ disp[d].pc = "send"
              /\ Sent(d, TRUE) \/ Sent(d, FALSE)
              /\ UNCHANGED <<row, keys>>
              /\ pushes' = Counted(pushes, {Oldest(disp[d].pending)})
            BY <2>1 DEF Send, SendUnacknowledged, db
        <3> QED
            BY <3>1, SentPush
    <2>2. ASSUME SendFails(d)
          PROVE  PushInv'
        BY <2>2, SentPush DEF SendFails, db, ghosts
    <2> QED
        BY <1>1, <2>1, <2>2, StartDispatchPush, CheckPush, CommitPush, RollbackPush
           DEF DispatchStep
<1>2. ASSUME NEW g \in Digester, StartDigest(g) \/ DigestStep(g)
      PROVE  PushInv'
    <2>1. ASSUME CommitDigest(g)
          PROVE  PushInv'
        <3>1. \A ch \in ToStamp(g) : ch \in Change /\ row[ch] \in Row /\ row[ch] # None
            BY DigestType, RowType DEF ToStamp, NotifyInv, PostInv, DigesterInv
        <3>2. \A ch \in Change :
                row'[ch] = IF ch \in ToStamp(g) THEN [row[ch] EXCEPT !.digested = TRUE] ELSE row[ch]
            BY <2>1 DEF CommitDigest
        <3>3. \A ch \in ToStamp(g) : row'[ch] \in Row /\ row'[ch].notified = row[ch].notified
            BY <3>1, <3>2 DEF Row
        <3> QED
            BY <2>1, <3>1, <3>2, <3>3, PushSame, NotifyAssumption DEF CommitDigest, ghosts
    <2>2. ASSUME ~CommitDigest(g)
          PROVE  PushInv'
        BY <1>2, <2>2, PushSame
           DEF DigestStep, StartDigest, Build, Mail, MailUnacknowledged, MailFails, RollbackDigest,
               db, ghosts
    <2> QED
        BY <2>1, <2>2
<1>3. ASSUME Tick
      PROVE  PushInv'
    BY <1>3, TickType, PushSame DEF Tick
<1>4. ASSUME NewChange
      PROVE  PushInv'
    <2>1. PICK ch \in Change, cl \in Class :
            /\ row[ch] = None
            /\ row' = [row EXCEPT ![ch] =
                        [class |-> cl, age |-> 0, notified |-> FALSE, digested |-> FALSE]]
        BY <1>4 DEF NewChange
    <2>2. \A x \in Change :
            row'[x] # None /\ row'[x].notified => row[x] # None /\ row[x].notified
        BY <2>1 DEF NotifyInv, TypeOK
    <2> QED
        BY <1>4, <2>2, NewChangeType, PushSame DEF NewChange, ghosts
<1>5. ASSUME Crash
      PROVE  PushInv'
    BY <1>5, CrashType DEF Crash, db, NotifyInv, PushInv, DispatcherInv, Idle, Dirty
<1>6. ASSUME PollWrites \/ UNCHANGED vars
      PROVE  PushInv'
    BY <1>6, PushSame DEF PollWrites, vars, db, ghosts
<1> QED
    BY <1>1, <1>2, <1>3, <1>4, <1>5, <1>6 DEF Next

-----------------------------------------------------------------------------
(* Digests.                                                                *)

\* A step that leaves digests and mails alone and of the rows at most the age.
LEMMA PostSame ==
    ASSUME NotifyInv, mails' = mails,
           \A g \in Digester : digest'[g].pc = digest[g].pc /\ digest'[g].ids = digest[g].ids,
           \A ch \in Change : row[ch] # None =>
                row'[ch] # None /\ row'[ch].class = row[ch].class,
           \A ch \in Change : row'[ch] # None /\ row'[ch].digested
                => row[ch] # None /\ row[ch].digested
    PROVE  PostInv'
<1>1. ASSUME NEW g \in Digester
      PROVE  DigesterInv(g)'
    <2>1. DigesterInv(g) /\ digest[g].ids \subseteq Change
        BY DigestType DEF NotifyInv, PostInv
    <2>2. digest'[g].pc = digest[g].pc /\ digest'[g].ids = digest[g].ids
        OBVIOUS
    <2>3. Listable(digest[g].ids)' = Listable(digest[g].ids)
        BY <2>1, <2>2 DEF Listable, DigesterInv
    <2> QED
        BY <2>1, <2>2, <2>3 DEF DigesterInv, Listable
<1> QED
    BY <1>1 DEF NotifyInv, PostInv

\* A step of one digester.
LEMMA PostOne ==
    ASSUME NotifyInv, NEW g \in Digester, DigesterInv(g)',
           \A h \in Digester : h # g => digest'[h] = digest[h],
           row' = row,
           \A ch \in Change : mails[ch] > 0 => mails'[ch] > 0,
           \A ch \in Change : mails'[ch] > 0 => row[ch] # None /\ row[ch].class.news
    PROVE  PostInv'
<1>1. ASSUME NEW h \in Digester, h # g
      PROVE  DigesterInv(h)'
    <2>1. DigesterInv(h) /\ digest[h].ids \subseteq Change
        BY DigestType DEF NotifyInv, PostInv
    <2>2. digest'[h] = digest[h]
        BY <1>1
    <2> QED
        BY <2>1, <2>2 DEF DigesterInv, Listable
<1> QED
    BY <1>1 DEF NotifyInv, PostInv

LEMMA StartDigestPost ==
    ASSUME NotifyInv, NEW g \in Digester, StartDigest(g)
    PROVE  PostInv'
<1>1. UNCHANGED <<row, mails>>
    BY DEF StartDigest, db, ghosts
<1>2. ASSUME NEW h \in Digester
      PROVE  DigesterInv(h)'
    <2>1. digest'[h] = digest[h] \/ (digest'[h].pc = "build" /\ digest'[h].ids = {})
        BY StartDigestType
    <2> QED
        BY <1>1, <2>1 DEF NotifyInv, PostInv, DigesterInv, Listable
<1> QED
    BY <1>1, <1>2 DEF NotifyInv, PostInv

LEMMA BuildPost ==
    ASSUME NotifyInv, NEW g \in Digester, Build(g)
    PROVE  PostInv'
<1>1. UNCHANGED <<row, mails>>
    BY DEF Build, db, ghosts
<1>2. DigesterInv(g)'
    <2>1. CASE digest'[g] = NoDigest
        BY <2>1 DEF DigesterInv, NoDigest
    <2>2. CASE /\ digest'[g].ids = Undigested
               /\ \/ digest'[g].pc = "mail"
                  \/ digest'[g].pc = "housekeeping" /\ Listable(Undigested) = {}
        BY <1>1, <2>2 DEF DigesterInv, Undigested, Listable
    <2> QED
        BY <2>1, <2>2, BuildType
<1> QED
    BY <1>1, <1>2, BuildType, PostOne DEF NotifyInv, PostInv

LEMMA MailPost ==
    ASSUME NotifyInv, NEW g \in Digester, Mail(g) \/ MailUnacknowledged(g) \/ MailFails(g)
    PROVE  PostInv'
<1>1. row' = row
    BY DEF Mail, MailUnacknowledged, MailFails, db
<1>2. /\ digest[g].ids \subseteq Change
      /\ \A ch \in Listable(digest[g].ids) : row[ch] # None /\ row[ch].class.news
    BY DigestType DEF NotifyInv, PostInv, DigesterInv, Listable
<1>3. \A ch \in Change : mails'[ch] > 0 => row[ch] # None /\ row[ch].class.news
    BY <1>2, MailType DEF NotifyInv, PostInv
<1>4. DigesterInv(g)'
    <2>1. CASE digest'[g] = NoDigest
        BY <2>1 DEF DigesterInv, NoDigest
    <2>2. CASE Mail(g) /\ digest'[g].pc = "mailed" /\ digest'[g].ids = digest[g].ids
        <3>1. \A ch \in Listable(digest[g].ids) : ch \in Change /\ mails'[ch] > 0
            <4>1. mails' = Counted(mails, Listable(digest[g].ids))
                BY <2>2 DEF Mail
            <4>2. Listable(digest[g].ids) \subseteq Change
                BY <1>2 DEF Listable
            <4> QED
                BY <4>1, <4>2, CountedType DEF NotifyInv, TypeOK
        <3> QED
            BY <1>1, <2>2, <3>1 DEF NotifyInv, PostInv, DigesterInv, Listable
    <2> QED
        BY <2>1, <2>2, MailType
<1> QED
    BY <1>1, <1>3, <1>4, MailType, PostOne

LEMMA CommitDigestPost ==
    ASSUME NotifyInv, NEW g \in Digester, CommitDigest(g)
    PROVE  PostInv'
<1>1. /\ digest[g].ids \subseteq Change /\ DigesterInv(g)
      /\ mails' = mails /\ digest[g].pc \in {"mailed", "housekeeping"}
    BY DigestType DEF NotifyInv, PostInv, CommitDigest, ghosts
<1>2. \A ch \in Change :
        row'[ch] = IF ch \in digest[g].ids THEN [row[ch] EXCEPT !.digested = TRUE] ELSE row[ch]
    BY DEF CommitDigest, ToStamp
<1>3. \A ch \in Change :
        /\ row'[ch] # None <=> row[ch] # None
        /\ row[ch] # None => row'[ch].class = row[ch].class
        /\ row'[ch] # None /\ row'[ch].digested
            => ch \in digest[g].ids \/ (row[ch] # None /\ row[ch].digested)
    <2> SUFFICES ASSUME NEW ch \in Change
                 PROVE  /\ row'[ch] # None <=> row[ch] # None
                        /\ row[ch] # None => row'[ch].class = row[ch].class
                        /\ row'[ch] # None /\ row'[ch].digested
                            => ch \in digest[g].ids \/ (row[ch] # None /\ row[ch].digested)
        OBVIOUS
    <2>1. ch \in digest[g].ids => row[ch] \in Row /\ row[ch] # None
        BY <1>1, RowType DEF NotifyInv, DigesterInv
    <2>2. ch \in digest[g].ids => row'[ch] \in Row /\ row'[ch].class = row[ch].class
        BY <1>2, <2>1 DEF Row
    <2> QED
        BY <1>2, <2>1, <2>2, NotifyAssumption
<1>4. \A ch \in digest[g].ids : row[ch].class.news => mails[ch] > 0
    BY <1>1 DEF DigesterInv, Listable
<1>5. \A ch \in Change :
        row'[ch] # None /\ row'[ch].class.news /\ row'[ch].digested => mails'[ch] > 0
    BY <1>1, <1>3, <1>4 DEF NotifyInv, PostInv
<1>6. ASSUME NEW h \in Digester
      PROVE  DigesterInv(h)'
    <2>1. DigesterInv(h) /\ digest[h].ids \subseteq Change
        BY DigestType DEF NotifyInv, PostInv
    <2>2. digest'[h] = NoDigest \/ digest'[h] = digest[h]
        BY EndDigestType
    <2>3. Listable(digest[h].ids)' = {ch \in digest'[h].ids : row'[ch].class.news}
        BY DEF Listable
    <2>4. CASE digest'[h] = NoDigest
        BY <2>4 DEF DigesterInv, NoDigest
    <2>5. CASE digest'[h] = digest[h]
        <3>1. Listable(digest[h].ids)' = Listable(digest[h].ids)
            BY <1>3, <2>1, <2>3, <2>5 DEF Listable, DigesterInv
        <3> QED
            BY <1>1, <1>3, <2>1, <2>5, <3>1 DEF DigesterInv
    <2> QED
        BY <2>2, <2>4, <2>5
<1>7. \A ch \in Change : mails'[ch] > 0 => row'[ch] # None /\ row'[ch].class.news
    BY <1>1, <1>3 DEF NotifyInv, PostInv
<1> QED
    BY <1>5, <1>6, <1>7 DEF PostInv

LEMMA PostStep ==
    ASSUME NotifyInv, [Next]_vars
    PROVE  PostInv'
<1>1. ASSUME NEW d \in Dispatcher, DispatchStep(d)
      PROVE  PostInv'
    <2>1. ASSUME Commit(d)
          PROVE  PostInv'
        <3>1. \A ch \in disp[d].stamps : ch \in Change /\ row[ch] \in Row /\ row[ch] # None
            BY DispType, StampsAreRows, RowType DEF NotifyInv
        <3>2. \A ch \in Change :
                row'[ch] = IF ch \in disp[d].stamps
                           THEN [row[ch] EXCEPT !.notified = TRUE] ELSE row[ch]
            BY <2>1 DEF Commit
        <3>3. \A ch \in disp[d].stamps :
                /\ row'[ch] \in Row /\ row'[ch].class = row[ch].class
                /\ row'[ch].digested = row[ch].digested
            BY <3>1, <3>2 DEF Row
        <3> QED
            BY <2>1, <3>1, <3>2, <3>3, PostSame, NotifyAssumption DEF Commit, ghosts
    <2>2. ASSUME ~Commit(d)
          PROVE  PostInv'
        <3>1. UNCHANGED <<row, digest, mails>>
            BY <1>1, <2>2
               DEF DispatchStep, StartDispatch, Check, Send, SendFails, SendUnacknowledged, Rollback,
                   db, ghosts
        <3> QED
            BY <3>1, PostSame
    <2> QED
        BY <2>1, <2>2
<1>2. ASSUME NEW g \in Digester, StartDigest(g) \/ DigestStep(g)
      PROVE  PostInv'
    <2>1. ASSUME RollbackDigest(g)
          PROVE  PostInv'
        <3>1. UNCHANGED <<row, mails>> /\ digest'[g] = NoDigest
            BY <2>1, EndDigestType DEF RollbackDigest, db, ghosts
        <3>2. DigesterInv(g)'
            BY <3>1 DEF DigesterInv, NoDigest
        <3> QED
            BY <2>1, <3>1, <3>2, EndDigestType, PostOne DEF NotifyInv, PostInv
    <2> QED
        BY <1>2, <2>1, StartDigestPost, BuildPost, MailPost, CommitDigestPost DEF DigestStep
<1>3. ASSUME Tick
      PROVE  PostInv'
    BY <1>3, TickType, PostSame DEF Tick
<1>4. ASSUME NewChange
      PROVE  PostInv'
    <2>1. PICK ch \in Change, cl \in Class :
            /\ row[ch] = None
            /\ row' = [row EXCEPT ![ch] =
                        [class |-> cl, age |-> 0, notified |-> FALSE, digested |-> FALSE]]
        BY <1>4 DEF NewChange
    <2>2. \A x \in Change :
            row'[x] # None /\ row'[x].digested => row[x] # None /\ row[x].digested
        BY <2>1 DEF NotifyInv, TypeOK
    <2> QED
        BY <1>4, <2>2, NewChangeType, PostSame DEF NewChange, ghosts
<1>5. ASSUME Crash
      PROVE  PostInv'
    BY <1>5, CrashType DEF Crash, db, NotifyInv, PostInv, DigesterInv, NoDigest, Listable
<1>6. ASSUME PollWrites \/ UNCHANGED vars
      PROVE  PostInv'
    BY <1>6, PostSame DEF PollWrites, vars, db, ghosts
<1> QED
    BY <1>1, <1>2, <1>3, <1>4, <1>5, <1>6 DEF Next

\* The state is well formed, whatever interleaves, fails or crashes: in particular
\* a session that holds the write lock has rows to write (notify/dispatch.py:97).
THEOREM NotifyTypeCorrect == Spec => []TypeOK
<1>1. Init => NotifyInv
    BY NotifyInit
<1>2. NotifyInv /\ [Next]_vars => NotifyInv'
    BY TypeStep, PushStep, PostStep DEF NotifyInv
<1>3. NotifyInv => TypeOK
    BY DEF NotifyInv
<1> QED
    BY <1>1, <1>2, <1>3, PTL DEF Spec

-----------------------------------------------------------------------------
(* Refinement: pushing implements Outbox.                                  *)

Rows == {ch \in Change : row[ch] # None}

Pushed == {ch \in Change : pushes[ch] > 0}

PushHand == [d \in Dispatcher |-> IF disp[d].pc = "send" THEN {Oldest(disp[d].pending)} ELSE {}]

\* The steps of Outbox in terms of Notify's state.
LEMMA NtfyKinds ==
    ASSUME \/ /\ Rows \subseteq Rows' /\ Rows' \subseteq Change
              /\ UNCHANGED <<PushRecorded, Pushed, PushHand>>
           \/ \E d \in Dispatcher, S \in SUBSET (Rows \ PushRecorded) :
                PushHand' = [PushHand EXCEPT ![d] = S] /\ UNCHANGED <<Rows, PushRecorded, Pushed>>
           \/ \E d \in Dispatcher :
                /\ Pushed' = Pushed \cup PushHand[d] /\ PushHand' = [PushHand EXCEPT ![d] = {}]
                /\ UNCHANGED <<Rows, PushRecorded>>
           \/ \E T \in SUBSET Dispatcher :
                /\ PushHand' = [d \in Dispatcher |-> IF d \in T THEN {} ELSE PushHand[d]]
                /\ UNCHANGED <<Rows, PushRecorded, Pushed>>
           \/ \E S \in SUBSET Pushed :
                PushRecorded' = PushRecorded \cup S /\ UNCHANGED <<Rows, Pushed, PushHand>>
    PROVE  Ntfy!Next
<1>1. ASSUME Rows \subseteq Rows', Rows' \subseteq Change,
             UNCHANGED <<PushRecorded, Pushed, PushHand>>
      PROVE  Ntfy!Offer
    <2>1. Rows' = Rows \cup Rows' /\ Rows' \in SUBSET Change
        BY <1>1
    <2> QED
        BY <1>1, <2>1 DEF Ntfy!Offer, Rows, Pushed, PushHand
<1>2. ASSUME NEW d \in Dispatcher, NEW S \in SUBSET (Rows \ PushRecorded),
             PushHand' = [PushHand EXCEPT ![d] = S], UNCHANGED <<Rows, PushRecorded, Pushed>>
      PROVE  Ntfy!Take(d)
    BY <1>2 DEF Ntfy!Take, Rows, Pushed, PushHand
<1>3. ASSUME NEW d \in Dispatcher, Pushed' = Pushed \cup PushHand[d],
             PushHand' = [PushHand EXCEPT ![d] = {}], UNCHANGED <<Rows, PushRecorded>>
      PROVE  Ntfy!Tell(d)
    BY <1>3 DEF Ntfy!Tell, Rows, Pushed, PushHand
<1>4. ASSUME NEW T \in SUBSET Dispatcher,
             PushHand' = [d \in Dispatcher |-> IF d \in T THEN {} ELSE PushHand[d]],
             UNCHANGED <<Rows, PushRecorded, Pushed>>
      PROVE  Ntfy!Drop
    BY <1>4 DEF Ntfy!Drop, Rows, Pushed, PushHand
<1>5. ASSUME NEW S \in SUBSET Pushed,
             PushRecorded' = PushRecorded \cup S, UNCHANGED <<Rows, Pushed, PushHand>>
      PROVE  Ntfy!Claim
    BY <1>5 DEF Ntfy!Claim, Rows, Pushed, PushHand
<1> QED
    BY <1>1, <1>2, <1>3, <1>4, <1>5 DEF Ntfy!Next

\* Every stamp has its key, so the keys are the whole record.
LEMMA RecordedIsKeys == NotifyInv => PushRecorded = keys
BY DEF NotifyInv, TypeOK, PushInv, PushRecorded

LEMMA NotifyStep ==
    ASSUME NotifyInv, [Next]_vars
    PROVE  NotifyInv'
BY TypeStep, PushStep, PostStep DEF NotifyInv

\* What a step of dispatcher d does to the hands.
LEMMA HandOf ==
    ASSUME NotifyInv, NEW d \in Dispatcher, Others(d)
    PROVE  PushHand' = [PushHand EXCEPT ![d] =
                IF disp'[d].pc = "send" THEN {Oldest(disp'[d].pending)} ELSE {}]
BY DEF PushHand, Others

LEMMA CheckTakes ==
    ASSUME NotifyInv, NEW d \in Dispatcher, Check(d)
    PROVE  Ntfy!Next \/ UNCHANGED Ntfy!outboxVars
<1> DEFINE ch == Oldest(disp[d].pending)
<1>1. /\ ch \in Change /\ ch \in disp[d].pending /\ Others(d)
      /\ IF Seen(d, ch) THEN disp'[d].pc = "loop"
                        ELSE disp'[d].pc = "send" /\ disp'[d].pending = disp[d].pending
    BY CheckType DEF NotifyInv
<1>2. UNCHANGED <<row, keys, pushes>> /\ disp[d].pc = "loop"
    BY DEF Check, db, ghosts
<1>3. UNCHANGED <<Rows, PushRecorded, Pushed>>
    BY <1>2 DEF Rows, PushRecorded, Pushed
<1>4. CASE Seen(d, ch)
    <2>1. PushHand' = PushHand
        BY <1>1, <1>2, <1>4 DEF PushHand, Others
    <2> QED
        BY <1>3, <2>1 DEF Ntfy!outboxVars, Rows, Pushed, PushHand
<1>5. CASE ~Seen(d, ch)
    <2>1. PushHand' = [PushHand EXCEPT ![d] = {ch}]
        BY <1>1, <1>5, HandOf
    <2>2. ch \in Rows
        BY <1>1 DEF Rows, NotifyInv, PushInv, DispatcherInv
    <2>3. ch \notin PushRecorded
        BY <1>5, RecordedIsKeys DEF Seen
    <2>4. PICK S \in SUBSET (Rows \ PushRecorded) : S = {ch}
        BY <2>2, <2>3
    <2> QED
        BY <1>3, <2>1, <2>4, NtfyKinds
<1> QED
    BY <1>4, <1>5

\* The change that is about to be sent is told, or the push fails.
LEMMA SentTells ==
    ASSUME NotifyInv, NEW d \in Dispatcher, Send(d) \/ SendFails(d) \/ SendUnacknowledged(d)
    PROVE  Ntfy!Next
<1> DEFINE ch == Oldest(disp[d].pending)
<1>1. /\ disp[d].pc = "send" /\ disp[d].pending # {} /\ UNCHANGED <<row, keys>>
      /\ Sent(d, TRUE) \/ Sent(d, FALSE)
    BY DEF Send, SendFails, SendUnacknowledged, db, NotifyInv, PushInv, DispatcherInv
<1>2. ch \in Change /\ Others(d) /\ disp'[d].pc = "loop"
    BY <1>1, SentType DEF NotifyInv
<1>3. PushHand' = [PushHand EXCEPT ![d] = {}]
    BY <1>2, HandOf
<1>4. PushHand[d] = {ch} /\ PushHand = [e \in Dispatcher |-> PushHand[e]]
    BY <1>1 DEF PushHand
<1>5. UNCHANGED <<Rows, PushRecorded>>
    BY <1>1 DEF Rows, PushRecorded
<1>6. CASE SendFails(d)
    <2>1. Pushed' = Pushed
        BY <1>6 DEF SendFails, ghosts, Pushed
    <2>2. PICK T \in SUBSET Dispatcher : T = {d}
        OBVIOUS
    <2>3. PushHand' = [e \in Dispatcher |-> IF e \in T THEN {} ELSE PushHand[e]]
        BY <1>3, <1>4, <2>2
    <2> QED
        BY <1>5, <2>1, <2>3, NtfyKinds
<1>7. CASE Send(d) \/ SendUnacknowledged(d)
    <2>1. pushes' = Counted(pushes, {ch})
        BY <1>7 DEF Send, SendUnacknowledged
    <2>2. \A x \in Change : pushes'[x] > 0 <=> (pushes[x] > 0 \/ x = ch)
        BY <2>1, CountedType DEF NotifyInv, TypeOK
    <2>3. Pushed' = Pushed \cup PushHand[d]
        BY <1>2, <1>4, <2>2 DEF Pushed
    <2> QED
        BY <1>3, <1>5, <2>3, NtfyKinds
<1> QED
    BY <1>6, <1>7

LEMMA CommitClaims ==
    ASSUME NotifyInv, NotifyInv', NEW d \in Dispatcher, Commit(d)
    PROVE  Ntfy!Next
<1>1. /\ Others(d) /\ disp'[d] = Idle /\ disp[d].pc = "loop"
      /\ keys' = keys \cup disp[d].newKeys /\ pushes' = pushes
      /\ disp[d].newKeys \subseteq Change
    BY EndedRun, DispType DEF Commit, ghosts, NotifyInv
<1>2. PushHand' = PushHand
    BY <1>1 DEF PushHand, Others, Idle
<1>3. Pushed' = Pushed /\ disp[d].newKeys \subseteq Pushed
    BY <1>1 DEF Pushed, NotifyInv, PushInv, DispatcherInv
<1>4. Rows' = Rows
    <2>1. \A ch \in disp[d].stamps : row[ch] \in Row /\ row[ch] # None
        BY StampsAreRows, DispType, RowType DEF NotifyInv
    <2>2. \A ch \in Change :
            row'[ch] = IF ch \in disp[d].stamps
                       THEN [row[ch] EXCEPT !.notified = TRUE] ELSE row[ch]
        BY DEF Commit
    <2>3. \A ch \in disp[d].stamps : ch \in Change => row'[ch] \in Row
        BY <2>1, <2>2 DEF Row
    <2> QED
        BY <2>1, <2>2, <2>3, NotifyAssumption DEF Rows
<1>5. PushRecorded = keys /\ PushRecorded' = keys'
    <2>1. (PushRecorded = keys)'
        BY RecordedIsKeys, PTL
    <2> QED
        BY <2>1, RecordedIsKeys
<1>6. PICK S \in SUBSET Pushed : S = disp[d].newKeys
    BY <1>3
<1> QED
    BY <1>1, <1>2, <1>3, <1>4, <1>5, <1>6, NtfyKinds

LEMMA NtfyStep ==
    ASSUME NotifyInv, NotifyInv', [Next]_vars
    PROVE  [Ntfy!Next]_(Ntfy!outboxVars)
<1>1. PushRecorded = keys /\ PushRecorded' = keys'
    <2>1. (PushRecorded = keys)'
        BY RecordedIsKeys, PTL
    <2> QED
        BY <2>1, RecordedIsKeys
<1>2. ASSUME UNCHANGED <<keys, pushes, PushHand>>,
             \A ch \in Change : row'[ch] # None <=> row[ch] # None
      PROVE  UNCHANGED Ntfy!outboxVars
    <2>1. UNCHANGED <<Rows, PushRecorded, Pushed, PushHand>>
        BY <1>1, <1>2 DEF Rows, Pushed
    <2> QED
        BY <2>1 DEF Ntfy!outboxVars, Rows, Pushed, PushHand
<1>3. disp' = disp => PushHand' = PushHand
    BY DEF PushHand
<1>4. ASSUME NEW d \in Dispatcher, DispatchStep(d)
      PROVE  Ntfy!Next \/ UNCHANGED Ntfy!outboxVars
    <2>1. ASSUME StartDispatch(d) \/ Rollback(d)
          PROVE  UNCHANGED Ntfy!outboxVars
        <3>1. /\ Others(d) /\ disp[d].pc \in {"idle", "loop"} /\ disp'[d].pc \in {"idle", "loop"}
            <4>1. CASE StartDispatch(d)
                BY <4>1, StartDispatchType DEF StartDispatch
            <4>2. CASE Rollback(d)
                <5>1. disp'[d] = Idle /\ Others(d)
                    BY <4>2, EndedRun DEF Rollback
                <5> QED
                    BY <4>2, <5>1 DEF Rollback, Idle
            <4> QED
                BY <2>1, <4>1, <4>2
        <3>2. PushHand' = PushHand
            BY <3>1 DEF PushHand, Others
        <3>3. UNCHANGED <<row, keys, pushes>>
            BY <2>1 DEF StartDispatch, Rollback, db, ghosts
        <3> QED
            BY <1>2, <3>2, <3>3
    <2> QED
        BY <1>4, <2>1, CheckTakes, SentTells, CommitClaims DEF DispatchStep
<1>5. ASSUME NEW g \in Digester, StartDigest(g) \/ DigestStep(g)
      PROVE  UNCHANGED Ntfy!outboxVars
    <2>1. UNCHANGED <<keys, disp, pushes>>
        BY <1>5
           DEF DigestStep, StartDigest, Build, Mail, MailUnacknowledged, MailFails, CommitDigest,
               RollbackDigest, db, ghosts
    <2>2. \A ch \in Change : row'[ch] # None <=> row[ch] # None
        <3>1. CASE CommitDigest(g)
            <4>1. \A ch \in digest[g].ids : ch \in Change /\ row[ch] \in Row /\ row[ch] # None
                BY DigestType, RowType DEF NotifyInv, PostInv, DigesterInv
            <4>2. \A ch \in Change :
                    row'[ch] = IF ch \in digest[g].ids
                               THEN [row[ch] EXCEPT !.digested = TRUE] ELSE row[ch]
                BY <3>1 DEF CommitDigest, ToStamp
            <4>3. \A ch \in digest[g].ids : row'[ch] \in Row
                BY <4>1, <4>2 DEF Row
            <4> QED
                BY <4>1, <4>2, <4>3, NotifyAssumption
        <3>2. CASE ~CommitDigest(g)
            BY <1>5, <3>2
               DEF DigestStep, StartDigest, Build, Mail, MailUnacknowledged, MailFails,
                   RollbackDigest, db
        <3> QED
            BY <3>1, <3>2
    <2> QED
        BY <1>2, <1>3, <2>1, <2>2
<1>6. ASSUME Tick
      PROVE  UNCHANGED Ntfy!outboxVars
    BY <1>2, <1>3, <1>6, TickType DEF Tick
<1>7. ASSUME NewChange
      PROVE  Ntfy!Next
    <2>1. Rows \subseteq Rows' /\ Rows' \subseteq Change
        BY <1>7, NewChangeType, NotifyAssumption DEF Rows, NotifyInv, TypeOK
    <2>2. UNCHANGED <<PushRecorded, Pushed, PushHand>>
        BY <1>1, <1>3, <1>7 DEF NewChange, ghosts, Pushed
    <2> QED
        BY <2>1, <2>2, NtfyKinds
<1>8. ASSUME Crash
      PROVE  Ntfy!Next
    <2>1. PushHand' = [d \in Dispatcher |-> IF d \in Dispatcher THEN {} ELSE PushHand[d]]
        BY <1>8, CrashType DEF PushHand, Idle
    <2>2. UNCHANGED <<Rows, PushRecorded, Pushed>>
        BY <1>1, <1>8 DEF Crash, db, Rows, Pushed
    <2> QED
        BY <2>1, <2>2, NtfyKinds
<1>9. ASSUME PollWrites \/ UNCHANGED vars
      PROVE  UNCHANGED Ntfy!outboxVars
    BY <1>2, <1>3, <1>9 DEF PollWrites, vars, db, ghosts
<1> QED
    BY <1>4, <1>5, <1>6, <1>7, <1>8, <1>9 DEF Next

\* Whatever dispatchers and digesters interleave, fail or lose in a crash, pushes are
\* made and recorded as Outbox allows: a run sends nothing that a committed record
\* covers when it looks, and records nothing that ntfy did not take
\* (notify/dispatch.py:97-143).
THEOREM PushesImplementOutbox == Spec => PushesAreOutbox
<1>1. Init => NotifyInv
    BY NotifyInit
<1>2. NotifyInv /\ [Next]_vars => NotifyInv'
    BY NotifyStep
<1>3. Init => Ntfy!Init
    BY DEF Init, Ntfy!Init, PushRecorded, Idle
<1>4. NotifyInv /\ NotifyInv' /\ [Next]_vars => [Ntfy!Next]_(Ntfy!outboxVars)
    BY NtfyStep
<1> QED
    BY <1>1, <1>2, <1>3, <1>4, PTL DEF Spec, PushesAreOutbox, Ntfy!Spec

-----------------------------------------------------------------------------
(* Refinement: mailing digests implements Outbox.                          *)

News == {ch \in Change : row[ch] # None /\ row[ch].class.news}

Stamped == {ch \in Change : row[ch] # None /\ row[ch].class.news /\ row[ch].digested}

Mailed == {ch \in Change : mails[ch] > 0}

MailHand == [g \in Digester |-> IF digest[g].pc = "mail" THEN Listable(digest[g].ids) ELSE {}]

\* The steps of Outbox in terms of Notify's state.
LEMMA PostKinds ==
    ASSUME \/ /\ News \subseteq News' /\ News' \subseteq Change
              /\ UNCHANGED <<Stamped, Mailed, MailHand>>
           \/ \E g \in Digester, S \in SUBSET (News \ Stamped) :
                MailHand' = [MailHand EXCEPT ![g] = S] /\ UNCHANGED <<News, Stamped, Mailed>>
           \/ \E g \in Digester :
                /\ Mailed' = Mailed \cup MailHand[g] /\ MailHand' = [MailHand EXCEPT ![g] = {}]
                /\ UNCHANGED <<News, Stamped>>
           \/ \E T \in SUBSET Digester :
                /\ MailHand' = [g \in Digester |-> IF g \in T THEN {} ELSE MailHand[g]]
                /\ UNCHANGED <<News, Stamped, Mailed>>
           \/ \E S \in SUBSET Mailed :
                Stamped' = Stamped \cup S /\ UNCHANGED <<News, Mailed, MailHand>>
    PROVE  Post!Next
<1>1. ASSUME News \subseteq News', News' \subseteq Change,
             UNCHANGED <<Stamped, Mailed, MailHand>>
      PROVE  Post!Offer
    <2>1. News' = News \cup News' /\ News' \in SUBSET Change
        BY <1>1
    <2> QED
        BY <1>1, <2>1 DEF Post!Offer, News, Stamped, Mailed, MailHand
<1>2. ASSUME NEW g \in Digester, NEW S \in SUBSET (News \ Stamped),
             MailHand' = [MailHand EXCEPT ![g] = S], UNCHANGED <<News, Stamped, Mailed>>
      PROVE  Post!Take(g)
    BY <1>2 DEF Post!Take, News, Stamped, Mailed, MailHand
<1>3. ASSUME NEW g \in Digester, Mailed' = Mailed \cup MailHand[g],
             MailHand' = [MailHand EXCEPT ![g] = {}], UNCHANGED <<News, Stamped>>
      PROVE  Post!Tell(g)
    BY <1>3 DEF Post!Tell, News, Stamped, Mailed, MailHand
<1>4. ASSUME NEW T \in SUBSET Digester,
             MailHand' = [g \in Digester |-> IF g \in T THEN {} ELSE MailHand[g]],
             UNCHANGED <<News, Stamped, Mailed>>
      PROVE  Post!Drop
    BY <1>4 DEF Post!Drop, News, Stamped, Mailed, MailHand
<1>5. ASSUME NEW S \in SUBSET Mailed,
             Stamped' = Stamped \cup S, UNCHANGED <<News, Mailed, MailHand>>
      PROVE  Post!Claim
    BY <1>5 DEF Post!Claim, News, Stamped, Mailed, MailHand
<1> QED
    BY <1>1, <1>2, <1>3, <1>4, <1>5 DEF Post!Next

\* A step that keeps the classes and the stamps of the rows keeps what they hold.
LEMMA NewsSame ==
    ASSUME NotifyInv,
           \A ch \in Change :
                /\ row'[ch] # None <=> row[ch] # None
                /\ row[ch] # None => /\ row'[ch].class = row[ch].class
                                     /\ row'[ch].digested = row[ch].digested
    PROVE  UNCHANGED <<News, Stamped>>
BY DEF News, Stamped

\* What a step of digester g does to the hands.
LEMMA MailHandOf ==
    ASSUME NEW g \in Digester, \A h \in Digester : h # g => digest'[h] = digest[h],
           UNCHANGED row
    PROVE  MailHand' = [MailHand EXCEPT ![g] =
                IF digest'[g].pc = "mail" THEN {ch \in digest'[g].ids : row[ch].class.news} ELSE {}]
BY DEF MailHand, Listable

LEMMA BuildTakes ==
    ASSUME NotifyInv, NEW g \in Digester, Build(g)
    PROVE  Post!Next
<1>1. UNCHANGED <<row, mails>>
    BY DEF Build, db, ghosts
<1>2. UNCHANGED <<News, Stamped, Mailed>>
    BY <1>1 DEF News, Stamped, Mailed
<1>3. PICK S \in SUBSET (News \ Stamped) :
        S = IF digest'[g].pc = "mail" THEN {ch \in digest'[g].ids : row[ch].class.news} ELSE {}
    <2>1. CASE digest'[g].pc = "mail"
        <3>1. digest'[g].ids = Undigested
            BY <2>1, BuildType DEF NoDigest
        <3>2. {ch \in Undigested : row[ch].class.news} \subseteq News \ Stamped
            BY DEF Undigested, News, Stamped
        <3> QED
            BY <2>1, <3>1, <3>2
    <2> QED
        BY <2>1
<1>4. MailHand' = [MailHand EXCEPT ![g] = S]
    BY <1>1, <1>3, BuildType, MailHandOf
<1> QED
    BY <1>2, <1>4, PostKinds

LEMMA MailTells ==
    ASSUME NotifyInv, NEW g \in Digester, Mail(g) \/ MailUnacknowledged(g) \/ MailFails(g)
    PROVE  Post!Next
<1>1. row' = row /\ digest[g].pc = "mail"
    BY DEF Mail, MailUnacknowledged, MailFails, db
<1>2. UNCHANGED <<News, Stamped>>
    BY <1>1 DEF News, Stamped
<1>3. digest'[g].pc # "mail"
    BY MailType DEF NoDigest
<1>4. MailHand' = [MailHand EXCEPT ![g] = {}]
    BY <1>1, <1>3, MailType, MailHandOf
<1>5. MailHand[g] = Listable(digest[g].ids) /\ MailHand = [h \in Digester |-> MailHand[h]]
    BY <1>1 DEF MailHand
<1>6. CASE MailFails(g)
    <2>1. Mailed' = Mailed
        BY <1>6, MailType DEF Mailed
    <2>2. PICK T \in SUBSET Digester : T = {g}
        OBVIOUS
    <2>3. MailHand' = [h \in Digester |-> IF h \in T THEN {} ELSE MailHand[h]]
        BY <1>4, <1>5, <2>2
    <2> QED
        BY <1>2, <2>1, <2>3, PostKinds
<1>7. CASE ~MailFails(g)
    <2>1. Listable(digest[g].ids) \subseteq Change
        BY DigestType DEF Listable, NotifyInv
    <2>2. Mailed' = Mailed \cup MailHand[g]
        BY <1>5, <1>7, <2>1, MailType DEF Mailed
    <2> QED
        BY <1>2, <1>4, <2>2, PostKinds
<1> QED
    BY <1>6, <1>7

LEMMA CommitDigestClaims ==
    ASSUME NotifyInv, NEW g \in Digester, CommitDigest(g)
    PROVE  Post!Next
<1>1. /\ digest[g].ids \subseteq Change /\ DigesterInv(g)
      /\ mails' = mails /\ digest[g].pc \in {"mailed", "housekeeping"}
    BY DigestType DEF NotifyInv, PostInv, CommitDigest, ghosts
<1>2. \A ch \in Change :
        /\ ch \notin digest[g].ids => row'[ch] = row[ch]
        /\ ch \in digest[g].ids =>
             /\ row[ch] # None /\ row'[ch] # None
             /\ row'[ch].class = row[ch].class /\ row'[ch].digested = TRUE
    <2> SUFFICES ASSUME NEW ch \in Change
                 PROVE  /\ ch \notin digest[g].ids => row'[ch] = row[ch]
                        /\ ch \in digest[g].ids =>
                             /\ row[ch] # None /\ row'[ch] # None
                             /\ row'[ch].class = row[ch].class /\ row'[ch].digested = TRUE
        OBVIOUS
    <2>1. row'[ch] = IF ch \in digest[g].ids THEN [row[ch] EXCEPT !.digested = TRUE] ELSE row[ch]
        BY DEF CommitDigest, ToStamp
    <2>2. ch \in digest[g].ids => row[ch] \in Row /\ row[ch] # None
        BY <1>1, RowType DEF NotifyInv, DigesterInv
    <2>3. ch \in digest[g].ids =>
            row'[ch] \in Row /\ row'[ch].class = row[ch].class /\ row'[ch].digested = TRUE
        BY <2>1, <2>2 DEF Row
    <2> QED
        BY <2>1, <2>2, <2>3, NotifyAssumption
<1>3. Mailed' = Mailed /\ News' = News
    BY <1>1, <1>2 DEF Mailed, News
<1>4. PICK S \in SUBSET Mailed : S = Listable(digest[g].ids)
    BY <1>1 DEF DigesterInv, Mailed, Listable
<1>5. Stamped' = Stamped \cup S
    BY <1>1, <1>2, <1>4 DEF Stamped, Listable
<1>6. MailHand' = MailHand
    <2>1. digest'[g] = NoDigest /\ \A h \in Digester : h # g => digest'[h] = digest[h]
        BY EndDigestType
    <2>2. \A h \in Digester : digest[h].ids \subseteq Change
        BY DigestType DEF NotifyInv
    <2>3. \A h \in Digester : Listable(digest[h].ids)' = {ch \in digest'[h].ids : row'[ch].class.news}
        BY DEF Listable
    <2>4. ASSUME NEW h \in Digester
          PROVE  MailHand'[h] = MailHand[h]
        <3>1. CASE h = g
            BY <1>1, <2>1, <3>1 DEF MailHand, NoDigest
        <3>2. CASE h # g
            <4>1. \A ch \in digest[h].ids : row'[ch].class.news = row[ch].class.news
                BY <1>2, <2>2
            <4>2. {ch \in digest[h].ids : row'[ch].class.news} = {ch \in digest[h].ids : row[ch].class.news}
                BY <4>1
            <4> QED
                BY <2>1, <3>2, <4>2 DEF MailHand, Listable
        <3> QED
            BY <3>1, <3>2
    <2> QED
        BY <2>4 DEF MailHand
<1> QED
    BY <1>3, <1>4, <1>5, <1>6, PostKinds

\* The digests go on as they are, and the rows keep what they hold.
LEMMA PostStutters ==
    ASSUME NotifyInv, mails' = mails,
           \A g \in Digester : digest'[g].pc = digest[g].pc /\ digest'[g].ids = digest[g].ids,
           \A ch \in Change :
                /\ row'[ch] # None <=> row[ch] # None
                /\ row[ch] # None => /\ row'[ch].class = row[ch].class
                                     /\ row'[ch].digested = row[ch].digested
    PROVE  UNCHANGED Post!outboxVars
<1>1. UNCHANGED <<News, Stamped>>
    BY NewsSame
<1>2. Mailed' = Mailed
    BY DEF Mailed
<1>3. ASSUME NEW g \in Digester
      PROVE  MailHand'[g] = MailHand[g]
    <2>1. \A ch \in digest[g].ids : ch \in Change /\ row[ch] # None
        BY DigestType DEF NotifyInv, PostInv, DigesterInv
    <2>2. {ch \in digest[g].ids : row'[ch].class.news} = {ch \in digest[g].ids : row[ch].class.news}
        BY <2>1
    <2>3. Listable(digest[g].ids)' = {ch \in digest'[g].ids : row'[ch].class.news}
        BY DEF Listable
    <2> QED
        BY <2>2, <2>3 DEF MailHand, Listable
<1>4. MailHand' = MailHand
    BY <1>3 DEF MailHand
<1> QED
    BY <1>1, <1>2, <1>4 DEF Post!outboxVars, News, Stamped, Mailed, MailHand

LEMMA PostRefines ==
    ASSUME NotifyInv, [Next]_vars
    PROVE  [Post!Next]_(Post!outboxVars)
<1>1. ASSUME NEW d \in Dispatcher, DispatchStep(d)
      PROVE  UNCHANGED Post!outboxVars
    <2>1. UNCHANGED <<digest, mails>>
        BY <1>1
           DEF DispatchStep, StartDispatch, Check, Send, SendFails, SendUnacknowledged, Commit,
               Rollback, db, ghosts
    <2>2. CASE Commit(d)
        <3>1. \A ch \in disp[d].stamps : ch \in Change /\ row[ch] \in Row /\ row[ch] # None
            BY DispType, StampsAreRows, RowType DEF NotifyInv
        <3>2. \A ch \in Change :
                row'[ch] = IF ch \in disp[d].stamps
                           THEN [row[ch] EXCEPT !.notified = TRUE] ELSE row[ch]
            BY <2>2 DEF Commit
        <3>3. \A ch \in disp[d].stamps :
                /\ row'[ch] \in Row /\ row'[ch].class = row[ch].class
                /\ row'[ch].digested = row[ch].digested
            BY <3>1, <3>2 DEF Row
        <3> QED
            BY <2>1, <3>1, <3>2, <3>3, PostStutters, NotifyAssumption
    <2>3. CASE ~Commit(d)
        <3>1. row' = row
            BY <1>1, <2>3
               DEF DispatchStep, StartDispatch, Check, Send, SendFails, SendUnacknowledged,
                   Rollback, db
        <3> QED
            BY <2>1, <3>1, PostStutters
    <2> QED
        BY <2>2, <2>3
<1>2. ASSUME NEW g \in Digester, StartDigest(g)
      PROVE  UNCHANGED Post!outboxVars
    <2>1. UNCHANGED <<row, mails>> /\ digest[g].pc = "idle"
        BY <1>2 DEF StartDigest, db, ghosts
    <2>2. PICK force \in BOOLEAN :
            \/ digest' = digest
            \/ digest' = [digest EXCEPT ![g] =
                 [NoDigest EXCEPT !.pc = "build", !.already = 0 \in digestKeys, !.force = force]]
        BY <1>2 DEF StartDigest
    <2>3. [NoDigest EXCEPT !.pc = "build", !.already = 0 \in digestKeys, !.force = force].pc = "build"
        BY DEF NoDigest
    <2>4. /\ digest'[g].pc # "mail"
          /\ \A h \in Digester : h # g => digest'[h] = digest[h]
        BY <2>1, <2>2, <2>3, DigestType DEF NotifyInv
    <2>5. ASSUME NEW h \in Digester
          PROVE  (IF digest'[h].pc = "mail" THEN Listable(digest[h].ids)' ELSE {})
                 = IF digest[h].pc = "mail" THEN Listable(digest[h].ids) ELSE {}
        <3>1. CASE h = g
            BY <2>1, <2>4, <3>1
        <3>2. CASE h # g
            BY <2>1, <2>4, <3>2 DEF Listable
        <3> QED
            BY <3>1, <3>2
    <2>6. MailHand' = MailHand
        BY <2>5 DEF MailHand
    <2> QED
        BY <2>1, <2>6 DEF Post!outboxVars, News, Stamped, Mailed, MailHand
<1>3. ASSUME NEW g \in Digester, RollbackDigest(g)
      PROVE  UNCHANGED Post!outboxVars
    <2>1. UNCHANGED <<row, mails>> /\ digest[g].pc \in {"mailed", "housekeeping"}
        BY <1>3 DEF RollbackDigest, db, ghosts
    <2>2. digest'[g] = NoDigest /\ \A h \in Digester : h # g => digest'[h] = digest[h]
        BY <1>3, EndDigestType
    <2>3. digest'[g].pc # "mail" /\ digest[g].pc # "mail"
        BY <2>1, <2>2 DEF NoDigest
    <2>4. ASSUME NEW h \in Digester
          PROVE  (IF digest'[h].pc = "mail" THEN Listable(digest[h].ids)' ELSE {})
                 = IF digest[h].pc = "mail" THEN Listable(digest[h].ids) ELSE {}
        <3>1. CASE h = g
            BY <2>3, <3>1
        <3>2. CASE h # g
            BY <2>1, <2>2, <3>2 DEF Listable
        <3> QED
            BY <3>1, <3>2
    <2>5. MailHand' = MailHand
        BY <2>4 DEF MailHand
    <2> QED
        BY <2>1, <2>5 DEF Post!outboxVars, News, Stamped, Mailed, MailHand
<1>4. ASSUME NEW g \in Digester, DigestStep(g)
      PROVE  Post!Next \/ UNCHANGED Post!outboxVars
    BY <1>3, <1>4, BuildTakes, MailTells, CommitDigestClaims DEF DigestStep
<1>5. ASSUME Tick
      PROVE  UNCHANGED Post!outboxVars
    BY <1>5, TickType, PostStutters DEF Tick
<1>6. ASSUME NewChange
      PROVE  Post!Next
    <2>1. PICK ch \in Change, cl \in Class :
            /\ row[ch] = None
            /\ row' = [row EXCEPT ![ch] =
                        [class |-> cl, age |-> 0, notified |-> FALSE, digested |-> FALSE]]
        BY <1>6 DEF NewChange
    <2>2. UNCHANGED <<digest, mails>>
        BY <1>6 DEF NewChange, ghosts
    <2>3. \A x \in Change : row[x] # None => row'[x] = row[x]
        BY <1>6, NewChangeType
    <2>4. \A x \in Change : row[x] = None => (row'[x] # None => row'[x].digested = FALSE)
        BY <2>1 DEF NotifyInv, TypeOK
    <2>5. Stamped' = Stamped
        BY <2>3, <2>4 DEF Stamped
    <2>6. MailHand' = MailHand
        <3>1. \A g \in Digester : \A x \in digest[g].ids : x \in Change /\ row[x] # None
            BY DigestType DEF NotifyInv, PostInv, DigesterInv
        <3>2. \A g \in Digester :
                {x \in digest[g].ids : row'[x].class.news} = {x \in digest[g].ids : row[x].class.news}
            BY <2>3, <3>1
        <3>3. \A g \in Digester : Listable(digest[g].ids)' = {x \in digest'[g].ids : row'[x].class.news}
            BY DEF Listable
        <3> QED
            BY <2>2, <3>2, <3>3 DEF MailHand, Listable
    <2>7. News \subseteq News' /\ News' \subseteq Change
        BY <2>3 DEF News
    <2> QED
        BY <2>2, <2>5, <2>6, <2>7, PostKinds DEF Mailed
<1>7. ASSUME Crash
      PROVE  Post!Next
    <2>1. UNCHANGED <<row, mails>> /\ \A g \in Digester : digest'[g] = NoDigest
        BY <1>7, CrashType DEF Crash, db
    <2>2. MailHand' = [g \in Digester |-> IF g \in Digester THEN {} ELSE MailHand[g]]
        BY <2>1 DEF MailHand, NoDigest
    <2>3. UNCHANGED <<News, Stamped, Mailed>>
        BY <2>1 DEF News, Stamped, Mailed
    <2> QED
        BY <2>2, <2>3, PostKinds
<1>8. ASSUME PollWrites \/ UNCHANGED vars
      PROVE  UNCHANGED Post!outboxVars
    BY <1>8, PostStutters DEF PollWrites, vars, db, ghosts
<1> QED
    BY <1>1, <1>2, <1>4, <1>5, <1>6, <1>7, <1>8 DEF Next

\* Whatever digesters and polls interleave, fail or lose in a crash, digests are mailed
\* and stamped as Outbox allows: no change worth listing is stamped that no accepted
\* mail listed, and no run takes up what is stamped already (notify/digest.py:165-215).
THEOREM DigestsImplementOutbox == Spec => DigestsAreOutbox
<1>1. Init => NotifyInv
    BY NotifyInit
<1>2. NotifyInv /\ [Next]_vars => NotifyInv'
    BY NotifyStep
<1>3. Init => Post!Init
    BY DEF Init, Post!Init, NoDigest
<1>4. NotifyInv /\ [Next]_vars => [Post!Next]_(Post!outboxVars)
    BY PostRefines
<1> QED
    BY <1>1, <1>2, <1>3, <1>4, PTL DEF Spec, DigestsAreOutbox, Post!Spec

-----------------------------------------------------------------------------
(* Every push is accounted for.                                            *)

\* The dispatchers whose sessions hold the change's key.
Holders(ch) == {d \in Dispatcher : ch \in disp[d].newKeys}

\* A dispatcher about to send does not hold the change's key already, so that the
\* set of holders grows with the push.
AccountInv ==
    /\ PushesAccounted
    /\ \A d \in Dispatcher : disp[d].pc = "send" => Oldest(disp[d].pending) \notin disp[d].newKeys

\* Dispatchers are few: taking one in or out moves their number by one.
LEMMA HoldersFinite ==
    ASSUME NEW S \in SUBSET Dispatcher
    PROVE  /\ IsFiniteSet(S) /\ Cardinality(S) \in Nat
           /\ \A d \in Dispatcher :
                /\ d \notin S => Cardinality(S \cup {d}) = Cardinality(S) + 1
                /\ d \in S => Cardinality(S \ {d}) = Cardinality(S) - 1 /\ Cardinality(S) > 0
<1>1. IsFiniteSet({"poll", "flush"})
    <2>1. IsFiniteSet({} \cup {"poll"})
        BY FS_AddElement, FS_EmptySet
    <2>2. IsFiniteSet(({} \cup {"poll"}) \cup {"flush"})
        BY <2>1, FS_AddElement
    <2>3. {"poll", "flush"} = ({} \cup {"poll"}) \cup {"flush"}
        OBVIOUS
    <2> QED
        BY <2>2, <2>3
<1>2. IsFiniteSet(S)
    BY <1>1, FS_Subset, NotifyAssumption
<1>3. Cardinality(S) \in Nat
    BY <1>2, FS_CardinalityType
<1>4. ASSUME NEW d \in S
      PROVE  Cardinality(S \ {d}) = Cardinality(S) - 1 /\ Cardinality(S) > 0
    <2>1. Cardinality(S \ {d}) = Cardinality(S) - 1
        BY <1>2, FS_RemoveElement
    <2>2. IsFiniteSet(S \ {d})
        BY <1>2, FS_Subset
    <2>3. Cardinality(S \ {d}) \in Nat
        BY <2>2, FS_CardinalityType
    <2> QED
        BY <1>3, <2>1, <2>3
<1>5. \A d \in Dispatcher : d \notin S => Cardinality(S \cup {d}) = Cardinality(S) + 1
    BY <1>2, FS_AddElement
<1> QED
    BY <1>2, <1>3, <1>4, <1>5

\* The number of holders after the sessions changed.
LEMMA InFlightAfter ==
    ASSUME NEW ch \in Change
    PROVE  /\ InFlight(ch) = Cardinality(Holders(ch)) /\ InFlight(ch) \in Nat
           /\ InFlight(ch)' = Cardinality({d \in Dispatcher : ch \in disp'[d].newKeys})
<1>1. Holders(ch) \in SUBSET Dispatcher
    BY DEF Holders
<1>2. InFlight(ch) = Cardinality(Holders(ch))
    BY DEF InFlight, Holders
<1>3. InFlight(ch)' = Cardinality({d \in Dispatcher : ch \in disp'[d].newKeys})
    BY DEF InFlight
<1> QED
    BY <1>1, <1>2, <1>3, HoldersFinite

\* Nobody's keys changed as far as ch goes.
LEMMA InFlightSame ==
    ASSUME NEW ch \in Change,
           \A d \in Dispatcher : ch \in disp'[d].newKeys <=> ch \in disp[d].newKeys
    PROVE  InFlight(ch)' = InFlight(ch)
<1>1. {d \in Dispatcher : ch \in disp'[d].newKeys} = {d \in Dispatcher : ch \in disp[d].newKeys}
    OBVIOUS
<1> QED
    BY <1>1 DEF InFlight

\* One dispatcher more, or one less, holds the key of ch.
LEMMA InFlightMoves ==
    ASSUME NEW ch \in Change, NEW d \in Dispatcher, Others(d)
    PROVE  /\ ch \notin disp[d].newKeys /\ ch \in disp'[d].newKeys
                => InFlight(ch)' = InFlight(ch) + 1
           /\ ch \in disp[d].newKeys /\ ch \notin disp'[d].newKeys
                => InFlight(ch)' = InFlight(ch) - 1 /\ InFlight(ch) > 0
<1> DEFINE After == {e \in Dispatcher : ch \in disp'[e].newKeys}
<1>1. InFlight(ch) = Cardinality(Holders(ch)) /\ InFlight(ch)' = Cardinality(After)
    BY InFlightAfter
<1>2. Holders(ch) \in SUBSET Dispatcher
    BY DEF Holders
<1>3. ASSUME ch \notin disp[d].newKeys, ch \in disp'[d].newKeys
      PROVE  d \notin Holders(ch) /\ After = Holders(ch) \cup {d}
    BY <1>3 DEF Holders, Others
<1>4. ASSUME ch \in disp[d].newKeys, ch \notin disp'[d].newKeys
      PROVE  d \in Holders(ch) /\ After = Holders(ch) \ {d}
    BY <1>4 DEF Holders, Others
<1> HIDE DEF After
<1> QED
    BY <1>1, <1>2, <1>3, <1>4, HoldersFinite

\* What the observers count of a change, numbers.
LEMMA CountTypes ==
    ASSUME TypeOK, NEW ch \in Change
    PROVE  pushes[ch] \in 0..MaxCount /\ lost[ch] \in 0..MaxCount /\ MaxCount \in Nat
BY NotifyAssumption DEF TypeOK

\* What Counted leaves at x, below the cap and at it.
LEMMA CountedAt ==
    ASSUME NEW f \in [Change -> 0..MaxCount], NEW S, NEW x \in Change
    PROVE  /\ x \notin S => Counted(f, S)[x] = f[x]
           /\ x \in S => /\ f[x] + 1 <= MaxCount => Counted(f, S)[x] = f[x] + 1
                         /\ f[x] = MaxCount => Counted(f, S)[x] = MaxCount
BY NotifyAssumption DEF Counted, Capped

\* A push that ntfy took: its key is pending, or the answer is lost.
LEMMA SentAccounts ==
    ASSUME NotifyInv, AccountInv, NEW d \in Dispatcher, Send(d) \/ SendUnacknowledged(d)
    PROVE  AccountInv'
<1> DEFINE ch == Oldest(disp[d].pending)
<1>1. /\ disp[d].pc = "send" /\ keys' = keys /\ ch \in Change /\ Others(d)
      /\ disp'[d].pc = "loop" /\ ch \notin disp[d].newKeys
      /\ disp[d].pending # {}
    BY SentType DEF Send, SendUnacknowledged, NotifyInv, PushInv, DispatcherInv, AccountInv, db
<1>2. Send(d) => disp'[d].newKeys = disp[d].newKeys \cup {ch}
    BY <1>1, SentType DEF Send, NotifyInv
<1>3. SendUnacknowledged(d) => disp'[d].newKeys = disp[d].newKeys
    BY <1>1, SentType DEF SendUnacknowledged, NotifyInv
<1>4. pushes' = Counted(pushes, {ch})
    BY DEF Send, SendUnacknowledged
<1>5. /\ Send(d) => lost' = lost
      /\ SendUnacknowledged(d) => lost' = Counted(lost, {ch})
    BY DEF Send, SendUnacknowledged
<1> HIDE DEF ch
<1>6. ASSUME NEW c \in Change, pushes'[c] < MaxCount
      PROVE  pushes'[c] = lost'[c] + InFlight(c)' + (IF c \in keys' THEN 1 ELSE 0)
    <2>1. /\ pushes \in [Change -> 0..MaxCount] /\ lost \in [Change -> 0..MaxCount]
          /\ pushes[c] \in 0..MaxCount /\ lost[c] \in 0..MaxCount /\ MaxCount \in Nat
          /\ InFlight(c) \in Nat
        BY CountTypes, InFlightAfter DEF NotifyInv, TypeOK
    <2>2. c # ch => pushes'[c] = pushes[c] /\ lost'[c] = lost[c]
        BY <1>4, <1>5, <2>1, CountedAt
    <2>3. c = ch => pushes[c] < MaxCount /\ pushes'[c] = pushes[c] + 1
        BY <1>4, <1>6, <2>1, CountedAt
    <2>4. pushes[c] < MaxCount
        BY <1>6, <2>1, <2>2, <2>3
    <2>5. pushes[c] = lost[c] + InFlight(c) + (IF c \in keys THEN 1 ELSE 0)
        BY <2>4 DEF AccountInv, PushesAccounted
    <2>6. CASE c # ch
        <3>1. InFlight(c)' = InFlight(c)
            BY <1>1, <1>2, <1>3, <2>6, InFlightSame DEF Others
        <3> QED
            BY <1>1, <2>2, <2>5, <2>6, <3>1
    <2>7. CASE c = ch /\ Send(d)
        <3>1. InFlight(c)' = InFlight(c) + 1
            BY <1>1, <1>2, <2>7, InFlightMoves
        <3> QED
            BY <1>1, <1>5, <2>1, <2>3, <2>5, <2>7, <3>1
    <2>8. CASE c = ch /\ SendUnacknowledged(d)
        <3>1. InFlight(c)' = InFlight(c)
            BY <1>1, <1>3, <2>8, InFlightSame DEF Others
        <3>2. lost[c] + 1 <= MaxCount
            BY <2>1, <2>4, <2>5
        <3>3. lost'[c] = lost[c] + 1
            BY <1>5, <2>1, <2>8, <3>2, CountedAt
        <3> QED
            BY <1>1, <2>1, <2>3, <2>5, <2>8, <3>1, <3>3
    <2> QED
        BY <2>6, <2>7, <2>8
<1>7. ASSUME NEW e \in Dispatcher, disp'[e].pc = "send"
      PROVE  Oldest(disp'[e].pending) \notin disp'[e].newKeys
    <2>1. disp'[e] = disp[e]
        BY <1>1, <1>7 DEF Others
    <2> QED
        BY <1>7, <2>1 DEF AccountInv
<1>8. PushesAccounted'
    BY <1>6 DEF PushesAccounted
<1> QED
    BY <1>7, <1>8 DEF AccountInv, Oldest

\* A session that ends leaves each of its keys committed or its pushes lost.
LEMMA EndAccounts ==
    ASSUME NotifyInv, AccountInv, NEW d \in Dispatcher, Commit(d) \/ Rollback(d)
    PROVE  AccountInv'
<1>1. pushes' = pushes /\ disp'[d] = Idle /\ Others(d)
    BY EndedRun DEF Commit, Rollback, ghosts
<1>2. disp'[d].newKeys = {} /\ disp'[d].pc = "idle"
    BY <1>1 DEF Idle
<1>3. ASSUME NEW c \in Change, pushes'[c] < MaxCount
      PROVE  pushes'[c] = lost'[c] + InFlight(c)' + (IF c \in keys' THEN 1 ELSE 0)
    <2>1. /\ lost \in [Change -> 0..MaxCount]
          /\ pushes[c] \in 0..MaxCount /\ lost[c] \in 0..MaxCount /\ MaxCount \in Nat
          /\ InFlight(c) \in Nat
        BY CountTypes, InFlightAfter DEF NotifyInv, TypeOK
    <2>2. pushes[c] = lost[c] + InFlight(c) + (IF c \in keys THEN 1 ELSE 0)
        BY <1>1, <1>3 DEF AccountInv, PushesAccounted
    <2>3. CASE c \notin disp[d].newKeys
        <3>1. InFlight(c)' = InFlight(c)
            BY <1>1, <1>2, <2>3, InFlightSame DEF Others
        <3>2. c \in keys' <=> c \in keys
            BY <2>3 DEF Commit, Rollback, db
        <3>3. lost'[c] = lost[c]
            BY <2>1, <2>3, CountedAt DEF Commit, Rollback, ghosts
        <3> QED
            BY <1>1, <2>2, <3>1, <3>2, <3>3
    <2>4. CASE c \in disp[d].newKeys
        <3>1. InFlight(c)' = InFlight(c) - 1 /\ InFlight(c) > 0
            BY <1>1, <1>2, <2>4, InFlightMoves
        <3>2. CASE Commit(d)
            <4>1. c \notin keys
                BY <2>4, <3>2 DEF Commit, Flushes, Dirty
            <4>2. c \in keys' /\ lost' = lost
                BY <2>4, <3>2 DEF Commit, ghosts
            <4> QED
                BY <1>1, <2>1, <2>2, <3>1, <4>1, <4>2
        <3>3. CASE Rollback(d)
            <4>1. lost[c] + 1 <= MaxCount
                BY <1>1, <1>3, <2>1, <2>2, <3>1
            <4>2. lost'[c] = lost[c] + 1
                BY <2>1, <2>4, <3>3, <4>1, CountedAt DEF Rollback
            <4>3. keys' = keys
                BY <3>3 DEF Rollback, db
            <4> QED
                BY <1>1, <2>1, <2>2, <3>1, <4>2, <4>3
        <3> QED
            BY <3>2, <3>3
    <2> QED
        BY <2>3, <2>4
<1>4. ASSUME NEW e \in Dispatcher, disp'[e].pc = "send"
      PROVE  Oldest(disp'[e].pending) \notin disp'[e].newKeys
    <2>1. disp'[e] = disp[e]
        BY <1>1, <1>2, <1>4 DEF Others
    <2> QED
        BY <1>4, <2>1 DEF AccountInv
<1>5. PushesAccounted'
    BY <1>3 DEF PushesAccounted
<1> QED
    BY <1>4, <1>5 DEF AccountInv, Oldest

\* A crash ends every session at once.
LEMMA CrashAccounts ==
    ASSUME NotifyInv, AccountInv, Crash
    PROVE  AccountInv'
<1>1. /\ pushes' = pushes /\ keys' = keys
      /\ \A d \in Dispatcher : disp'[d].newKeys = {} /\ disp'[d].pc = "idle"
      /\ \A c \in Change : lost'[c] = Capped(lost[c] + InFlight(c))
    BY DEF Crash, db, Idle
<1>2. ASSUME NEW c \in Change, pushes'[c] < MaxCount
      PROVE  pushes'[c] = lost'[c] + InFlight(c)' + (IF c \in keys' THEN 1 ELSE 0)
    <2>1. /\ pushes[c] \in 0..MaxCount /\ lost[c] \in 0..MaxCount /\ MaxCount \in Nat
          /\ InFlight(c) \in Nat
        BY CountTypes, InFlightAfter DEF NotifyInv
    <2>2. pushes[c] = lost[c] + InFlight(c) + (IF c \in keys THEN 1 ELSE 0)
        BY <1>1, <1>2 DEF AccountInv, PushesAccounted
    <2>3. {d \in Dispatcher : c \in disp'[d].newKeys} = {}
        BY <1>1
    <2>4. InFlight(c)' = 0
        BY <2>3, FS_EmptySet DEF InFlight
    <2>5. lost'[c] = lost[c] + InFlight(c)
        BY <1>1, <1>2, <2>1, <2>2 DEF Capped
    <2> QED
        BY <1>1, <2>1, <2>2, <2>4, <2>5
<1>3. PushesAccounted'
    BY <1>2 DEF PushesAccounted
<1> QED
    BY <1>1, <1>3 DEF AccountInv

\* A step that pushes nothing, commits nothing and leaves each session its keys.
LEMMA AccountsStay ==
    ASSUME NotifyInv, AccountInv, UNCHANGED <<pushes, lost, keys>>,
           \A d \in Dispatcher : disp'[d].newKeys = disp[d].newKeys,
           \A d \in Dispatcher : disp'[d].pc = "send" =>
                Oldest(disp'[d].pending) \notin disp'[d].newKeys
    PROVE  AccountInv'
<1>1. \A ch \in Change : InFlight(ch)' = InFlight(ch)
    BY InFlightSame
<1>2. PushesAccounted'
    BY <1>1 DEF AccountInv, PushesAccounted
<1> QED
    BY <1>2 DEF AccountInv, Oldest

\* Each step of a run of process_pending.
LEMMA DispatchAccounts ==
    ASSUME NotifyInv, AccountInv, NEW d \in Dispatcher, DispatchStep(d)
    PROVE  AccountInv'
<1>1. CASE StartDispatch(d)
    <2>1. /\ Others(d) /\ disp'[d].pc = "loop" /\ disp'[d].newKeys = {}
        BY <1>1, StartDispatchType
    <2>2. disp[d].newKeys = {} /\ UNCHANGED <<pushes, lost, keys>>
        BY <1>1 DEF StartDispatch, NotifyInv, PushInv, DispatcherInv, Dirty, db, ghosts
    <2> QED
        BY <2>1, <2>2, AccountsStay DEF AccountInv, Others
<1>2. CASE Check(d)
    <2> DEFINE ch == Oldest(disp[d].pending)
    <2>1. /\ Others(d) /\ disp'[d].newKeys = disp[d].newKeys
          /\ Seen(d, ch) => disp'[d].pc = "loop"
          /\ ~Seen(d, ch) => disp'[d].pending = disp[d].pending
        BY <1>2, CheckType DEF NotifyInv
    <2>2. UNCHANGED <<pushes, lost, keys>>
        BY <1>2 DEF Check, db, ghosts
    <2>3. disp'[d].pc = "send" => Oldest(disp'[d].pending) \notin disp'[d].newKeys
        BY <2>1 DEF Seen
    <2> QED
        BY <2>1, <2>2, <2>3, AccountsStay DEF AccountInv, Others
<1>3. CASE Send(d) \/ SendUnacknowledged(d)
    BY <1>3, SentAccounts
<1>4. CASE SendFails(d)
    <2>1. disp[d].pc = "send" /\ disp[d].pending # {} /\ Sent(d, FALSE)
        BY <1>4 DEF SendFails, NotifyInv, PushInv, DispatcherInv
    <2>2. Others(d) /\ disp'[d].pc = "loop" /\ disp'[d].newKeys = disp[d].newKeys \cup {}
        BY <2>1, SentType DEF NotifyInv
    <2>3. UNCHANGED <<pushes, lost, keys>>
        BY <1>4 DEF SendFails, db, ghosts
    <2> QED
        BY <2>2, <2>3, AccountsStay DEF AccountInv, Others
<1>5. CASE Commit(d) \/ Rollback(d)
    BY <1>5, EndAccounts
<1> QED
    BY <1>1, <1>2, <1>3, <1>4, <1>5 DEF DispatchStep

\* Each step of the system.
LEMMA AccountStep ==
    ASSUME NotifyInv, AccountInv, [Next]_vars
    PROVE  AccountInv'
<1>1. CASE \E d \in Dispatcher : DispatchStep(d)
    BY <1>1, DispatchAccounts
<1>2. CASE Crash
    BY <1>2, CrashAccounts
<1>3. ASSUME NewChange \/ PollWrites \/ Tick \/ UNCHANGED vars
             \/ \E g \in Digester : StartDigest(g) \/ DigestStep(g)
      PROVE  AccountInv'
    <2>1. UNCHANGED <<pushes, lost, keys, disp>>
        BY <1>3 DEF NewChange, PollWrites, Tick, vars, StartDigest, DigestStep, Build, Mail,
                    MailUnacknowledged, MailFails, CommitDigest, RollbackDigest, db, ghosts
    <2> QED
        BY <2>1, AccountsStay DEF AccountInv
<1> QED
    BY <1>1, <1>2, <1>3 DEF Next

\* However two dispatchers interleave, wherever the process dies and whatever answer
\* is lost, each push ntfy accepted has its key committed, or pending in the one
\* session that sent it, or is one of the losses (notify/dispatch.py:120-143).
THEOREM EveryPushIsAccounted == Spec => []PushesAccounted
<1>1. Init => NotifyInv
    BY NotifyInit
<1>2. NotifyInv /\ [Next]_vars => NotifyInv'
    BY NotifyStep
<1>3. Init => AccountInv
    <2>1. ASSUME Init, NEW ch \in Change
          PROVE  InFlight(ch) = 0
        <3>1. {d \in Dispatcher : ch \in disp[d].newKeys} = {}
            BY <2>1 DEF Init, Idle
        <3> QED
            BY <3>1, FS_EmptySet DEF InFlight
    <2> QED
        BY <2>1 DEF Init, AccountInv, PushesAccounted, Idle
<1>4. NotifyInv /\ AccountInv /\ [Next]_vars => AccountInv'
    BY AccountStep
<1>5. AccountInv => PushesAccounted
    BY DEF AccountInv
<1> QED
    BY <1>1, <1>2, <1>3, <1>4, <1>5, PTL DEF Spec
=============================================================================
