---------------------------- MODULE ViewsProofs ----------------------------
(***************************************************************************)
(* Proofs about the catalogue and its change log, for any titles, any      *)
(* similarity and any number of events: canonical events, what is pushed,  *)
(* and what the pages, the feed and the digest list.                       *)
(***************************************************************************)
EXTENDS Views, CommonProofs

-----------------------------------------------------------------------------
(* Canonical events, from Dedup alone.                                     *)

\* What linking keeps: rows are well typed and one title has one canonical event per
\* kind, and a stored event has the kind of the canonical event it is linked to.
DedupInv == DedupTypeOK /\ OneCanonicalPerTitle /\ KindsMatch

LEMMA SeqOfMore ==
    ASSUME NEW S, NEW T, S \subseteq T, NEW s \in Seq(S)
    PROVE  s \in Seq(T)
<1>1. \A i \in 1..Len(s) : s[i] \in T
    OBVIOUS
<1> QED
    BY <1>1

LEMMA SeqElements ==
    ASSUME NEW S, NEW s \in Seq(S)
    PROVE  \A i \in DOMAIN s : s[i] \in S
  OBVIOUS

\* Replacing one element of a sequence by another of its kind.
LEMMA SeqReplace ==
    ASSUME NEW S, NEW s \in Seq(S), NEW i \in DOMAIN s, NEW v \in S
    PROVE  LET t == [s EXCEPT ![i] = v]
           IN /\ t \in Seq(S)
              /\ DOMAIN t = DOMAIN s
              /\ t[i] = v
              /\ \A j \in DOMAIN s \ {i} : t[j] = s[j]
  OBVIOUS

\* Appending a linked row keeps the kinds, if the other canonical events stay.
LEMMA AppendKeepsKinds ==
    ASSUME KindsMatch, NEW S, stored \in Seq(S), NEW row,
           stored' = Append(stored, row),
           row.raw.kind = canonicals'[row.canon].kind,
           \A i \in DOMAIN stored : canonicals'[stored[i].canon] = canonicals[stored[i].canon]
    PROVE  KindsMatch'
<1>1. /\ DOMAIN stored' = DOMAIN stored \cup {Len(stored) + 1}
      /\ stored'[Len(stored) + 1] = row
      /\ \A i \in DOMAIN stored : stored'[i] = stored[i]
    OBVIOUS
<1>2. \A i \in DOMAIN stored : stored'[i].raw.kind = canonicals'[stored'[i].canon].kind
    BY <1>1 DEF KindsMatch
<1> QED
    BY <1>1, <1>2 DEF KindsMatch

\* An event is linked to a canonical event that exists, or to the next one; to a new
\* one only if no exact match exists; and to an existing one only within its kind.
LEMMA LinksExist ==
    ASSUME DedupTypeOK, NEW raw \in Raw, NEW c \in Links(raw)
    PROVE  \/ c \in DOMAIN canonicals /\ canonicals[c].kind = raw.kind
           \/ c = Len(canonicals) + 1 /\ Exact(raw) = {}
  BY DEF Links, Exact, Accepted, Fuzzy, SameKind, DedupTypeOK

LEMMA ArriveKeeps ==
    ASSUME DedupInv, NEW raw \in Raw, Arrive(raw)
    PROVE  DedupInv'
<1> USE DEF DedupInv
<1>1. PICK c \in Links(raw) :
        /\ stored' = Append(stored, [raw |-> raw, canon |-> c])
        /\ canonicals' = IF c \in DOMAIN canonicals THEN canonicals
                         ELSE Append(canonicals, [kind |-> raw.kind, norm |-> NormOf[raw.title]])
    BY DEF Arrive
<1>t. /\ canonicals \in Seq(CanonicalRow)
      /\ stored \in Seq([raw : Raw, canon : DOMAIN canonicals])
    BY DEF DedupTypeOK
<1>2. CASE c \in DOMAIN canonicals
  <2>1. canonicals' = canonicals /\ canonicals[c].kind = raw.kind
    BY <1>1, <1>2, <1>t, LinksExist
  <2>2. DedupTypeOK'
    BY <1>1, <1>2, <1>t, <2>1 DEF DedupTypeOK
  <2>3. OneCanonicalPerTitle'
    BY <2>1 DEF OneCanonicalPerTitle
  <2> DEFINE row == [raw |-> raw, canon |-> c]
  <2>4. KindsMatch'
    <3>1. stored' = Append(stored, row) /\ row.raw.kind = canonicals'[row.canon].kind
      BY <1>1, <2>1
    <3> HIDE DEF row
    <3> QED
      BY <1>t, <2>1, <3>1, AppendKeepsKinds
  <2> QED
    BY <2>2, <2>3, <2>4
<1>3. CASE c \notin DOMAIN canonicals
  <2> DEFINE new == [kind |-> raw.kind, norm |-> NormOf[raw.title]]
  <2>1. /\ canonicals' = Append(canonicals, new)
        /\ c = Len(canonicals) + 1
        /\ Exact(raw) = {}
    BY <1>1, <1>3, <1>t, LinksExist
  <2>2. new \in CanonicalRow
    BY DEF CanonicalRow
  <2> HIDE DEF new
  <2>3. /\ canonicals' \in Seq(CanonicalRow)
        /\ DOMAIN canonicals' = DOMAIN canonicals \cup {c}
        /\ canonicals'[c] = new
        /\ \A d \in DOMAIN canonicals : canonicals'[d] = canonicals[d]
    BY <1>t, <2>1, <2>2
  <2>4. DedupTypeOK'
    <3>1. [raw |-> raw, canon |-> c] \in [raw : Raw, canon : DOMAIN canonicals']
      BY <2>3
    <3>2. stored \in Seq([raw : Raw, canon : DOMAIN canonicals'])
      <4>1. [raw : Raw, canon : DOMAIN canonicals] \subseteq [raw : Raw, canon : DOMAIN canonicals']
        BY <2>3
      <4> QED
        BY ONLY ZenonT(30), <1>t, <4>1, SeqOfMore
    <3> QED
      BY <1>1, <2>3, <3>1, <3>2 DEF DedupTypeOK
  <2>5. \A d \in DOMAIN canonicals : canonicals[d] # new
    BY <2>1 DEF Exact, SameKind, new
  <2>6. OneCanonicalPerTitle'
    BY <2>3, <2>5 DEF OneCanonicalPerTitle
  <2> DEFINE row == [raw |-> raw, canon |-> c]
  <2>7. KindsMatch'
    <3>1. stored' = Append(stored, row) /\ row.raw.kind = canonicals'[row.canon].kind
      BY <1>1, <2>3 DEF new
    <3>2. \A i \in DOMAIN stored : stored[i].canon \in DOMAIN canonicals
      <4>1. \A i \in DOMAIN stored : stored[i] \in [raw : Raw, canon : DOMAIN canonicals]
        BY <1>t, SeqElements
      <4> QED
        BY <4>1
    <3> HIDE DEF row
    <3> QED
      BY <1>t, <2>3, <3>1, <3>2, AppendKeepsKinds
  <2> QED
    BY <2>4, <2>6, <2>7
<1> QED
    BY <1>2, <1>3

LEMMA RelistKeeps ==
    ASSUME DedupInv, NEW i \in DOMAIN stored, NEW raw \in Raw, Relist(i, raw)
    PROVE  DedupInv'
<1> USE DEF DedupInv
<1>1. /\ stored' = [stored EXCEPT ![i].raw = raw]
      /\ canonicals' = canonicals
      /\ raw.kind = stored[i].raw.kind
    BY DEF Relist
<1>t. /\ canonicals \in Seq(CanonicalRow)
      /\ stored \in Seq([raw : Raw, canon : DOMAIN canonicals])
    BY DEF DedupTypeOK
<1>k. /\ stored' \in Seq([raw : Raw, canon : DOMAIN canonicals])
      /\ DOMAIN stored' = DOMAIN stored
      /\ \A j \in DOMAIN stored :
            /\ stored'[j].canon = stored[j].canon
            /\ stored'[j].raw.kind = stored[j].raw.kind
  <2> DEFINE Stored == [raw : Raw, canon : DOMAIN canonicals]
             row == [stored[i] EXCEPT !.raw = raw]
  <2>1. stored[i] \in Stored
    BY <1>t, SeqElements
  <2>2. row \in Stored /\ row.canon = stored[i].canon /\ row.raw = raw
    BY <2>1
  <2>3. stored' = [stored EXCEPT ![i] = row]
    BY <1>1
  <2> HIDE DEF Stored, row
  <2>t. stored \in Seq(Stored)
    BY <1>t DEF Stored
  <2>4. /\ stored' \in Seq(Stored)
        /\ DOMAIN stored' = DOMAIN stored
        /\ stored'[i] = row
        /\ \A j \in DOMAIN stored \ {i} : stored'[j] = stored[j]
    BY <2>t, <2>2, <2>3, SeqReplace
  <2>5. \A j \in DOMAIN stored :
            /\ stored'[j].canon = stored[j].canon
            /\ stored'[j].raw.kind = stored[j].raw.kind
    BY <1>1, <2>2, <2>4
  <2> QED
    BY <2>4, <2>5 DEF Stored
<1>2. DedupTypeOK'
    BY <1>1, <1>t, <1>k DEF DedupTypeOK
<1>3. OneCanonicalPerTitle'
    BY <1>1 DEF OneCanonicalPerTitle
<1>4. KindsMatch'
    BY <1>1, <1>k DEF KindsMatch
<1> QED
    BY <1>2, <1>3, <1>4

\* A listing links to a canonical event of its kind, and makes a new one only where none has
\* its normal form, so both facts stay true together (core/dedup.py:44-80).
THEOREM Linking == DedupSpec => []DedupInv
<1>1. DedupInit => DedupInv
    BY DEF DedupInit, DedupInv, DedupTypeOK, OneCanonicalPerTitle, KindsMatch
<1>2. DedupInv /\ [DedupNext]_dedupVars => DedupInv'
  <2> SUFFICES ASSUME DedupInv, [DedupNext]_dedupVars
               PROVE  DedupInv'
    OBVIOUS
  <2>1. CASE UNCHANGED dedupVars
    BY <2>1 DEF dedupVars, DedupInv, DedupTypeOK, OneCanonicalPerTitle, KindsMatch
  <2>2. CASE DedupNext
    BY <2>2, ArriveKeeps, RelistKeeps DEF DedupNext
  <2> QED
    BY <2>1, <2>2
<1> QED
    BY <1>1, <1>2, PTL DEF DedupSpec

-----------------------------------------------------------------------------
(* The catalogue of Views.                                                 *)

\* Whatever is logged, removed and passes by, the stored events and their canonical
\* events evolve as Dedup says (core/ingest.py:94-140 calls dedup.link_canonical for
\* new events only).
THEOREM CatalogueIsDedup == Spec => DedupSpec
<1>1. Init => DedupInit
    BY DEF Init
<1>2. [Next]_vars => [DedupNext]_dedupVars
  <2> SUFFICES ASSUME [Next]_vars
               PROVE  [DedupNext]_dedupVars
    OBVIOUS
  <2>1. ASSUME NEW raw \in Raw, NEW type \in {"baseline", "added"}, Store(raw, type)
        PROVE  DedupNext
    BY <2>1 DEF Store, DedupNext
  <2>2. ASSUME NEW i \in DOMAIN stored, NEW raw \in Raw, Update(i, raw)
        PROVE  DedupNext
    BY <2>2 DEF Update, DedupNext
  <2>3. ASSUME NEW i \in DOMAIN stored, MarkRemoved(i) \/ Reappear(i)
        PROVE  UNCHANGED dedupVars
    BY <2>3 DEF MarkRemoved, Reappear, dedupVars
  <2>4. CASE Pass
    BY <2>4 DEF Pass, dedupVars
  <2>5. CASE UNCHANGED vars
    BY <2>5 DEF vars, dedupVars
  <2> QED
    BY <2>1, <2>2, <2>3, <2>4, <2>5 DEF Next
<1> QED
    BY <1>1, <1>2, PTL DEF Spec, DedupSpec

\* However many events arrive, in whatever order, under whatever similarity and however
\* they are retitled, the exact lookup of core/dedup.py:46 finds at most one row.
THEOREM TitlesHaveOneCanonical == Spec => []OneCanonicalPerTitle
<1>1. DedupInv => OneCanonicalPerTitle
    BY DEF DedupInv
<1> QED
    BY <1>1, CatalogueIsDedup, Linking, PTL

\* No listing moves an event to a canonical event of another kind.
THEOREM LinksKeepTheKind == Spec => []KindsMatch
<1>1. DedupInv => KindsMatch
    BY DEF DedupInv
<1> QED
    BY <1>1, CatalogueIsDedup, Linking, PTL

-----------------------------------------------------------------------------
(* Alerts.                                                                 *)

\* With the default rules nothing is pushed that the digest would not list, and in quiet
\* hours only that tickets can be bought, for every change there can be (config.py:54-63,
\* notify/rules.py:19-40, changes.py:109-121).
THEOREM AlertsAreAlwaysNews == Spec => []AlertsAreNews
<1>1. AlertsAreNews
    <2> SUFFICES ASSUME NEW id \in Ids, NEW source \in {"ticketmaster", "acl"},
                        log[id].type # "baseline"
                 PROVE  LET subject == [change_type |-> log[id].type, source |-> source,
                                        ticket_status_to |-> log[id].to, venue |-> None]
                            verdict == Evaluate(subject, DefaultRules, {})
                        IN /\ verdict.action = "immediate" => IsNews(log[id])
                           /\ verdict.always => /\ verdict.action = "immediate"
                                                /\ log[id].to \in {"on_sale", "presale"}
                                                /\ log[id].type = "ticket_status"
        BY DEF AlertsAreNews
    <2> DEFINE subject == [change_type |-> log[id].type, source |-> source,
                           ticket_status_to |-> log[id].to, venue |-> None]
    <2>1. BuyTickets(subject) => /\ log[id].type = "ticket_status"
                                 /\ log[id].to \in {"on_sale", "presale"}
        BY DEF BuyTickets
    <2>2. BuyTickets(subject) \/ subject.change_type = "added" => IsNews(log[id])
        BY <2>1 DEF IsNews
    <2> QED
        BY <2>1, <2>2, DefaultAlerts
<1> QED
    BY <1>1, PTL

-----------------------------------------------------------------------------
(* The change log.                                                         *)

Types == {"baseline", "added", "ticket_status", "updated", "removed"}

\* A row of the log has a type; no status comes with an event that is added or removed.
EntryOK(entry) ==
    /\ entry.type \in Types
    /\ entry.type \in {"added", "removed"} => entry.to = None

\* A row of the log is about a stored event, and a removed event was logged so.
LogOK ==
    /\ DedupTypeOK
    /\ gone \subseteq DOMAIN stored
    /\ now \in Nows
    /\ \E S : log \in Seq(S)
    /\ \A id \in DOMAIN log : log[id].event \in DOMAIN stored /\ log[id].at \in Int /\ log[id].at <= now
    /\ \A id \in DOMAIN log : EntryOK(log[id])
    /\ \A i \in gone : \E id \in DOMAIN log : log[id].event = i /\ log[id].type = "removed"

LEMMA AppendToLog ==
    ASSUME LogOK, NEW entry, Append1(entry)
    PROVE  /\ \E S : log' \in Seq(S)
           /\ DOMAIN log' = DOMAIN log \cup {Len(log) + 1}
           /\ log'[Len(log) + 1] = entry
           /\ \A id \in DOMAIN log : log'[id] = log[id]
<1>1. PICK S : log \in Seq(S)
    BY DEF LogOK
<1>2. log' = Append(log, entry)
    BY DEF Append1
<1> DEFINE T == S \cup {entry}
<1>3. log \in Seq(T) /\ entry \in T
    BY <1>1, SeqOfMore
<1> HIDE DEF T
<1>4. log' \in Seq(T)
    BY <1>2, <1>3
<1>5. /\ DOMAIN log' = DOMAIN log \cup {Len(log) + 1}
      /\ log'[Len(log) + 1] = entry
      /\ \A id \in DOMAIN log : log'[id] = log[id]
    BY <1>2, <1>3
<1> QED
    BY <1>4, <1>5

\* Whatever is appended about a stored event keeps the log in order.
LEMMA LogGrows ==
    ASSUME LogOK, NEW entry, Append1(entry), EntryOK(entry),
           entry.at = now, now' = now, entry.event \in DOMAIN stored',
           DOMAIN stored \subseteq DOMAIN stored', DedupTypeOK',
           gone' \subseteq gone \cup {entry.event}, gone' \subseteq DOMAIN stored',
           entry.event \in gone' \ gone => entry.type = "removed"
    PROVE  LogOK'
<1>1. /\ \E S : log' \in Seq(S)
      /\ DOMAIN log' = DOMAIN log \cup {Len(log) + 1}
      /\ log'[Len(log) + 1] = entry
      /\ \A id \in DOMAIN log : log'[id] = log[id]
    BY AppendToLog DEF LogOK
<1>2. now \in Int /\ now <= now
    BY ViewsAssumption DEF LogOK
<1>3. \A id \in DOMAIN log' :
        log'[id].event \in DOMAIN stored' /\ log'[id].at \in Int /\ log'[id].at <= now'
    BY <1>1, <1>2 DEF LogOK
<1>4. \A i \in gone' : \E id \in DOMAIN log' : log'[id].event = i /\ log'[id].type = "removed"
    BY <1>1 DEF LogOK
<1>5. \A id \in DOMAIN log' : EntryOK(log'[id])
    BY <1>1 DEF LogOK
<1> QED
    BY <1>1, <1>3, <1>4, <1>5 DEF LogOK

\* What the catalogue and its change log keep.
ViewsInv == DedupInv /\ LogOK

\* It is inductive.
LEMMA ViewsInductive == Spec => []ViewsInv
<1>1. Init => ViewsInv
    <2> SUFFICES ASSUME Init PROVE ViewsInv
        OBVIOUS
    <2>1. DedupInv
        BY DEF Init, DedupInit, DedupInv, DedupTypeOK, OneCanonicalPerTitle, KindsMatch
    <2>2. LogOK
        BY <2>1 DEF Init, DedupInv, LogOK
    <2> QED
        BY <2>1, <2>2 DEF ViewsInv
<1>2. ViewsInv /\ [Next]_vars => ViewsInv'
    <2> SUFFICES ASSUME ViewsInv, [Next]_vars PROVE ViewsInv'
        OBVIOUS
    <2> USE DEF ViewsInv
    <2>1. ASSUME NEW raw \in Raw, NEW type \in {"baseline", "added"}, Store(raw, type)
          PROVE  ViewsInv'
        <3>1. DedupInv'
            BY <2>1, ArriveKeeps DEF Store
        <3> DEFINE entry == Entry(type, Len(stored) + 1, {}, {}, None)
        <3>2. /\ Append1(entry) /\ UNCHANGED <<gone, now>>
              /\ entry.at = now /\ entry.event = Len(stored) + 1 /\ EntryOK(entry)
            BY <2>1 DEF Store, Entry, EntryOK, Types
        <3>3. DOMAIN stored' = DOMAIN stored \cup {Len(stored) + 1}
            BY <2>1 DEF Store, Arrive, DedupInv, DedupTypeOK
        <3> HIDE DEF entry
        <3>4. LogOK'
            BY <3>1, <3>2, <3>3, LogGrows DEF DedupInv, LogOK
        <3> QED
            BY <3>1, <3>4
    <2>2. ASSUME NEW i \in DOMAIN stored, NEW raw \in Raw, Update(i, raw)
          PROVE  ViewsInv'
        <3>1. DedupInv' /\ DOMAIN stored' = DOMAIN stored
            BY <2>2, RelistKeeps DEF Update, Relist
        <3>2. gone' = gone \ {i} /\ now' = now
            BY <2>2 DEF Update
        <3>3. CASE log' = log
            BY <3>1, <3>2, <3>3 DEF DedupInv, LogOK
        <3>4. CASE log' # log
            <4>1. PICK type, fields, undated, to :
                    type \in {"ticket_status", "updated"} /\ Append1(Entry(type, i, fields, undated, to))
                BY <2>2, <3>4 DEF Update
            <4> DEFINE entry == Entry(type, i, fields, undated, to)
            <4>2. entry.at = now /\ entry.event = i /\ Append1(entry) /\ EntryOK(entry)
                BY <4>1 DEF Entry, EntryOK, Types
            <4> HIDE DEF entry
            <4>3. LogOK'
                BY <3>1, <3>2, <4>2, LogGrows DEF DedupInv, LogOK
            <4> QED
                BY <3>1, <4>3
        <3> QED
            BY <3>1, <3>3, <3>4
    <2>3. ASSUME NEW i \in DOMAIN stored, MarkRemoved(i) \/ Reappear(i)
          PROVE  ViewsInv'
        <3>1. UNCHANGED <<stored, canonicals, now>>
            BY <2>3 DEF MarkRemoved, Reappear
        <3>2. DedupInv'
            BY <3>1 DEF DedupInv, DedupTypeOK, OneCanonicalPerTitle, KindsMatch
        <3>3. PICK type \in {"removed", "added"} :
                /\ Append1(Entry(type, i, {}, {}, None))
                /\ (gone' = gone \cup {i} /\ type = "removed") \/ gone' = gone \ {i}
            BY <2>3 DEF MarkRemoved, Reappear
        <3> DEFINE entry == Entry(type, i, {}, {}, None)
        <3>4. entry.at = now /\ entry.event = i /\ entry.type = type /\ Append1(entry) /\ EntryOK(entry)
            BY <3>3 DEF Entry, EntryOK, Types
        <3> HIDE DEF entry
        <3>5. LogOK'
            BY <3>1, <3>2, <3>3, <3>4, LogGrows DEF DedupInv, LogOK
        <3> QED
            BY <3>2, <3>5
    <2>4. CASE Pass
        <3>1. UNCHANGED <<stored, canonicals, gone, log>> /\ now' \in Nows /\ now' > now
            BY <2>4 DEF Pass
        <3>2. now \in Int /\ now' \in Int
            BY <3>1, ViewsAssumption DEF LogOK
        <3>3. DedupInv'
            BY <3>1 DEF DedupInv, DedupTypeOK, OneCanonicalPerTitle, KindsMatch
        <3>4. LogOK'
            BY <3>1, <3>2, <3>3 DEF LogOK, DedupInv
        <3> QED
            BY <3>3, <3>4
    <2>5. CASE UNCHANGED vars
        BY <2>5 DEF vars, DedupInv, LogOK, DedupTypeOK, OneCanonicalPerTitle, KindsMatch
    <2> QED
        BY <2>1, <2>2, <2>3, <2>4, <2>5 DEF Next
<1> QED
    BY <1>1, <1>2, PTL DEF Spec

\* Every row of the change log is about a stored event and not from the future, and every
\* event marked removed was logged so (core/ingest.py:94-140, 159-212).
THEOREM ViewsTypeCorrect == Spec => []TypeOK
<1>1. ViewsInv => TypeOK
    BY DEF ViewsInv, LogOK, TypeOK
<1> QED
    BY <1>1, ViewsInductive, PTL

-----------------------------------------------------------------------------
(* Grouping entries into sections.                                         *)

\* The greatest of a set is in it.
LEMMA MaxIsIn ==
    ASSUME NEW n \in Nat, NEW S \in SUBSET (1..n), S # {}
    PROVE  Max(S) \in S
<1>1. \E x \in S : \A y \in S : y <= x
    <2>1. S \subseteq 0..n
        OBVIOUS
    <2> QED
        BY <2>1, GreatestUpTo
<1> QED
    BY <1>1 DEF Max

SectionOf(L, R) == [label : L, rows : Seq(R)]

\* One entry more.
Joined(u, entry) ==
    IF u # << >> /\ Last(u).label = entry.label
    THEN [u EXCEPT ![Len(u)].rows = Append(@, entry.row)]
    ELSE Append(u, [label |-> entry.label, rows |-> <<entry.row>>])

\* One entry more leaves a list of sections.
LEMMA JoinedKind ==
    ASSUME NEW L, NEW R, NEW u \in Seq(SectionOf(L, R)), NEW entry \in [label : L, row : R]
    PROVE  Joined(u, entry) \in Seq(SectionOf(L, R))
<1>1. entry.label \in L /\ entry.row \in R
    OBVIOUS
<1>2. CASE u # << >> /\ Last(u).label = entry.label
    <2>1. Len(u) \in DOMAIN u /\ u[Len(u)] \in SectionOf(L, R)
        BY <1>2
    <2>2. u[Len(u)].rows \in Seq(R) /\ u[Len(u)].label \in L
        BY <2>1 DEF SectionOf
    <2> DEFINE s == u[Len(u)]
               new == [s EXCEPT !.rows = Append(@, entry.row)]
    <2>3. new \in SectionOf(L, R)
        <3>1. Append(s.rows, entry.row) \in Seq(R)
            BY <1>1, <2>2
        <3>2. s \in [label : L, rows : Seq(R)]
            BY <2>1 DEF SectionOf
        <3> HIDE DEF s
        <3> QED
            BY <3>1, <3>2 DEF SectionOf
    <2>4. Joined(u, entry) = [u EXCEPT ![Len(u)] = new]
        BY <1>2 DEF Joined
    <2> HIDE DEF new
    <2> QED
        BY <2>1, <2>3, <2>4
<1>3. CASE ~(u # << >> /\ Last(u).label = entry.label)
    <2>1. [label |-> entry.label, rows |-> <<entry.row>>] \in SectionOf(L, R)
        BY <1>1 DEF SectionOf
    <2>2. Joined(u, entry) = Append(u, [label |-> entry.label, rows |-> <<entry.row>>])
        BY <1>3 DEF Joined
    <2> QED
        BY <2>1, <2>2
<1> QED
    BY <1>2, <1>3

\* Sections are grouped entry by entry.
LEMMA GroupedRun ==
    ASSUME NEW L, NEW R, NEW e \in Seq([label : L, row : R])
    PROVE  \E h : /\ h \in [0..Len(e) -> Seq(SectionOf(L, R))]
                  /\ h[0] = << >>
                  /\ \A k \in 1..Len(e) : h[k] = Joined(h[k - 1], e[k])
                  /\ h[Len(e)] = Grouped(e)
<1> DEFINE n == Len(e)
           V == Seq(SectionOf(L, R))
           F == [k \in 1..n |-> [u \in V |-> Joined(u, e[k])]]
           Body(f, S) == IF S = {} THEN << >> ELSE Joined(f[S \ {Max(S)}], e[Max(S)])
           iter == CHOOSE f : f = [S \in SUBSET (1..n) |-> Body(f, S)]
<1>1. n \in Nat /\ << >> \in V /\ DOMAIN e = 1..n
    OBVIOUS
<1>2. Grouped(e) = iter[1..n]
    BY <1>1 DEF Grouped, FoldLeft, MapThenFoldSet, Joined
<1>3. IsLoop(F, n, V)
    <2>1. \A k \in 1..n, u \in V : Joined(u, e[k]) \in V
        BY <1>1, SeqElements, JoinedKind
    <2> HIDE DEF n, V
    <2> QED
        BY <2>1 DEF IsLoop
<1>4. ASSUME NEW f, NEW S \in SUBSET (1..n), S # {}, f[S \ {Max(S)}] \in V
      PROVE  Body(f, S) = F[Max(S)][f[S \ {Max(S)}]]
    <2>1. Max(S) \in 1..n
        BY <1>1, <1>4, MaxIsIn
    <2> HIDE DEF n, V
    <2>2. F[Max(S)][f[S \ {Max(S)}]] = Joined(f[S \ {Max(S)}], e[Max(S)])
        BY <1>4, <2>1
    <2> QED
        BY <1>4, <2>2
<1> HIDE DEF F, n, V
<1>5. PICK g : IsFold(g, F, n, V, << >>)
    <2> HIDE DEF iter, Body
    <2> QED
        BY <1>1, <1>3, FoldExists
<1>6. g = [S \in SUBSET (1..n) |-> Body(g, S)]
    <2>1. ASSUME NEW S \in SUBSET (1..n)
          PROVE  g[S] = Body(g, S)
        <3>1. CASE S = {}
            BY <1>5, <3>1 DEF IsFold
        <3>2. CASE S # {}
            <4> HIDE DEF Body
            <4> QED
                BY <1>4, <1>5, <3>2 DEF IsFold
        <3> QED
            BY <3>1, <3>2
    <2> HIDE DEF Body
    <2>2. DOMAIN g = SUBSET (1..n) /\ g = [S \in DOMAIN g |-> g[S]]
        BY <1>5 DEF IsFold
    <2> QED
        BY <2>1, <2>2
<1>7. iter = [S \in SUBSET (1..n) |-> Body(iter, S)]
    <2> HIDE DEF Body
    <2> QED
        BY <1>6
<1> HIDE DEF iter
<1>8. Folds(iter, F, n, V, << >>)
    <2>1. \A S \in SUBSET (1..n) : iter[S] = Body(iter, S)
        <3> HIDE DEF Body
        <3> QED
            BY <1>7
    <2>2. \A S \in SUBSET (1..n) : S = {} => iter[S] = << >>
        BY <2>1
    <2> HIDE DEF Body
    <2> QED
        BY <1>4, <2>1, <2>2 DEF Folds
<1>9. PICK h : IsRun(h, F, n, V, << >>) /\ h[n] = iter[1..n]
    <2> HIDE DEF Body
    <2> QED
        BY <1>1, <1>3, <1>8, FoldSteps
<1>10. \A k \in 1..n : h[k] = Joined(h[k - 1], e[k])
    <2>1. \A k \in 1..n : k - 1 \in 0..n
        BY <1>1
    <2>2. \A k \in 1..n, u \in V : F[k][u] = Joined(u, e[k])
        BY DEF F
    <2> QED
        BY <1>9, <2>1, <2>2 DEF IsRun
<1> QED
    BY <1>2, <1>9, <1>10 DEF IsRun, V, n

\* A list that gets one member more, in a list of its own or at the end of the last list.
LEMMA FlattenMore ==
    ASSUME NEW V, NEW ss \in Seq(Seq(V)), NEW x \in V
    PROVE  /\ FlattenSeq(ss) \in Seq(V)
           /\ FlattenSeq(Append(ss, <<x>>)) = Append(FlattenSeq(ss), x)
           /\ ss # << >> => FlattenSeq([ss EXCEPT ![Len(ss)] = Append(@, x)]) = Append(FlattenSeq(ss), x)
<1>1. /\ FlattenSeq(ss) \in Seq(V)
      /\ FlattenSeq(Append(ss, <<x>>)) = Append(FlattenSeq(ss), x)
    <2> DEFINE tt == Append(ss, <<x>>)
    <2>1. /\ tt \in Seq(Seq(V)) /\ Len(tt) = Len(ss) + 1 /\ tt[Len(tt)] = <<x>>
          /\ \A k \in 1..Len(ss) : tt[k] = ss[k]
        OBVIOUS
    <2> HIDE DEF tt
    <2>2. FlattenSeq(ss) \in Seq(V) /\ FlattenSeq(tt) = FlattenSeq(ss) \o <<x>>
        BY <2>1, FlattenLast
    <2> QED
        BY <2>2 DEF tt
<1>2. ASSUME ss # << >>
      PROVE  FlattenSeq([ss EXCEPT ![Len(ss)] = Append(@, x)]) = Append(FlattenSeq(ss), x)
    <2> DEFINE tt == [ss EXCEPT ![Len(ss)] = Append(@, x)]
               front == [k \in 1..(Len(ss) - 1) |-> ss[k]]
    <2>1. Len(ss) \in DOMAIN ss /\ ss[Len(ss)] \in Seq(V) /\ Len(ss) - 1 \in Nat
        BY <1>2
    <2>2. /\ front \in Seq(Seq(V)) /\ Len(ss) = Len(front) + 1
          /\ \A k \in 1..Len(front) : ss[k] = front[k] /\ k # Len(ss)
        <3>1. \A k \in 1..(Len(ss) - 1) : ss[k] \in Seq(V) /\ k # Len(ss)
            BY <2>1
        <3>2. front \in Seq(Seq(V)) /\ Len(front) = Len(ss) - 1
            BY <2>1, <3>1
        <3>3. \A k \in 1..(Len(ss) - 1) : front[k] = ss[k]
            OBVIOUS
        <3>4. Len(ss) \in Nat
            OBVIOUS
        <3> HIDE DEF front, tt
        <3> QED
            BY <2>1, <3>1, <3>2, <3>3, <3>4
    <2>3. /\ tt \in Seq(Seq(V)) /\ Len(tt) = Len(ss) /\ tt[Len(ss)] = Append(ss[Len(ss)], x)
          /\ \A k \in 1..Len(front) : tt[k] = ss[k]
        <3>1. Append(ss[Len(ss)], x) \in Seq(V)
            BY <2>1
        <3>2. /\ tt \in Seq(Seq(V)) /\ Len(tt) = Len(ss) /\ tt[Len(ss)] = Append(ss[Len(ss)], x)
              /\ \A k \in DOMAIN ss : k # Len(ss) => tt[k] = ss[k]
            BY <2>1, <3>1
        <3>3. \A k \in 1..Len(front) : k \in DOMAIN ss
            <4> HIDE DEF front, tt
            <4> QED
                BY <2>1, <2>2
        <3> HIDE DEF front, tt
        <3> QED
            BY <2>2, <3>2, <3>3
    <2> HIDE DEF tt, front
    <2>4. FlattenSeq(ss) = FlattenSeq(front) \o ss[Len(ss)] /\ FlattenSeq(front) \in Seq(V)
        BY <2>2, FlattenLast
    <2>5. FlattenSeq(tt) = FlattenSeq(front) \o tt[Len(tt)]
        <3>1. Len(tt) = Len(front) + 1 /\ \A k \in 1..Len(front) : tt[k] = front[k]
            BY <2>2, <2>3
        <3>2. tt \in Seq(Seq(V)) /\ front \in Seq(Seq(V))
            BY <2>2, <2>3
        <3> QED
            BY <3>1, <3>2, FlattenLast
    <2>6. FlattenSeq(tt) = FlattenSeq(front) \o Append(ss[Len(ss)], x)
        BY <2>3, <2>5
    <2> DEFINE a == FlattenSeq(front)
               b == ss[Len(ss)]
    <2>7. a \in Seq(V) /\ b \in Seq(V)
        BY <2>1, <2>4
    <2> HIDE DEF a, b
    <2>8. a \o Append(b, x) = Append(a \o b, x)
        BY <2>7
    <2> QED
        BY <2>4, <2>6, <2>8 DEF a, b, tt
<1> QED
    BY <1>1, <1>2

RowLists(secs) == [s \in DOMAIN secs |-> secs[s].rows]

\* One entry more is one row more, at the end.
LEMMA JoinedRows ==
    ASSUME NEW L, NEW R, NEW u \in Seq(SectionOf(L, R)), NEW entry \in [label : L, row : R]
    PROVE  /\ RowLists(u) \in Seq(Seq(R))
           /\ FlattenSeq(RowLists(Joined(u, entry))) = Append(FlattenSeq(RowLists(u)), entry.row)
<1> DEFINE ss == RowLists(u)
           v == Joined(u, entry)
<1>1. entry.label \in L /\ entry.row \in R
    OBVIOUS
<1>2. \A s \in DOMAIN u : u[s] \in [label : L, rows : Seq(R)]
    BY SeqElements DEF SectionOf
<1>3. ss \in Seq(Seq(R)) /\ DOMAIN ss = DOMAIN u /\ Len(ss) = Len(u) /\ \A s \in DOMAIN u : ss[s] = u[s].rows
    <2>1. \A s \in 1..Len(u) : u[s].rows \in Seq(R)
        BY <1>2
    <2> QED
        BY <2>1 DEF RowLists
<1>4. CASE u # << >> /\ Last(u).label = entry.label
    <2>1. Len(u) \in DOMAIN u
        BY <1>4
    <2>2. v = [u EXCEPT ![Len(u)].rows = Append(@, entry.row)]
        BY <1>4 DEF Joined
    <2>3. v = [u EXCEPT ![Len(u)] = [u[Len(u)] EXCEPT !.rows = Append(@, entry.row)]]
        BY <2>2
    <2>4. DOMAIN v = DOMAIN u /\ (\A s \in DOMAIN u : s # Len(u) => v[s] = u[s])
          /\ v[Len(u)] = [u[Len(u)] EXCEPT !.rows = Append(@, entry.row)]
        BY <2>1, <2>3
    <2>5. v[Len(u)].rows = Append(u[Len(u)].rows, entry.row)
        BY <1>2, <2>1, <2>4
    <2> HIDE DEF v, ss
    <2>6. RowLists(v) = [ss EXCEPT ![Len(ss)] = Append(@, entry.row)]
        BY <1>3, <2>1, <2>4, <2>5 DEF RowLists
    <2>7. ss # << >>
        BY <1>3, <2>1
    <2>8. FlattenSeq([ss EXCEPT ![Len(ss)] = Append(@, entry.row)]) = Append(FlattenSeq(ss), entry.row)
        BY ZenonT(30), <1>1, <1>3, <2>7, FlattenMore
    <2> QED
        BY <1>3, <2>6, <2>8 DEF v, ss
<1>5. CASE ~(u # << >> /\ Last(u).label = entry.label)
    <2> DEFINE sec == [label |-> entry.label, rows |-> <<entry.row>>]
    <2>1. v = Append(u, sec)
        BY <1>5 DEF Joined
    <2>2. Len(v) = Len(u) + 1 /\ DOMAIN v = 1..(Len(u) + 1) /\ v[Len(u) + 1] = sec /\ sec.rows = <<entry.row>>
          /\ \A s \in 1..Len(u) : v[s] = u[s]
        BY <2>1
    <2> HIDE DEF v, ss, sec
    <2>3. RowLists(v) = Append(ss, <<entry.row>>)
        <3> DEFINE tt == Append(ss, <<entry.row>>)
        <3>1. DOMAIN tt = 1..(Len(u) + 1) /\ tt[Len(u) + 1] = <<entry.row>> /\ \A s \in 1..Len(u) : tt[s] = ss[s]
            BY <1>3
        <3>2. tt = [s \in DOMAIN tt |-> tt[s]]
            OBVIOUS
        <3> HIDE DEF tt
        <3>3. \A s \in 1..(Len(u) + 1) : tt[s] = v[s].rows
            BY <1>3, <2>2, <3>1
        <3>4. RowLists(v) = tt
            BY <2>2, <3>1, <3>2, <3>3 DEF RowLists
        <3> QED
            BY <3>4 DEF tt
    <2>4. FlattenSeq(Append(ss, <<entry.row>>)) = Append(FlattenSeq(ss), entry.row)
        BY ZenonT(30), <1>1, <1>3, FlattenMore
    <2> QED
        BY <1>3, <2>3, <2>4 DEF v, ss
<1> QED
    BY <1>4, <1>5

EntryRows(e) == [i \in 1..Len(e) |-> e[i].row]

\* Grouping keeps the rows and their order.
LEMMA GroupedRows ==
    ASSUME NEW L, NEW R, NEW e \in Seq([label : L, row : R])
    PROVE  /\ Grouped(e) \in Seq(SectionOf(L, R))
           /\ RowsIn(Grouped(e)) = EntryRows(e)
<1> DEFINE n == Len(e)
           rows(k) == [i \in 1..k |-> e[i].row]
<1>1. n \in Nat /\ \A k \in 1..n : e[k] \in [label : L, row : R] /\ e[k].row \in R
    <2>1. \A k \in DOMAIN e : e[k] \in [label : L, row : R]
        BY SeqElements
    <2> QED
        BY <2>1
<1>2. PICK h : /\ h \in [0..n -> Seq(SectionOf(L, R))]
               /\ h[0] = << >>
               /\ \A k \in 1..n : h[k] = Joined(h[k - 1], e[k])
               /\ h[n] = Grouped(e)
    BY GroupedRun
<1> HIDE DEF n
<1> DEFINE J == {k \in 0..n : FlattenSeq(RowLists(h[k])) = rows(k)}
<1>3. 0 \in J
    <2>1. RowLists(h[0]) = << >>
        BY <1>2 DEF RowLists
    <2>2. FlattenSeq(<< >>) = << >>
        BY DEF FlattenSeq
    <2> QED
        BY <1>1, <2>1, <2>2
<1>4. ASSUME NEW k \in 0..(n - 1), k \in J
      PROVE  k + 1 \in J
    <2>1. k + 1 \in 1..n /\ (k + 1) - 1 = k /\ k \in 0..n /\ k + 1 \in 0..n /\ k \in Nat
        BY <1>1
    <2>2. h[k + 1] = Joined(h[k], e[k + 1]) /\ h[k] \in Seq(SectionOf(L, R)) /\ e[k + 1] \in [label : L, row : R]
        BY <1>1, <1>2, <2>1
    <2>3. FlattenSeq(RowLists(h[k + 1])) = Append(rows(k), e[k + 1].row)
        <3>1. FlattenSeq(RowLists(h[k])) = rows(k)
            BY <1>4
        <3> HIDE DEF rows
        <3> QED
            BY <2>2, <3>1, JoinedRows
    <2>4. \A i \in 1..(k + 1) : e[i].row \in R
        BY <1>1, <2>1
    <2>5. Append(rows(k), e[k + 1].row) = rows(k + 1)
        BY <2>1, <2>4
    <2> QED
        BY <2>1, <2>3, <2>5
<1>5. n \in J
    <2> HIDE DEF J
    <2>1. 0..n \subseteq J
        BY <1>1, <1>3, <1>4, UpTo
    <2> QED
        BY <1>1, <2>1
<1>6. Grouped(e) \in Seq(SectionOf(L, R))
    BY <1>1, <1>2
<1>7. RowsIn(Grouped(e)) = FlattenSeq(RowLists(Grouped(e)))
    BY DEF RowsIn, RowLists
<1> QED
    BY <1>2, <1>5, <1>6, <1>7 DEF n, EntryRows

\* Where a label never comes back after another one, it heads one section.
LEMMA GroupedLabels ==
    ASSUME NEW L, NEW R, NEW e \in Seq([label : L, row : R]),
           \A i, j, k \in 1..Len(e) : i < j /\ j < k /\ e[i].label = e[k].label => e[j].label = e[k].label
    PROVE  IsInjective(Labels(Grouped(e)))
<1> DEFINE n == Len(e)
           Has(u, k) ==
              /\ k = 0 => u = << >>
              /\ k # 0 => u # << >> /\ u[Len(u)].label = e[k].label
              /\ \A s \in DOMAIN u : \E i \in 1..k : u[s].label = e[i].label
              /\ \A s, t \in DOMAIN u : u[s].label = u[t].label => s = t
<1>1. n \in Nat /\ \A k \in 1..n : e[k] \in [label : L, row : R]
    <2>1. \A k \in DOMAIN e : e[k] \in [label : L, row : R]
        BY SeqElements
    <2> QED
        BY <2>1
<1>2. PICK h : /\ h \in [0..n -> Seq(SectionOf(L, R))]
               /\ h[0] = << >>
               /\ \A k \in 1..n : h[k] = Joined(h[k - 1], e[k])
               /\ h[n] = Grouped(e)
    BY GroupedRun
<1>0. \A i, j, k \in 1..n : i < j /\ j < k /\ e[i].label = e[k].label => e[j].label = e[k].label
    OBVIOUS
<1> HIDE DEF n
<1> DEFINE J == {k \in 0..n : Has(h[k], k)}
<1>3. 0 \in J
    BY <1>1, <1>2
<1>4. ASSUME NEW k \in 0..(n - 1), k \in J
      PROVE  k + 1 \in J
    <2> DEFINE u == h[k]
               x == e[k + 1]
    <2>1. k + 1 \in 1..n /\ (k + 1) - 1 = k /\ k \in 0..n /\ k + 1 \in 0..n /\ k \in Nat
        BY <1>1
    <2>2. h[k + 1] = Joined(u, x) /\ u \in Seq(SectionOf(L, R)) /\ x \in [label : L, row : R]
        BY <1>1, <1>2, <2>1
    <2>3. Has(u, k)
        BY <1>4
    <2>4. \A s \in DOMAIN u : u[s] \in [label : L, rows : Seq(R)]
        BY <2>2, SeqElements DEF SectionOf
    <2> HIDE DEF u, x
    <2>5. CASE u # << >> /\ Last(u).label = x.label
        <3> DEFINE v == Joined(u, x)
        <3>1. Len(u) \in DOMAIN u
            BY <2>2, <2>5
        <3>2. v = [u EXCEPT ![Len(u)].rows = Append(@, x.row)]
            BY <2>5 DEF Joined
        <3>3. DOMAIN v = DOMAIN u /\ Len(v) = Len(u) /\ v # << >> /\ \A s \in DOMAIN u : v[s].label = u[s].label
            BY <2>2, <2>4, <3>1, <3>2
        <3>4. v[Len(v)].label = x.label
            BY <2>5, <3>1, <3>3 DEF Last
        <3> HIDE DEF v
        <3>5. Has(v, k + 1)
            <4>1. \A s \in DOMAIN v : \E i \in 1..(k + 1) : v[s].label = e[i].label
                BY <2>1, <2>3, <3>3
            <4>2. \A s, t \in DOMAIN v : v[s].label = v[t].label => s = t
                BY <2>3, <3>3
            <4> QED
                BY <2>1, <3>3, <3>4, <4>1, <4>2 DEF x
        <3> HIDE DEF Has
        <3> QED
            BY <2>1, <2>2, <3>5 DEF v
    <2>6. CASE ~(u # << >> /\ Last(u).label = x.label)
        <3> DEFINE v == Joined(u, x)
                   m == Len(u) + 1
        <3>1. v = Append(u, [label |-> x.label, rows |-> <<x.row>>])
            BY <2>6 DEF Joined
        <3>2. /\ DOMAIN v = DOMAIN u \cup {m} /\ m \notin DOMAIN u /\ Len(v) = m /\ v # << >>
              /\ v[m].label = x.label /\ \A s \in DOMAIN u : v[s] = u[s]
            <4> DEFINE sec == [label |-> x.label, rows |-> <<x.row>>]
                       w == Append(u, sec)
            <4>1. sec.label = x.label
                OBVIOUS
            <4>2. /\ DOMAIN w = DOMAIN u \cup {m} /\ m \notin DOMAIN u /\ Len(w) = m /\ w # << >>
                  /\ w[m] = sec /\ \A s \in DOMAIN u : w[s] = u[s]
                <5> HIDE DEF sec, v
                <5> QED
                    BY <2>2
            <4>3. v = w
                BY <3>1
            <4> HIDE DEF w, v
            <4> QED
                BY <4>1, <4>2, <4>3
        <3> HIDE DEF v, m
        <3>3. ASSUME NEW s \in DOMAIN u, u[s].label = x.label
              PROVE  FALSE
            <4>1. PICK i \in 1..k : u[s].label = e[i].label
                BY <2>3
            <4>2. k # 0 /\ k \in 1..n /\ i \in 1..n
                BY <1>1, <2>1
            <4>3. e[k].label = x.label
                <5>1. CASE i = k
                    BY <3>3, <4>1, <5>1
                <5>2. CASE i # k
                    <6>1. i < k /\ k < k + 1 /\ e[i].label = e[k + 1].label
                        BY <2>1, <3>3, <4>1, <5>2 DEF x
                    <6> QED
                        BY <1>0, <2>1, <4>2, <6>1 DEF x
                <5> QED
                    BY <5>1, <5>2
            <4>4. u # << >> /\ Last(u).label = x.label
                BY <2>3, <4>2, <4>3 DEF Last
            <4> QED
                BY <2>6, <4>4
        <3>4. Has(v, k + 1)
            <4>1. \A s \in DOMAIN v : \E i \in 1..(k + 1) : v[s].label = e[i].label
                <5>1. v[m].label = e[k + 1].label /\ k + 1 \in 1..(k + 1)
                    BY <2>1, <3>2 DEF x
                <5>2. \A s \in DOMAIN u : \E i \in 1..(k + 1) : u[s].label = e[i].label
                    BY <2>1, <2>3
                <5> QED
                    BY <3>2, <5>1, <5>2
            <4>2. \A s, t \in DOMAIN v : v[s].label = v[t].label => s = t
                BY <2>3, <3>2, <3>3
            <4> QED
                BY <2>1, <3>2, <4>1, <4>2 DEF x
        <3> HIDE DEF Has
        <3> QED
            BY <2>1, <2>2, <3>4 DEF v
    <2> QED
        BY <2>5, <2>6
<1>5. n \in J
    <2> HIDE DEF J
    <2>1. 0..n \subseteq J
        BY <1>1, <1>3, <1>4, UpTo
    <2> QED
        BY <1>1, <2>1
<1>6. \A s, t \in DOMAIN Grouped(e) : Grouped(e)[s].label = Grouped(e)[t].label => s = t
    BY <1>2, <1>5
<1> QED
    BY <1>6 DEF Labels, IsInjective

-----------------------------------------------------------------------------
(* The order of rows.                                                      *)

\* Tuples of five numbers.
Lex(a, b) ==
    \/ a[1] < b[1]
    \/ a[1] = b[1] /\ a[2] < b[2]
    \/ a[1] = b[1] /\ a[2] = b[2] /\ a[3] < b[3]
    \/ a[1] = b[1] /\ a[2] = b[2] /\ a[3] = b[3] /\ a[4] < b[4]
    \/ a[1] = b[1] /\ a[2] = b[2] /\ a[3] = b[3] /\ a[4] = b[4] /\ a[5] < b[5]

IsKey(a) == DOMAIN a = 1..5 /\ \A i \in 1..5 : a[i] \in Int

\* Tuples of five numbers compare by the first place in which they differ.
LEMMA PrecedesIsLex ==
    ASSUME NEW a, NEW b, IsKey(a), IsKey(b)
    PROVE  Precedes(a, b) <=> Lex(a, b)
<1>1. 1..5 = {1, 2, 3, 4, 5} /\ 1..0 = {} /\ 1..1 = {1} /\ 1..2 = {1, 2} /\ 1..3 = {1, 2, 3} /\ 1..4 = {1, 2, 3, 4}
    OBVIOUS
<1>2. 1 - 1 = 0 /\ 2 - 1 = 1 /\ 3 - 1 = 2 /\ 4 - 1 = 3 /\ 5 - 1 = 4
    OBVIOUS
<1>3. Precedes(a, b) <=> \E i \in {1, 2, 3, 4, 5} : a[i] < b[i] /\ \A j \in 1..(i - 1) : a[j] = b[j]
    BY <1>1 DEF Precedes, IsKey
<1> DEFINE P(i) == a[i] < b[i] /\ \A j \in 1..(i - 1) : a[j] = b[j]
<1>4. P(1) <=> a[1] < b[1]
    BY <1>1, <1>2
<1>5. P(2) <=> a[2] < b[2] /\ a[1] = b[1]
    BY <1>1, <1>2
<1>6. P(3) <=> a[3] < b[3] /\ a[1] = b[1] /\ a[2] = b[2]
    BY <1>1, <1>2
<1>7. P(4) <=> a[4] < b[4] /\ a[1] = b[1] /\ a[2] = b[2] /\ a[3] = b[3]
    BY <1>1, <1>2
<1>8. P(5) <=> a[5] < b[5] /\ a[1] = b[1] /\ a[2] = b[2] /\ a[3] = b[3] /\ a[4] = b[4]
    BY <1>1, <1>2
<1>9. Precedes(a, b) <=> P(1) \/ P(2) \/ P(3) \/ P(4) \/ P(5)
    BY <1>3
<1> HIDE DEF P
<1> QED
    BY <1>4, <1>5, <1>6, <1>7, <1>8, <1>9 DEF Lex

\* Which is an order, with any third tuple on one side or the other.
LEMMA LexIsAnOrder ==
    ASSUME NEW a, NEW b, NEW c, IsKey(a), IsKey(b), IsKey(c)
    PROVE  /\ Lex(a, b) => ~Lex(b, a)
           /\ Lex(a, c) => Lex(a, b) \/ Lex(b, c)
<1>1. \A i \in {1, 2, 3, 4, 5} : a[i] \in Int /\ b[i] \in Int /\ c[i] \in Int
    BY DEF IsKey
<1> QED
    BY <1>1 DEF Lex

-----------------------------------------------------------------------------
(* Rows and their dates.                                                   *)

\* Whole division.
LEMMA Divided ==
    ASSUME NEW a \in Int, NEW d \in Nat \ {0}
    PROVE  a \div d \in Int /\ a % d \in 0..(d - 1) /\ a = d * (a \div d) + (a % d)
  OBVIOUS

\* A date or time, or none.
Maybe == Int \cup {None}

Row ==
    [id : Nat, title : Int, venue : {raw.venue : raw \in Raw}, canon : Nat,
     start : Maybe, day : Maybe, time : Maybe, endDay : Maybe, soldOut : BOOLEAN,
     kind : {raw.kind : raw \in Raw}, category : {Category(raw) : raw \in Raw},
     marks : SUBSET {"new", "watched"}, extraTimes : Seq(Maybe), performances : Nat]

\* The dates of a row fit together.
WellDated(r) ==
    /\ r.day = None <=> r.start = None
    /\ r.day = None => r.time = None /\ r.endDay = None
    /\ r.time # None => r.time \in 0..(DayLen - 1) /\ r.start = Offset + r.day * DayLen + r.time
    /\ r.endDay # None => r.endDay > r.day

\* A row of one performance.
Single(r) == r \in Row /\ WellDated(r) /\ r.extraTimes = << >> /\ r.performances = 1

\* The local date and time of an instant, or of a date without a time.
LEMMA LocalDates ==
    ASSUME NEW t \in Nat \cup {None}
    PROVE  /\ LocalDay(t) \in Maybe /\ LocalTime(t) \in Maybe
           /\ LocalDay(t) = None <=> t = None
           /\ t = None => LocalTime(t) = None
           /\ LocalTime(t) # None =>
                LocalTime(t) \in 0..(DayLen - 1) /\ t = Offset + LocalDay(t) * DayLen + LocalTime(t)
<1>1. DayLen \in Nat \ {0} /\ Offset \in Nat /\ None \notin Int /\ NoDate = None
    BY ListingAssumption, ViewsAssumption
<1>2. CASE t = None
    BY <1>1, <1>2 DEF LocalDay, LocalTime, Maybe
<1>3. CASE t # None
    <2>1. t \in Nat /\ t \in Int /\ t - Offset \in Int
        BY <1>1, <1>3
    <2>2. CASE IsDateOnly(t)
        <3>1. LocalDay(t) = t \div DayLen /\ LocalTime(t) = None
            BY <1>1, <1>3, <2>2 DEF LocalDay, LocalTime
        <3>2. t \div DayLen \in Int
            BY <1>1, <2>1, Divided
        <3> QED
            BY <1>1, <1>3, <3>1, <3>2 DEF Maybe
    <2>3. CASE ~IsDateOnly(t)
        <3> DEFINE q == (t - Offset) \div DayLen
                   r == (t - Offset) % DayLen
        <3>1. LocalDay(t) = q /\ LocalTime(t) = r
            BY <1>1, <1>3, <2>3 DEF LocalDay, LocalTime
        <3>2. q \in Int /\ r \in 0..(DayLen - 1) /\ t - Offset = DayLen * q + r
            BY <1>1, <2>1, Divided
        <3> HIDE DEF q, r
        <3>3. t = Offset + q * DayLen + r
            BY <1>1, <2>1, <3>2
        <3> QED
            BY <1>1, <1>3, <3>1, <3>2, <3>3 DEF Maybe
    <2> QED
        BY <2>2, <2>3
<1> QED
    BY <1>2, <1>3

\* build_row gives a row of one performance.
LEMMA BuiltRow ==
    ASSUME NEW i \in Nat, NEW ev, ev.raw \in Raw, ev.canon \in Nat, NEW marks \in SUBSET {"new", "watched"}
    PROVE  Single(BuildRow(i, ev, marks)) /\ BuildRow(i, ev, marks).id = i
<1> DEFINE raw == ev.raw
           day == LocalDay(raw.start)
           endDay == LocalDay(raw.end)
           row == BuildRow(i, ev, marks)
           last == IF NoDate \notin {day, endDay} /\ endDay > day THEN endDay ELSE NoDate
<1>0. None \notin Int /\ NoDate = None
    BY ListingAssumption, ViewsAssumption
<1>1. raw \in Raw /\ raw.title \in Nat /\ raw.start \in Nat \cup {None} /\ raw.end \in Nat \cup {None}
    BY ViewsAssumption
<1>2. day \in Maybe /\ endDay \in Maybe /\ LocalTime(raw.start) \in Maybe
    BY <1>1, LocalDates
<1>3. row = [id |-> i, title |-> raw.title, venue |-> raw.venue, canon |-> ev.canon,
             start |-> raw.start, day |-> day, time |-> LocalTime(raw.start), endDay |-> last,
             soldOut |-> raw.status = "sold_out", kind |-> raw.kind,
             category |-> Category(raw), marks |-> marks, extraTimes |-> << >>, performances |-> 1]
    BY DEF BuildRow
<1>4. /\ day = None <=> raw.start = None
      /\ raw.start = None => LocalTime(raw.start) = None
      /\ LocalTime(raw.start) # None =>
            LocalTime(raw.start) \in 0..(DayLen - 1)
            /\ raw.start = Offset + day * DayLen + LocalTime(raw.start)
    BY <1>1, LocalDates
<1>5. /\ last \in Maybe
      /\ day = None => last = None
      /\ last # None => last > day
    BY <1>0, <1>2 DEF Maybe
<1> DEFINE time == LocalTime(raw.start)
           category == Category(raw)
           soldOut == raw.status = "sold_out"
<1>6. /\ raw.venue \in {r.venue : r \in Raw} /\ raw.kind \in {r.kind : r \in Raw}
      /\ category \in {Category(r) : r \in Raw} /\ soldOut \in BOOLEAN /\ << >> \in Seq(Maybe)
      /\ raw.start \in Maybe
    BY <1>1 DEF Maybe
<1> HIDE DEF raw, day, endDay, last, row, time, category, soldOut
<1>7. row \in Row
    BY <1>1, <1>2, <1>3, <1>5, <1>6 DEF Row, time, category, soldOut
<1>8. WellDated(row)
    BY <1>3, <1>4, <1>5 DEF WellDated
<1> QED
    BY <1>3, <1>7, <1>8 DEF Single, row

\* The rows of the pages are the current ones among rows of stored events.
LEMMA PageRows ==
    ASSUME DedupTypeOK, NEW wl
    PROVE  /\ RowsFor(wl) \in Seq(Row)
           /\ \A k \in DOMAIN RowsFor(wl) : Single(RowsFor(wl)[k])
           /\ \A k, l \in DOMAIN RowsFor(wl) : RowsFor(wl)[k].id = RowsFor(wl)[l].id => k = l
<1> DEFINE shows == Shows(wl)
           I == {i \in DOMAIN shows : shows[i].id \notin gone /\ IsCurrent(shows[i], now)}
           t == Picked(shows, I)
<1>1. RowsFor(wl) = t
    BY DEF RowsFor, Only
<1>2. DOMAIN stored = 1..Len(stored) /\ Len(stored) \in Nat
      /\ \A i \in DOMAIN stored : stored[i].raw \in Raw /\ stored[i].canon \in Nat
    <2>1. stored \in Seq([raw : Raw, canon : DOMAIN canonicals])
        BY DEF DedupTypeOK
    <2>2. \A i \in DOMAIN stored : stored[i] \in [raw : Raw, canon : DOMAIN canonicals]
        BY <2>1, SeqElements
    <2>3. DOMAIN canonicals \subseteq Nat
        BY DEF DedupTypeOK
    <2> QED
        BY <2>1, <2>2, <2>3
<1>3. ASSUME NEW i \in DOMAIN stored
      PROVE  Single(shows[i]) /\ shows[i].id = i
    <2>1. Marks(i, wl) \in SUBSET {"new", "watched"}
        BY DEF Marks
    <2>2. shows[i] = BuildRow(i, stored[i], Marks(i, wl))
        BY DEF Shows
    <2>3. i \in Nat
        BY <1>2
    <2> QED
        BY <1>2, <2>1, <2>2, <2>3, BuiltRow
<1>4. DOMAIN shows = DOMAIN stored
    BY DEF Shows
<1> HIDE DEF shows
<1>5. shows \in Seq(Row)
    <2>1. shows = [i \in 1..Len(stored) |-> shows[i]]
        BY <1>2 DEF shows, Shows
    <2>2. \A i \in 1..Len(stored) : shows[i] \in Row
        BY <1>2, <1>3 DEF Single
    <2> QED
        BY <1>2, <2>1, <2>2
<1>6. I \subseteq DOMAIN shows
    OBVIOUS
<1> HIDE DEF I, t
<1>7. t \in Seq(Row) /\ \E at : IsPicked(t, shows, I, at)
    BY <1>5, <1>6, PickedIs DEF t
<1>8. PICK at : IsPicked(t, shows, I, at)
    BY <1>7
<1>9. ASSUME NEW k \in DOMAIN t
      PROVE  Single(t[k]) /\ t[k].id = at[k]
    <2>1. at[k] \in DOMAIN stored /\ t[k] = shows[at[k]]
        BY <1>4, <1>6, <1>8 DEF IsPicked
    <2> QED
        BY <1>3, <2>1
<1>10. ASSUME NEW k \in DOMAIN t, NEW l \in DOMAIN t, at[k] = at[l]
       PROVE  k = l
    <2>1. k \in Nat /\ l \in Nat
        BY <1>7
    <2>2. at[k] \in Nat /\ at[l] \in Nat
        BY <1>2, <1>4, <1>6, <1>8 DEF IsPicked
    <2>3. ~(k < l) /\ ~(l < k)
        BY <1>8, <1>10, <2>2 DEF IsPicked
    <2> QED
        BY <2>1, <2>3
<1> QED
    BY <1>1, <1>7, <1>9, <1>10

\* The key of a row is five numbers.
LEMMA KeyIsKey ==
    ASSUME NEW r \in Row
    PROVE  IsKey(SortKey(r))
<1>1. None \notin Int /\ NoDate = None
    BY ListingAssumption, ViewsAssumption
<1>2. r.day \in Maybe /\ r.start \in Maybe /\ r.time \in Maybe /\ r.title \in Int
    BY DEF Row
<1> DEFINE missing(x) == IF x = NoDate THEN 1 ELSE 0
           orFirst(x, first) == IF x = NoDate THEN first ELSE x
           a == missing(r.day)
           b == orFirst(r.day, 0)
           c == missing(r.time)
           d == orFirst(r.start, -1)
<1>3. a \in Int /\ b \in Int /\ c \in Int /\ d \in Int
    BY <1>1, <1>2 DEF Maybe
<1>4. SortKey(r) = <<a, b, c, d, r.title>>
    BY DEF SortKey
<1> HIDE DEF a, b, c, d
<1>5. DOMAIN SortKey(r) = 1..5 /\ SortKey(r)[1] = a /\ SortKey(r)[2] = b /\ SortKey(r)[3] = c /\ SortKey(r)[4] = d
      /\ SortKey(r)[5] = r.title
    BY <1>4
<1>6. \A i \in 1..5 : i = 1 \/ i = 2 \/ i = 3 \/ i = 4 \/ i = 5
    OBVIOUS
<1> QED
    BY <1>2, <1>3, <1>5, <1>6 DEF IsKey

\* What the key says of two rows.
LEMMA KeyOrder ==
    ASSUME NEW a \in Row, NEW b \in Row, WellDated(a), WellDated(b), ~Precedes(SortKey(b), SortKey(a))
    PROVE  /\ a.day = None => b.day = None
           /\ b.day # None => a.day # None /\ a.day <= b.day
           /\ a.day = b.day /\ b.time # None => a.time # None /\ a.time <= b.time
<1>1. None \notin Int /\ NoDate = None /\ DayLen \in Nat \ {0} /\ Offset \in Nat
    BY ListingAssumption, ViewsAssumption
<1>2. /\ a.day \in Maybe /\ a.start \in Maybe /\ a.time \in Maybe /\ a.title \in Int
      /\ b.day \in Maybe /\ b.start \in Maybe /\ b.time \in Maybe /\ b.title \in Int
    BY DEF Row
<1>3. ~Lex(SortKey(b), SortKey(a)) /\ IsKey(SortKey(a)) /\ IsKey(SortKey(b))
    BY KeyIsKey, PrecedesIsLex
<1>4. /\ SortKey(a)[1] = (IF a.day = None THEN 1 ELSE 0) /\ SortKey(b)[1] = (IF b.day = None THEN 1 ELSE 0)
      /\ SortKey(a)[2] = (IF a.day = None THEN 0 ELSE a.day) /\ SortKey(b)[2] = (IF b.day = None THEN 0 ELSE b.day)
      /\ SortKey(a)[3] = (IF a.time = None THEN 1 ELSE 0) /\ SortKey(b)[3] = (IF b.time = None THEN 1 ELSE 0)
      /\ SortKey(a)[4] = (IF a.start = None THEN -1 ELSE a.start)
      /\ SortKey(b)[4] = (IF b.start = None THEN -1 ELSE b.start)
    BY <1>1 DEF SortKey
<1>5. a.day = None => b.day = None
    BY <1>3, <1>4 DEF Lex
<1>6. ASSUME b.day # None
      PROVE  a.day # None /\ a.day <= b.day
    <2>1. a.day # None /\ a.day \in Int /\ b.day \in Int
        BY <1>2, <1>5, <1>6 DEF Maybe
    <2> QED
        BY <1>3, <1>4, <1>6, <2>1 DEF Lex
<1>7. ASSUME a.day = b.day, b.time # None
      PROVE  a.time # None /\ a.time <= b.time
    <2>1. a.day # None /\ b.day # None /\ a.day \in Int
        BY <1>2, <1>7 DEF WellDated, Maybe
    <2>2. a.time # None
        BY <1>3, <1>4, <1>7, <2>1 DEF Lex
    <2>3. a.start # None /\ b.start # None /\ a.start \in Int /\ b.start \in Int
        BY <1>2, <2>1 DEF WellDated, Maybe
    <2>4. a.start <= b.start
        BY <1>3, <1>4, <1>7, <2>1, <2>2, <2>3 DEF Lex
    <2>5. a.time \in Int /\ b.time \in Int /\ a.start = Offset + a.day * DayLen + a.time
          /\ b.start = Offset + a.day * DayLen + b.time
        BY <1>7, <2>2 DEF WellDated
    <2> DEFINE c == Offset + a.day * DayLen
    <2>6. c \in Int
        BY <1>1, <2>1
    <2> HIDE DEF c
    <2>7. a.start = c + a.time /\ b.start = c + b.time
        BY <2>5 DEF c
    <2> QED
        BY <2>2, <2>4, <2>5, <2>6, <2>7
<1> QED
    BY <1>5, <1>6, <1>7

\* Sorted rows are the same rows, by day and then by time.
InTime(t, n) ==
    \A k, l \in 1..n : k < l =>
        /\ t[k].day = None => t[l].day = None
        /\ t[l].day # None => t[k].day # None /\ t[k].day <= t[l].day
        /\ t[k].day = t[l].day /\ t[l].time # None => t[k].time # None /\ t[k].time <= t[l].time

SameRows(t, s, at, n) ==
    /\ DOMAIN t = 1..n /\ DOMAIN s = 1..n
    /\ at \in [1..n -> 1..n]
    /\ \A k \in 1..n : t[k] = s[at[k]]
    /\ \A k, l \in 1..n : at[k] = at[l] => k = l
    /\ \A i \in 1..n : \E k \in 1..n : at[k] = i

\* The rows are sorted by day and time, and none is lost or doubled.
LEMMA SortedRows ==
    ASSUME NEW rows \in Seq(Row), \A k \in DOMAIN rows : WellDated(rows[k])
    PROVE  /\ Sorted(rows) \in Seq(Row)
           /\ InTime(Sorted(rows), Len(rows))
           /\ \E at : SameRows(Sorted(rows), rows, at, Len(rows))
<1> DEFINE n == Len(rows)
           key == [i \in DOMAIN rows |-> SortKey(rows[i])]
           L == [i \in 1..n |-> {j \in 1..n : Precedes(key[j], key[i])}]
           t == Sorted(rows)
<1>1. n \in Nat /\ DOMAIN rows = 1..n /\ \A k \in 1..n : rows[k] \in Row /\ WellDated(rows[k])
    <2>1. \A k \in DOMAIN rows : rows[k] \in Row
        BY SeqElements
    <2> QED
        BY <2>1
<1> HIDE DEF n
<1>2. \A k \in 1..n : key[k] = SortKey(rows[k]) /\ IsKey(key[k])
    BY <1>1, KeyIsKey
<1>3. \A i, j \in 1..n : j \in L[i] <=> Precedes(key[j], key[i])
    <2> HIDE DEF key
    <2> QED
        OBVIOUS
<1>4. Lesser(L, n)
    <2>1. L \in [1..n -> SUBSET (1..n)]
        OBVIOUS
    <2> HIDE DEF L, key
    <2>2. \A i, j \in 1..n : j \in L[i] <=> Lex(key[j], key[i])
        BY <1>2, <1>3, PrecedesIsLex
    <2>3. \A i, j \in 1..n : j \in L[i] => i \notin L[j]
        BY <1>2, <2>2, LexIsAnOrder
    <2>4. ASSUME NEW i \in 1..n, NEW j \in 1..n, NEW k \in 1..n, k \in L[i]
          PROVE  k \in L[j] \/ j \in L[i]
        BY <1>2, <2>2, <2>4, LexIsAnOrder
    <2> QED
        BY <2>1, <2>3, <2>4 DEF Lesser
<1>5. t = Ranked(rows, Ranks(rows, Before(L, n)))
    <2> DEFINE before(i) == {j \in DOMAIN rows : Precedes(key[j], key[i]) \/ (j < i /\ ~Precedes(key[i], key[j]))}
    <2>1. t = Ranked(rows, [i \in DOMAIN rows |-> Cardinality(before(i))])
        BY DEF Sorted, SortBy
    <2> HIDE DEF key, t
    <2>2. ASSUME NEW i \in 1..n
          PROVE  Before(L, n)[i] = before(i)
        BY <1>1, <1>3 DEF Before
    <2> HIDE DEF L, before
    <2>3. [i \in DOMAIN rows |-> Cardinality(before(i))] = Ranks(rows, Before(L, n))
        BY <1>1, <2>2 DEF Ranks
    <2> QED
        BY <2>1, <2>3
<1> HIDE DEF t
<1>6. PICK at : SortedAt(t, rows, L, at, n)
    <2> HIDE DEF L
    <2> QED
        BY <1>1, <1>4, <1>5, SortedIs
<1>7. /\ t = [k \in 1..n |-> rows[at[k]]] /\ at \in [1..n -> 1..n]
      /\ \A i \in 1..n : \E k \in 1..n : at[k] = i
      /\ \A k, l \in 1..n : k < l => at[k] # at[l] /\ at[l] \notin L[at[k]]
    BY <1>6 DEF SortedAt
<1>8. \A k \in 1..n : t[k] = rows[at[k]] /\ at[k] \in 1..n
    BY <1>7
<1>9. t \in Seq(Row)
    <2>1. \A k \in 1..n : rows[at[k]] \in Row
        BY <1>1, <1>8
    <2> QED
        BY <1>1, <1>7, <2>1
<1>10. ASSUME NEW k \in 1..n, NEW l \in 1..n, at[k] = at[l]
       PROVE  k = l
    <2>1. ~(k < l) /\ ~(l < k)
        BY <1>7, <1>10
    <2> QED
        BY <2>1
<1>11. InTime(t, n)
    <2> SUFFICES ASSUME NEW k \in 1..n, NEW l \in 1..n, k < l
                 PROVE  /\ t[k].day = None => t[l].day = None
                        /\ t[l].day # None => t[k].day # None /\ t[k].day <= t[l].day
                        /\ t[k].day = t[l].day /\ t[l].time # None => t[k].time # None /\ t[k].time <= t[l].time
        BY DEF InTime
    <2>1. ~Precedes(SortKey(t[l]), SortKey(t[k]))
        <3>1. at[l] \notin L[at[k]]
            BY <1>7
        <3> HIDE DEF L, key
        <3> QED
            BY <1>2, <1>3, <1>8, <3>1
    <2>2. t[k] \in Row /\ t[l] \in Row /\ WellDated(t[k]) /\ WellDated(t[l])
        BY <1>1, <1>8
    <2> QED
        BY <2>1, <2>2, KeyOrder
<1>12. SameRows(t, rows, at, n)
    BY <1>1, <1>7, <1>8, <1>10 DEF SameRows
<1> QED
    BY <1>9, <1>11, <1>12 DEF t, n

-----------------------------------------------------------------------------
(* merge_performances.                                                     *)

\* The least place of a set of places.
LEMMA LeastPlace ==
    ASSUME NEW I \in SUBSET Nat, I # {}
    PROVE  Min(I) \in I
<1>1. PICK m \in I : \A j \in I : m <= j
    BY LeastNat
<1>2. Min(I) = m
    BY <1>1, LeastIsMin
<1> QED
    BY <1>1, <1>2

\* One performance more in the list of merge_performances.
Placed(u, row) ==
    LET i == FirstLike(u, SameShowAndDay, row)
    IN IF i = 0 THEN Append(u, row) ELSE [u EXCEPT ![i] = WithTime(u[i], row)]

\* The row of a show when it has one performance more that day.
LEMMA WithTimeKind ==
    ASSUME NEW first \in Row, NEW row \in Row
    PROVE  /\ WithTime(first, row) \in Row
           /\ WithTime(first, row) =
                [first EXCEPT !.extraTimes = WithTime(first, row).extraTimes,
                              !.soldOut = first.soldOut /\ row.soldOut]
           /\ WithTime(first, row).extraTimes =
                IF row.time \in {None, first.time} \cup ToSet(first.extraTimes)
                THEN first.extraTimes ELSE Append(first.extraTimes, row.time)
<1> DEFINE times == IF row.time \in {NoDate, first.time} \cup ToSet(first.extraTimes)
                    THEN first.extraTimes ELSE Append(first.extraTimes, row.time)
           out == first.soldOut /\ row.soldOut
           new == WithTime(first, row)
<1>1. new = [first EXCEPT !.extraTimes = times, !.soldOut = out]
    BY DEF WithTime
<1>2. times \in Seq(Maybe) /\ out \in BOOLEAN
    <2>1. first.extraTimes \in Seq(Maybe) /\ row.time \in Maybe /\ first.soldOut \in BOOLEAN /\ row.soldOut \in BOOLEAN
        BY DEF Row
    <2>2. Append(first.extraTimes, row.time) \in Seq(Maybe)
        BY <2>1
    <2> QED
        BY <2>1, <2>2
<1>3. NoDate = None
    BY ViewsAssumption
<1> HIDE DEF new
<1>4. new \in Row /\ new.extraTimes = times /\ new.soldOut = out
    <2> HIDE DEF times, out
    <2> QED
        BY <1>1, <1>2 DEF Row
<1>5. new = [first EXCEPT !.extraTimes = new.extraTimes, !.soldOut = out]
    BY <1>1, <1>4
<1> QED
    BY <1>3, <1>4, <1>5 DEF new

\* Which member of the list a row is put to.
LEMMA PlacedIs ==
    ASSUME NEW u \in Seq(Row), NEW row \in Row
    PROVE  /\ (\A j \in DOMAIN u : ~SameShowAndDay(u[j], row)) => Placed(u, row) = Append(u, row)
           /\ \A j \in DOMAIN u :
                SameShowAndDay(u[j], row) /\ (\A i \in DOMAIN u : SameShowAndDay(u[i], row) => i = j)
                    => Placed(u, row) = [u EXCEPT ![j] = WithTime(u[j], row)]
           /\ Placed(u, row) \in Seq(Row)
<1> DEFINE I == {i \in 1..Len(u) : SameShowAndDay(u[i], row)}
           i == FirstLike(u, SameShowAndDay, row)
<1>1. i = IF I # {} THEN Min(I) ELSE 0
    BY DEF FirstLike, SelectInSeq
<1>2. I \in SUBSET Nat /\ DOMAIN u = 1..Len(u) /\ Len(u) \in Nat
    OBVIOUS
<1>3. Placed(u, row) = IF i = 0 THEN Append(u, row) ELSE [u EXCEPT ![i] = WithTime(u[i], row)]
    BY DEF Placed
<1> HIDE DEF i
<1>4. I # {} => i \in I /\ i # 0 /\ i \in DOMAIN u
    <2>1. I # {} => Min(I) \in I
        <3> HIDE DEF I
        <3> QED
            BY <1>2, LeastPlace
    <2>2. I # {} => i \in I
        BY <1>1, <2>1
    <2> QED
        BY <1>2, <2>2
<1>5. Placed(u, row) \in Seq(Row)
    <2>1. CASE I = {}
        BY <1>1, <1>3, <2>1
    <2>2. CASE I # {}
        <3>1. i \in DOMAIN u /\ u[i] \in Row /\ i # 0
            BY <1>4, <2>2
        <3>2. WithTime(u[i], row) \in Row
            BY <3>1, WithTimeKind
        <3> HIDE DEF I
        <3> QED
            BY <1>3, <3>1, <3>2
    <2> QED
        BY <2>1, <2>2
<1>6. (\A j \in DOMAIN u : ~SameShowAndDay(u[j], row)) => Placed(u, row) = Append(u, row)
    BY <1>1, <1>2, <1>3
<1>7. ASSUME NEW j \in DOMAIN u, SameShowAndDay(u[j], row), \A k \in DOMAIN u : SameShowAndDay(u[k], row) => k = j
      PROVE  Placed(u, row) = [u EXCEPT ![j] = WithTime(u[j], row)]
    <2>1. j \in I
        BY <1>2, <1>7
    <2>2. i = j /\ i # 0
        BY <1>4, <1>7, <2>1
    <2> HIDE DEF I
    <2> QED
        BY <1>3, <2>2
<1> QED
    BY <1>5, <1>6, <1>7

\* merge_performances, row by row.
LEMMA PerformancesRun ==
    ASSUME NEW rows, NEW t \in Seq(Row), t = Sorted(rows)
    PROVE  \E h : /\ h \in [0..Len(t) -> Seq(Row)]
                  /\ h[0] = << >>
                  /\ \A k \in 1..Len(t) : h[k] = Placed(h[k - 1], t[k])
                  /\ h[Len(t)] = MergePerformances(rows)
<1> DEFINE n == Len(t)
           V == Seq(Row)
           F == [k \in 1..n |-> [u \in V |-> Placed(u, t[k])]]
           Body(f, S) == IF S = {} THEN << >> ELSE Placed(f[S \ {Max(S)}], t[Max(S)])
           iter == CHOOSE f : f = [S \in SUBSET (1..n) |-> Body(f, S)]
<1>1. n \in Nat /\ << >> \in V /\ DOMAIN t = 1..n
    OBVIOUS
<1>2. MergePerformances(rows) = iter[1..n]
    BY <1>1 DEF MergePerformances, MergeBy, FoldLeft, MapThenFoldSet, Placed
<1>3. IsLoop(F, n, V)
    <2>1. \A k \in 1..n, u \in V : Placed(u, t[k]) \in V
        BY <1>1, SeqElements, PlacedIs
    <2> HIDE DEF n, V
    <2> QED
        BY <2>1 DEF IsLoop
<1>4. ASSUME NEW f, NEW S \in SUBSET (1..n), S # {}, f[S \ {Max(S)}] \in V
      PROVE  Body(f, S) = F[Max(S)][f[S \ {Max(S)}]]
    <2>1. Max(S) \in 1..n
        BY <1>1, <1>4, MaxIsIn
    <2> HIDE DEF n, V
    <2>2. F[Max(S)][f[S \ {Max(S)}]] = Placed(f[S \ {Max(S)}], t[Max(S)])
        BY <1>4, <2>1
    <2> QED
        BY <1>4, <2>2
<1> HIDE DEF F, n, V
<1>5. PICK g : IsFold(g, F, n, V, << >>)
    <2> HIDE DEF iter, Body
    <2> QED
        BY <1>1, <1>3, FoldExists
<1>6. g = [S \in SUBSET (1..n) |-> Body(g, S)]
    <2>1. ASSUME NEW S \in SUBSET (1..n)
          PROVE  g[S] = Body(g, S)
        <3>1. CASE S = {}
            BY <1>5, <3>1 DEF IsFold
        <3>2. CASE S # {}
            <4> HIDE DEF Body
            <4> QED
                BY <1>4, <1>5, <3>2 DEF IsFold
        <3> QED
            BY <3>1, <3>2
    <2> HIDE DEF Body
    <2>2. DOMAIN g = SUBSET (1..n) /\ g = [S \in DOMAIN g |-> g[S]]
        BY <1>5 DEF IsFold
    <2> QED
        BY <2>1, <2>2
<1>7. iter = [S \in SUBSET (1..n) |-> Body(iter, S)]
    <2> HIDE DEF Body
    <2> QED
        BY <1>6
<1> HIDE DEF iter
<1>8. Folds(iter, F, n, V, << >>)
    <2>1. \A S \in SUBSET (1..n) : iter[S] = Body(iter, S)
        <3> HIDE DEF Body
        <3> QED
            BY <1>7
    <2>2. \A S \in SUBSET (1..n) : S = {} => iter[S] = << >>
        BY <2>1
    <2> HIDE DEF Body
    <2> QED
        BY <1>4, <2>1, <2>2 DEF Folds
<1>9. PICK h : IsRun(h, F, n, V, << >>) /\ h[n] = iter[1..n]
    <2> HIDE DEF Body
    <2> QED
        BY <1>1, <1>3, <1>8, FoldSteps
<1>10. \A k \in 1..n : h[k] = Placed(h[k - 1], t[k])
    <2>1. \A k \in 1..n : k - 1 \in 0..n
        BY <1>1
    <2>2. \A k \in 1..n, u \in V : F[k][u] = Placed(u, t[k])
        BY DEF F
    <2> QED
        BY <1>9, <2>1, <2>2 DEF IsRun
<1> QED
    BY <1>2, <1>9, <1>10 DEF IsRun, V, n

\* The members of a list with one more.
LEMMA ToSetAppend ==
    ASSUME NEW V, NEW s \in Seq(V), NEW x
    PROVE  ToSet(Append(s, x)) = ToSet(s) \cup {x}
<1> DEFINE u == Append(s, x)
           n == Len(s) + 1
<1>1. DOMAIN u = DOMAIN s \cup {n} /\ u[n] = x /\ (\A i \in DOMAIN s : u[i] = s[i]) /\ n \notin DOMAIN s
    OBVIOUS
<1> HIDE DEF u, n
<1>2. ToSet(u) = ToSet(s) \cup {x}
    BY <1>1 DEF ToSet
<1> QED
    BY <1>2 DEF u

\* What a row of merge_performances is merged by: undated rows are never merged.
DayTag(r) == IF r.day = None THEN <<None, r.id, r.id>> ELSE <<r.day, r.title, r.venue>>

SameTag(t, tag, i, k) == {j \in 1..k : tag[t[j]] = tag[t[i]]}

\* What the i-th row has become of the first k: the times of its show that day.
IsPerformances(v, t, tag, i, k) ==
    /\ v = [t[i] EXCEPT !.extraTimes = v.extraTimes, !.soldOut = v.soldOut]
    /\ ({v.time} \ {None}) \cup ToSet(v.extraTimes) = {t[j].time : j \in SameTag(t, tag, i, k)} \ {None}
    /\ v.soldOut <=> \A j \in SameTag(t, tag, i, k) : t[j].soldOut

\* Rows of single performances, of different events.
Different(t, n) ==
    /\ \A k \in 1..n : Single(t[k])
    /\ \A k, l \in 1..n : t[k].id = t[l].id => k = l

\* Rows have one tag if they are of one show on one day, or one event without a date.
LEMMA SameTags ==
    ASSUME NEW v \in Row, NEW r \in Row, v.day # None \/ r.day # None \/ v.id # r.id
    PROVE  DayTag(v) = DayTag(r) <=> SameShowAndDay(v, r)
  BY ViewsAssumption DEF DayTag, SameShowAndDay, SameShow

\* Each row goes on having the times of the performances it has absorbed.
LEMMA PerformancesBecome ==
    ASSUME NEW n \in Nat, NEW t \in Seq(Row), Len(t) = n, Different(t, n), NEW tag, NEW A, NEW good,
           tag = [r \in Row |-> DayTag(r)],
           A = [k \in 1..n |-> [r \in Row |-> WithTime(r, t[k])]],
           good = [k \in 0..n |-> [i \in 1..n |-> {v \in Row : IsPerformances(v, t, tag, i, k)}]]
    PROVE  Becomes(good, t, tag, A, n, Row)
<1>1. \A k \in 1..n : t[k] \in Row /\ Single(t[k])
    BY DEF Different, Single
<1>2. ASSUME NEW k \in 0..n, NEW i \in 1..n, NEW v
      PROVE  v \in good[k][i] <=> v \in Row /\ IsPerformances(v, t, tag, i, k)
    OBVIOUS
<1>3. ASSUME NEW k \in 0..n, NEW i \in 1..n, NEW v \in good[k][i]
      PROVE  v \in Row /\ tag[v] = tag[t[i]] /\ v.time = t[i].time
    <2>1. v \in Row /\ v = [t[i] EXCEPT !.extraTimes = v.extraTimes, !.soldOut = v.soldOut]
        BY <1>2 DEF IsPerformances
    <2>2. v.day = t[i].day /\ v.id = t[i].id /\ v.title = t[i].title /\ v.venue = t[i].venue /\ v.time = t[i].time
        BY ONLY ZenonT(30), <1>1, <2>1 DEF Row
    <2>3. DayTag(v) = DayTag(t[i])
        BY <2>2 DEF DayTag
    <2> QED
        BY <1>1, <2>1, <2>2, <2>3
<1>4. ASSUME NEW i \in 1..n, IsFirst(t, tag, i)
      PROVE  t[i] \in good[i][i]
    <2>1. SameTag(t, tag, i, i) = {i}
        <3>1. i \in 1..i /\ \A j \in 1..i : j = i \/ j \in 1..(i - 1)
            OBVIOUS
        <3>2. \A j \in 1..(i - 1) : tag[t[j]] # tag[t[i]]
            BY <1>4 DEF IsFirst
        <3>3. \A j \in 1..i : tag[t[j]] = tag[t[i]] <=> j = i
            BY <3>1, <3>2
        <3> QED
            BY <3>1, <3>3 DEF SameTag
    <2>2. t[i].extraTimes = << >> /\ t[i] = [t[i] EXCEPT !.extraTimes = t[i].extraTimes, !.soldOut = t[i].soldOut]
        BY <1>1 DEF Single, Row
    <2>3. IsPerformances(t[i], t, tag, i, i)
        <3>1. ToSet(t[i].extraTimes) = {}
            BY <2>2 DEF ToSet
        <3> QED
            BY <2>1, <2>2, <3>1 DEF IsPerformances
    <2> QED
        BY <1>1, <1>2, <2>3
<1>5. ASSUME NEW k \in 1..n, NEW i \in 1..n, i < k, NEW v \in good[k - 1][i]
      PROVE  IF tag[t[k]] = tag[t[i]] THEN A[k][v] \in good[k][i] ELSE v \in good[k][i]
    <2>1. k - 1 \in 0..n /\ k \in 0..n
        OBVIOUS
    <2>2. v \in Row /\ IsPerformances(v, t, tag, i, k - 1)
        BY <1>2, <2>1
    <2>3. CASE tag[t[k]] # tag[t[i]]
        <3>1. SameTag(t, tag, i, k) = SameTag(t, tag, i, k - 1)
            BY <2>3 DEF SameTag
        <3>2. IsPerformances(v, t, tag, i, k)
            BY <2>2, <3>1 DEF IsPerformances
        <3> QED
            BY <1>2, <2>1, <2>2, <2>3, <3>2
    <2>4. CASE tag[t[k]] = tag[t[i]]
        <3> DEFINE w == WithTime(v, t[k])
                   C == SameTag(t, tag, i, k - 1)
        <3>1. SameTag(t, tag, i, k) = C \cup {k} /\ k \notin C
            BY <2>4 DEF SameTag
        <3>2. /\ w \in Row
              /\ w = [v EXCEPT !.extraTimes = w.extraTimes, !.soldOut = v.soldOut /\ t[k].soldOut]
              /\ w.extraTimes = IF t[k].time \in {None, v.time} \cup ToSet(v.extraTimes)
                                THEN v.extraTimes ELSE Append(v.extraTimes, t[k].time)
            BY <1>1, <2>2, WithTimeKind
        <3>3. v = [t[i] EXCEPT !.extraTimes = v.extraTimes, !.soldOut = v.soldOut]
            BY <2>2 DEF IsPerformances
        <3>4. w.soldOut = (v.soldOut /\ t[k].soldOut) /\ w.time = v.time
            <4> HIDE DEF w
            <4>1. v \in Row
                BY <2>2
            <4> QED
                BY <3>2, <4>1 DEF Row
        <3>5. w = [t[i] EXCEPT !.extraTimes = w.extraTimes, !.soldOut = w.soldOut]
            <4> DEFINE x == w.extraTimes
                       y == w.soldOut
            <4>1. w = [v EXCEPT !.extraTimes = x, !.soldOut = y]
                BY <3>2, <3>4
            <4> HIDE DEF w, x, y
            <4>2. t[i] \in Row
                BY <1>1
            <4>3. w = [t[i] EXCEPT !.extraTimes = x, !.soldOut = y]
                BY <3>3, <4>1, <4>2 DEF Row
            <4> QED
                BY <4>3 DEF x, y
        <3> HIDE DEF w, C
        <3>6. ToSet(w.extraTimes) = IF t[k].time \in {None, v.time} \cup ToSet(v.extraTimes)
                                    THEN ToSet(v.extraTimes) ELSE ToSet(v.extraTimes) \cup {t[k].time}
            <4>1. v.extraTimes \in Seq(Maybe)
                BY <2>2 DEF Row
            <4>2. ToSet(Append(v.extraTimes, t[k].time)) = ToSet(v.extraTimes) \cup {t[k].time}
                BY <4>1, ToSetAppend
            <4> QED
                BY <3>2, <4>2
        <3>7. ({v.time} \ {None}) \cup ToSet(v.extraTimes) = {t[j].time : j \in C} \ {None}
            BY <2>2 DEF IsPerformances, C
        <3>8. {t[j].time : j \in C \cup {k}} = {t[j].time : j \in C} \cup {t[k].time}
            OBVIOUS
        <3>9. ({w.time} \ {None}) \cup ToSet(w.extraTimes) = {t[j].time : j \in C \cup {k}} \ {None}
            BY <3>4, <3>6, <3>7, <3>8
        <3>10. w.soldOut <=> \A j \in C \cup {k} : t[j].soldOut
            <4>1. v.soldOut <=> \A j \in C : t[j].soldOut
                BY <2>2 DEF IsPerformances, C
            <4> QED
                BY <3>4, <4>1
        <3>11. IsPerformances(w, t, tag, i, k)
            BY <3>1, <3>5, <3>9, <3>10 DEF IsPerformances
        <3>12. A[k][v] = w
            BY <2>2 DEF w
        <3> QED
            BY <1>2, <2>1, <2>4, <3>2, <3>11, <3>12
    <2> QED
        BY <2>3, <2>4
<1>6. \A k \in 1..n, i \in 1..n : \A v \in good[k][i] : v \in Row /\ tag[v] = tag[t[i]]
    BY <1>3
<1> QED
    BY <1>1, <1>4, <1>5, <1>6 DEF Becomes

\* The loop of merge_performances is a loop of merges.
LEMMA PerformancesAbsorb ==
    ASSUME NEW n \in Nat, NEW t \in Seq(Row), Len(t) = n, Different(t, n), NEW tag, NEW A, NEW F, NEW good,
           tag = [r \in Row |-> DayTag(r)],
           A = [k \in 1..n |-> [r \in Row |-> WithTime(r, t[k])]],
           F = [k \in 1..n |-> [u \in Seq(Row) |-> Placed(u, t[k])]],
           good = [k \in 0..n |-> [i \in 1..n |-> {v \in Row : IsPerformances(v, t, tag, i, k)}]]
    PROVE  Absorbs(F, t, tag, A, good, n, Row)
<1> SUFFICES ASSUME NEW k \in 1..n, NEW u \in Seq(Row),
                    \A j \in DOMAIN u : \E i \in 1..(k - 1) : u[j] \in good[k - 1][i]
             PROVE  /\ (\A j \in DOMAIN u : tag[u[j]] # tag[t[k]]) => F[k][u] = Append(u, t[k])
                    /\ \A j \in DOMAIN u :
                         /\ tag[u[j]] = tag[t[k]]
                         /\ \A i \in DOMAIN u : tag[u[i]] = tag[t[k]] => i = j
                         => F[k][u] = [u EXCEPT ![j] = A[k][u[j]]]
    BY DEF Absorbs
<1>1. F[k][u] = Placed(u, t[k]) /\ t[k] \in Row
    BY DEF Different, Single
<1>2. ASSUME NEW j \in DOMAIN u
      PROVE  /\ u[j] \in Row /\ A[k][u[j]] = WithTime(u[j], t[k])
             /\ tag[u[j]] = tag[t[k]] <=> SameShowAndDay(u[j], t[k])
    <2>1. u[j] \in Row
        OBVIOUS
    <2>2. PICK i \in 1..(k - 1) : u[j] \in good[k - 1][i]
        OBVIOUS
    <2>3. k - 1 \in 0..n /\ i \in 1..n /\ i # k
        OBVIOUS
    <2>4. IsPerformances(u[j], t, tag, i, k - 1)
        BY <2>2, <2>3
    <2>5. t[i] \in Row /\ t[i].id # t[k].id
        BY <2>3 DEF Different, Single
    <2>6. u[j].id = t[i].id
        BY ONLY <2>4, <2>5 DEF IsPerformances, Row
    <2>7. DayTag(u[j]) = DayTag(t[k]) <=> SameShowAndDay(u[j], t[k])
        BY <1>1, <2>1, <2>5, <2>6, SameTags
    <2> QED
        BY <1>1, <2>1, <2>7
<1>3. /\ (\A j \in DOMAIN u : ~SameShowAndDay(u[j], t[k])) => Placed(u, t[k]) = Append(u, t[k])
      /\ \A j \in DOMAIN u :
            SameShowAndDay(u[j], t[k]) /\ (\A i \in DOMAIN u : SameShowAndDay(u[i], t[k]) => i = j)
                => Placed(u, t[k]) = [u EXCEPT ![j] = WithTime(u[j], t[k])]
    BY <1>1, PlacedIs
<1>4. (\A j \in DOMAIN u : tag[u[j]] # tag[t[k]]) => F[k][u] = Append(u, t[k])
    BY ONLY <1>1, <1>2, <1>3
<1>5. ASSUME NEW j \in DOMAIN u, tag[u[j]] = tag[t[k]], \A i \in DOMAIN u : tag[u[i]] = tag[t[k]] => i = j
      PROVE  F[k][u] = [u EXCEPT ![j] = A[k][u[j]]]
    <2>1. SameShowAndDay(u[j], t[k]) /\ \A i \in DOMAIN u : SameShowAndDay(u[i], t[k]) => i = j
        BY ONLY <1>2, <1>5
    <2>2. Placed(u, t[k]) = [u EXCEPT ![j] = WithTime(u[j], t[k])]
        BY ONLY <1>3, <2>1
    <2> QED
        BY ONLY <1>1, <1>2, <2>2
<1> QED
    BY <1>4, <1>5

\* What merge_performances makes of the current rows.
Merged(m, rows) ==
    /\ m \in Seq(Row)
    /\ \A k, l \in DOMAIN m : k < l =>
        /\ m[k].day = None => m[l].day = None
        /\ m[l].day # None => m[k].day # None /\ m[k].day <= m[l].day
    /\ \A k, l \in DOMAIN m : SameShowAndDay(m[k], m[l]) => k = l
    /\ \A k \in DOMAIN m : \E i \in DOMAIN rows :
        m[k] = [rows[i] EXCEPT !.extraTimes = m[k].extraTimes, !.soldOut = m[k].soldOut]
    /\ \A i \in DOMAIN rows : rows[i].day # None =>
        \E k \in DOMAIN m :
            LET same == {j \in DOMAIN rows : SameShowAndDay(rows[j], rows[i])}
            IN /\ SameShowAndDay(m[k], rows[i])
               /\ ({m[k].time} \ {None}) \cup ToSet(m[k].extraTimes) = {rows[j].time : j \in same} \ {None}
               /\ \A j \in same : rows[j].time # None => m[k].time <= rows[j].time
               /\ m[k].soldOut <=> \A j \in same : rows[j].soldOut

\* merge_performances makes one row of the performances of a show on a day.
LEMMA MergedIs ==
    ASSUME NEW rows \in Seq(Row), Different(rows, Len(rows))
    PROVE  Merged(MergePerformances(rows), rows)
<1> DEFINE n == Len(rows)
           t == Sorted(rows)
           m == MergePerformances(rows)
           tag == [r \in Row |-> DayTag(r)]
           A == [k \in 1..n |-> [r \in Row |-> WithTime(r, t[k])]]
           F == [k \in 1..n |-> [u \in Seq(Row) |-> Placed(u, t[k])]]
           good == [k \in 0..n |-> [i \in 1..n |-> {v \in Row : IsPerformances(v, t, tag, i, k)}]]
<1>1. n \in Nat /\ DOMAIN rows = 1..n
      /\ \A k \in 1..n : rows[k] \in Row /\ Single(rows[k]) /\ WellDated(rows[k])
    BY DEF Different, Single
<1> HIDE DEF n
<1>2. t \in Seq(Row) /\ InTime(t, n) /\ \E p : SameRows(t, rows, p, n)
    BY <1>1, SortedRows DEF n
<1>3. PICK p : SameRows(t, rows, p, n)
    BY <1>2
<1>4. /\ DOMAIN t = 1..n /\ p \in [1..n -> 1..n]
      /\ \A k \in 1..n : t[k] = rows[p[k]]
      /\ \A k, l \in 1..n : p[k] = p[l] => k = l
      /\ \A i \in 1..n : \E k \in 1..n : p[k] = i
    BY <1>3 DEF SameRows
<1>5. Len(t) = n /\ Different(t, n)
    <2>1. Different(rows, n)
        BY DEF n
    <2> HIDE DEF t, tag, A, F, good
    <2>2. Len(t) = n
        BY <1>1, <1>2, <1>4
    <2>3. Different(t, n)
        <3>1. \A k \in 1..n : Single(t[k]) /\ t[k] = rows[p[k]] /\ p[k] \in 1..n
            BY <1>1, <1>4
        <3>2. \A k, l \in 1..n : t[k].id = t[l].id => p[k] = p[l]
            BY ONLY <2>1, <3>1 DEF Different
        <3> QED
            BY <1>4, <3>1, <3>2 DEF Different
    <2> QED
        BY <2>2, <2>3
<1>6. PICK h : h \in [0..n -> Seq(Row)] /\ h[0] = << >> /\ (\A k \in 1..n : h[k] = Placed(h[k - 1], t[k]))
               /\ h[n] = m
    <2> HIDE DEF t, m
    <2>1. t \in Seq(Row) /\ t = Sorted(rows)
        BY <1>2 DEF t
    <2> QED
        BY <1>5, <2>1, PerformancesRun DEF m
<1> HIDE DEF t, m
<1>7. IsRun(h, F, n, Seq(Row), << >>)
    <2>1. \A k \in 1..n : k - 1 \in 0..n
        BY <1>1
    <2> QED
        BY <1>6, <2>1 DEF IsRun
<1>8. Absorbs(F, t, tag, A, good, n, Row) /\ Becomes(good, t, tag, A, n, Row)
    <2> HIDE DEF F, A, good, tag
    <2>1. tag = [r \in Row |-> DayTag(r)]
        BY DEF tag
    <2>2. A = [k \in 1..n |-> [r \in Row |-> WithTime(r, t[k])]]
        BY DEF A
    <2>3. F = [k \in 1..n |-> [u \in Seq(Row) |-> Placed(u, t[k])]]
        BY DEF F
    <2>4. good = [k \in 0..n |-> [i \in 1..n |-> {v \in Row : IsPerformances(v, t, tag, i, k)}]]
        BY DEF good
    <2> QED
        BY <1>1, <1>2, <1>5, <2>1, <2>2, <2>3, <2>4, PerformancesAbsorb, PerformancesBecome
<1>9. PICK at : MergedAt(m, at, good, t, tag, n)
    <2> HIDE DEF F, A, good, tag
    <2>1. \E at : MergedAt(h[n], at, good, t, tag, n)
        BY <1>1, <1>7, <1>8, Merging
    <2> QED
        BY <1>6, <2>1
<1>0. /\ \A r \in Row : tag[r] = DayTag(r)
      /\ \A i \in 1..n : \A v \in good[n][i] : v \in Row /\ IsPerformances(v, t, tag, i, n)
    BY <1>1
<1> HIDE DEF tag, good, A, F
<1>10. m \in Seq(Row) /\ DOMAIN m \subseteq Nat
    <2>1. m \in Seq(Row)
        BY <1>1, <1>6
    <2> QED
        BY <2>1
<1>11. ASSUME NEW j \in DOMAIN m
       PROVE  /\ at[j] \in 1..n /\ IsFirst(t, tag, at[j])
              /\ m[j] \in Row /\ IsPerformances(m[j], t, tag, at[j], n)
              /\ m[j].day = t[at[j]].day /\ m[j].id = t[at[j]].id /\ m[j].title = t[at[j]].title
              /\ m[j].venue = t[at[j]].venue /\ m[j].time = t[at[j]].time
              /\ tag[m[j]] = tag[t[at[j]]]
    <2>1. at[j] \in 1..n /\ IsFirst(t, tag, at[j]) /\ m[j] \in good[n][at[j]]
        BY <1>9 DEF MergedAt
    <2>2. m[j] \in Row /\ IsPerformances(m[j], t, tag, at[j], n)
        BY <1>0, <2>1
    <2>3. t[at[j]] \in Row
        <3>1. \A k \in 1..n : p[k] \in 1..n /\ t[k] = rows[p[k]] /\ rows[p[k]] \in Row
            BY <1>1, <1>4
        <3> QED
            BY <2>1, <3>1
    <2>4. /\ m[j].day = t[at[j]].day /\ m[j].id = t[at[j]].id /\ m[j].title = t[at[j]].title
          /\ m[j].venue = t[at[j]].venue /\ m[j].time = t[at[j]].time
        BY <2>2, <2>3 DEF IsPerformances, Row
    <2>5. tag[m[j]] = tag[t[at[j]]]
        BY <1>0, <2>2, <2>3, <2>4 DEF DayTag
    <2> QED
        BY <2>1, <2>2, <2>4, <2>5
<1>12. ASSUME NEW k \in DOMAIN m, NEW l \in DOMAIN m, k < l
       PROVE  /\ m[k].day = None => m[l].day = None
              /\ m[l].day # None => m[k].day # None /\ m[k].day <= m[l].day
    <2>1. at[k] < at[l] /\ at[k] \in 1..n /\ at[l] \in 1..n
        BY <1>9, <1>11, <1>12 DEF MergedAt
    <2> QED
        BY <1>2, <1>11, <2>1 DEF InTime
<1>13. ASSUME NEW k \in DOMAIN m, NEW l \in DOMAIN m, SameShowAndDay(m[k], m[l])
       PROVE  k = l
    <2>1. DayTag(m[k]) = DayTag(m[l])
        BY <1>13, ViewsAssumption DEF SameShowAndDay, SameShow, DayTag
    <2>2. tag[t[at[k]]] = tag[t[at[l]]]
        BY <1>0, <1>11, <2>1
    <2> QED
        BY <1>1, <1>9, <1>10, <2>2, OneOfATag
<1>14. ASSUME NEW k \in DOMAIN m
       PROVE  \E i \in DOMAIN rows :
                m[k] = [rows[i] EXCEPT !.extraTimes = m[k].extraTimes, !.soldOut = m[k].soldOut]
    <2>1. m[k] = [t[at[k]] EXCEPT !.extraTimes = m[k].extraTimes, !.soldOut = m[k].soldOut]
        BY <1>11 DEF IsPerformances
    <2>2. at[k] \in 1..n
        BY <1>11
    <2>3. t[at[k]] = rows[p[at[k]]] /\ p[at[k]] \in DOMAIN rows
        BY <1>1, <1>4, <2>2
    <2> QED
        BY <2>1, <2>3
<1>15. ASSUME NEW i \in 1..n, rows[i].day # None
       PROVE  \E k \in DOMAIN m :
                LET same == {j \in DOMAIN rows : SameShowAndDay(rows[j], rows[i])}
                IN /\ SameShowAndDay(m[k], rows[i])
                   /\ ({m[k].time} \ {None}) \cup ToSet(m[k].extraTimes) = {rows[j].time : j \in same} \ {None}
                   /\ \A j \in same : rows[j].time # None => m[k].time <= rows[j].time
                   /\ m[k].soldOut <=> \A j \in same : rows[j].soldOut
    <2>1. PICK q \in 1..n : p[q] = i
        BY <1>4
    <2>2. PICK k \in DOMAIN m : tag[t[at[k]]] = tag[t[q]]
        BY <1>9 DEF MergedAt
    <2> DEFINE same == {j \in DOMAIN rows : SameShowAndDay(rows[j], rows[i])}
               C == SameTag(t, tag, at[k], n)
    <2>3. t[q] = rows[i] /\ t[q] \in Row /\ t[q].day # None
        BY <1>1, <1>4, <1>15, <2>1
    <2>4. ASSUME NEW r \in Row
          PROVE  tag[r] = tag[t[at[k]]] <=> SameShowAndDay(r, rows[i])
        <3>1. tag[r] = DayTag(r) /\ tag[t[q]] = DayTag(t[q])
            BY <1>0, <2>3
        <3>2. DayTag(r) = DayTag(t[q]) <=> SameShowAndDay(r, t[q])
            BY <2>3, SameTags
        <3> QED
            BY <2>2, <2>3, <3>1, <3>2
    <2>5. SameShowAndDay(m[k], rows[i])
        BY <1>11, <2>4
    <2>6. \A j \in 1..n : j \in C <=> p[j] \in same
        <3>1. \A j \in 1..n : t[j] \in Row /\ t[j] = rows[p[j]] /\ p[j] \in DOMAIN rows
            BY <1>1, <1>4
        <3> QED
            BY <2>4, <3>1 DEF SameTag
    <2>7. C \subseteq 1..n
        BY DEF SameTag
    <2>8. same \subseteq 1..n /\ \A j \in same : \E l \in C : p[l] = j
        BY <1>1, <1>4, <2>6
    <2>9. \A l \in C : p[l] \in same /\ t[l] = rows[p[l]]
        BY <1>4, <2>6, <2>7
    <2>0. IsPerformances(m[k], t, tag, at[k], n)
        BY <1>11
    <2>10. {t[l].time : l \in C} = {rows[j].time : j \in same}
        <3> HIDE DEF C, same
        <3>1. \A l \in C : t[l].time = rows[p[l]].time /\ p[l] \in same
            BY <2>9
        <3>2. \A j \in same : \E l \in C : t[l].time = rows[j].time
            BY <2>8, <2>9
        <3> QED
            BY ONLY <3>1, <3>2
    <2>11. ({m[k].time} \ {None}) \cup ToSet(m[k].extraTimes) = {rows[j].time : j \in same} \ {None}
        BY <2>0, <2>10 DEF IsPerformances
    <2>12. m[k].soldOut <=> \A j \in same : rows[j].soldOut
        <3>1. m[k].soldOut <=> \A l \in C : t[l].soldOut
            BY <2>0 DEF IsPerformances
        <3>2. (\A l \in C : t[l].soldOut) <=> \A j \in same : rows[j].soldOut
            <4> HIDE DEF C, same
            <4>1. \A l \in C : t[l].soldOut = rows[p[l]].soldOut /\ p[l] \in same
                BY <2>9
            <4>2. \A j \in same : \E l \in C : t[l].soldOut = rows[j].soldOut
                BY <2>8, <2>9
            <4> QED
                BY ONLY <4>1, <4>2
        <3> QED
            BY <3>1, <3>2
    <2>13. ASSUME NEW j \in same, rows[j].time # None
           PROVE  m[k].time <= rows[j].time
        <3>1. PICK l \in C : p[l] = j
            BY <2>8
        <3>2. l \in 1..n /\ t[l] = rows[j] /\ tag[t[l]] = tag[t[at[k]]]
            BY <2>9, <3>1 DEF SameTag
        <3>3. at[k] \in 1..n /\ m[k].time = t[at[k]].time /\ m[k].day = t[at[k]].day
            BY <1>11
        <3>4. CASE l = at[k]
            <4>1. m[k].time = rows[j].time /\ rows[j].time \in Int
                <5>1. rows[j].time \in Maybe
                    BY <1>1 DEF Row
                <5> QED
                    BY <2>13, <3>2, <3>3, <3>4, <5>1 DEF Maybe
            <4> QED
                BY <4>1
        <3>5. CASE l # at[k]
            <4>1. ~(l < at[k])
                <5>1. l < at[k] => l \in 1..(at[k] - 1)
                    BY <3>2, <3>3
                <5> QED
                    BY <1>11, <3>2, <5>1 DEF IsFirst
            <4>2. at[k] < l
                BY <3>2, <3>3, <3>5, <4>1
            <4>3. t[at[k]].day = t[l].day
                <5>1. SameShowAndDay(t[l], rows[i]) /\ SameShowAndDay(m[k], rows[i])
                    BY <2>5, <3>1, <3>2
                <5> QED
                    BY <3>3, <5>1 DEF SameShowAndDay
            <4> QED
                BY <1>2, <2>13, <3>2, <3>3, <4>2, <4>3 DEF InTime
        <3> QED
            BY <3>4, <3>5
    <2> QED
        BY <2>5, <2>11, <2>12, <2>13
<1>16. Merged(m, rows)
    BY <1>1, <1>10, <1>12, <1>13, <1>14, <1>15 DEF Merged
<1> QED
    BY <1>16 DEF m

\* The rows of a page are of different events.
LEMMA CurrentRowsDiffer ==
    ASSUME DedupTypeOK, NEW wl
    PROVE  RowsFor(wl) \in Seq(Row) /\ Different(RowsFor(wl), Len(RowsFor(wl)))
<1> DEFINE rows == RowsFor(wl)
<1>1. /\ rows \in Seq(Row)
      /\ \A k \in DOMAIN rows : Single(rows[k])
      /\ \A k, l \in DOMAIN rows : rows[k].id = rows[l].id => k = l
    BY PageRows
<1> HIDE DEF rows
<1>2. DOMAIN rows = 1..Len(rows)
    BY <1>1
<1>3. Different(rows, Len(rows))
    BY <1>1, <1>2 DEF Different
<1> QED
    BY <1>1, <1>3 DEF rows

\* So no time is lost in any state of the catalogue.
LEMMA TimesAreKept ==
    ASSUME DedupTypeOK
    PROVE  MergeKeepsTimes
<1> DEFINE rows == CurrentRows
           m == MergePerformances(rows)
           merged == ToSet(m)
           times(of) == {r.time : r \in {r \in ToSet(rows) : SameShowAndDay(r, of)}} \ {None}
<1>1. rows \in Seq(Row) /\ Merged(m, rows)
    BY CurrentRowsDiffer, MergedIs DEF CurrentRows
<1> SUFFICES ASSUME NEW row \in ToSet(rows), row.day # None
             PROVE  \E v \in merged :
                        /\ SameShowAndDay(v, row)
                        /\ \A other \in merged : SameShowAndDay(other, row) => other = v
                        /\ ({v.time} \ {None}) \cup ToSet(v.extraTimes) = times(row)
                        /\ \A r \in ToSet(rows) : SameShowAndDay(r, row) /\ r.time # None => v.time <= r.time
                        /\ v.soldOut <=> \A r \in ToSet(rows) : SameShowAndDay(r, row) => r.soldOut
    BY DEF MergeKeepsTimes
<1>0. /\ \A r \in ToSet(rows) : \E i \in DOMAIN rows : rows[i] = r
      /\ \A i \in DOMAIN rows : rows[i] \in ToSet(rows)
      /\ \A r \in merged : \E k \in DOMAIN m : m[k] = r
      /\ \A k \in DOMAIN m : m[k] \in merged
    BY DEF ToSet
<1> HIDE DEF rows, m, merged
<1>2. PICK i \in DOMAIN rows : rows[i] = row
    BY <1>0
<1> DEFINE same == {j \in DOMAIN rows : SameShowAndDay(rows[j], rows[i])}
<1>3. PICK k \in DOMAIN m :
          /\ SameShowAndDay(m[k], rows[i])
          /\ ({m[k].time} \ {None}) \cup ToSet(m[k].extraTimes) = {rows[j].time : j \in same} \ {None}
          /\ \A j \in same : rows[j].time # None => m[k].time <= rows[j].time
          /\ m[k].soldOut <=> \A j \in same : rows[j].soldOut
    BY <1>1, <1>2 DEF Merged
<1>4. ASSUME NEW other \in merged, SameShowAndDay(other, row)
      PROVE  other = m[k]
    <2>1. PICK l \in DOMAIN m : m[l] = other
        BY <1>0
    <2>2. SameShowAndDay(m[k], m[l])
        BY <1>2, <1>3, <1>4, <2>1 DEF SameShowAndDay, SameShow
    <2> QED
        BY <1>1, <2>1, <2>2 DEF Merged
<1>5. {rows[j].time : j \in same} = {r.time : r \in {r \in ToSet(rows) : SameShowAndDay(r, row)}}
    BY <1>0, <1>2
<1>6. \A r \in ToSet(rows) : SameShowAndDay(r, row) /\ r.time # None => m[k].time <= r.time
    BY <1>0, <1>2, <1>3
<1>7. m[k].soldOut <=> \A r \in ToSet(rows) : SameShowAndDay(r, row) => r.soldOut
    <2>1. (\A j \in same : rows[j].soldOut) <=> \A r \in ToSet(rows) : SameShowAndDay(r, row) => r.soldOut
        BY <1>0, <1>2
    <2> QED
        BY <1>3, <2>1
<1>8. m[k] \in merged /\ SameShowAndDay(m[k], row)
    BY <1>0, <1>2, <1>3
<1> QED
    BY <1>3, <1>4, <1>5, <1>6, <1>7, <1>8

\* A show has one row per day, with every time of its performances that day, from the
\* earliest one, and sold out only if each of them is (web/listing.py:151-154).
THEOREM PerformancesKeepTheirTimes == Spec => []MergeKeepsTimes
<1>1. DedupInv => MergeKeepsTimes
    BY TimesAreKept DEF DedupInv
<1> QED
    BY <1>1, CatalogueIsDedup, Linking, PTL

-----------------------------------------------------------------------------
(* runs_last and the labels of sections.                                   *)

\* The block of runs_last that a row is in: to come, playing already or undated.
Block(r, d) == IF r.day = None THEN 3 ELSE IF r.day >= d THEN 1 ELSE 2

\* The rows of a block.
LEMMA OnlyIs ==
    ASSUME NEW m \in Seq(Row), NEW b, NEW d \in Int
    PROVE  LET I == {i \in DOMAIN m : Block(m[i], d) = b}
               t == Picked(m, I)
           IN t \in Seq(Row) /\ \E at : IsPicked(t, m, I, at)
<1> DEFINE I == {i \in DOMAIN m : Block(m[i], d) = b}
<1>1. I \subseteq DOMAIN m
    OBVIOUS
<1> HIDE DEF I
<1>2. Picked(m, I) \in Seq(Row) /\ \E at : IsPicked(Picked(m, I), m, I, at)
    BY <1>1, PickedIs
<1> QED
    BY <1>2 DEF I

\* src tells where in m the rows of s come from: each comes once, by blocks, and those to
\* come in their order.
Rearranged(s, m, src, d) ==
    /\ src \in [DOMAIN s -> DOMAIN m]
    /\ \A i \in DOMAIN s : s[i] = m[src[i]]
    /\ \A i, j \in DOMAIN s : src[i] = src[j] => i = j
    /\ \A k \in DOMAIN m : \E i \in DOMAIN s : src[i] = k
    /\ \A i, j \in DOMAIN s : i < j =>
        /\ Block(s[i], d) <= Block(s[j], d)
        /\ Block(s[j], d) = 1 => src[i] < src[j]

\* runs_last moves whole blocks and keeps what is to come in its order.
LEMMA RunsLastIs ==
    ASSUME NEW m \in Seq(Row), NEW d \in Int
    PROVE  RunsLast(m, d) \in Seq(Row) /\ \E src : Rearranged(RunsLast(m, d), m, src, d)
<1> DEFINE I(b) == {i \in DOMAIN m : Block(m[i], d) = b}
           A == Picked(m, I(1))
           B == Picked(m, I(2))
           C == Picked(m, I(3))
           s == A \o B \o C
<1>1. RunsLast(m, d) = s
    <2>8. \A i \in DOMAIN m : m[i] \in Row
        OBVIOUS
    <2>9. \A r \in Row : r.day \in Maybe
        BY DEF Row
    <2>0. NoDate = None /\ None \notin Int /\ \A i \in DOMAIN m : m[i].day \in Maybe
        BY <2>8, <2>9, ListingAssumption, ViewsAssumption
    <2>1. {i \in DOMAIN m : m[i].day # NoDate /\ m[i].day >= d} = I(1)
        BY <2>0 DEF Block
    <2>2. {i \in DOMAIN m : m[i].day # NoDate /\ m[i].day < d} = I(2)
        BY <2>0 DEF Block, Maybe
    <2>3. {i \in DOMAIN m : m[i].day = NoDate} = I(3)
        BY <2>0 DEF Block
    <2> HIDE DEF I
    <2> QED
        BY <2>1, <2>2, <2>3 DEF RunsLast, Only
<1>2. A \in Seq(Row) /\ \E at : IsPicked(A, m, I(1), at)
    BY OnlyIs
<1>3. B \in Seq(Row) /\ \E at : IsPicked(B, m, I(2), at)
    BY OnlyIs
<1>4. C \in Seq(Row) /\ \E at : IsPicked(C, m, I(3), at)
    BY OnlyIs
<1>0. /\ \A b, c \in {1, 2, 3} : b # c => I(b) \cap I(c) = {}
      /\ \A k \in DOMAIN m : k \in I(1) \/ k \in I(2) \/ k \in I(3)
      /\ \A b \in {1, 2, 3} : \A k \in I(b) : k \in DOMAIN m /\ Block(m[k], d) = b
    BY DEF Block
<1> HIDE DEF I, A, B, C
<1>5. PICK a : IsPicked(A, m, I(1), a)
    BY <1>2
<1>6. PICK b : IsPicked(B, m, I(2), b)
    BY <1>3
<1>7. PICK c : IsPicked(C, m, I(3), c)
    BY <1>4
<1> DEFINE x == Len(A)
           y == Len(A) + Len(B)
           z == Len(A) + Len(B) + Len(C)
           src == [i \in 1..z |-> IF i <= x THEN a[i] ELSE IF i <= y THEN b[i - x] ELSE c[i - y]]
<1>8. /\ x \in Nat /\ y \in Nat /\ z \in Nat /\ x <= y /\ y <= z
      /\ DOMAIN A = 1..x /\ DOMAIN B = 1..(y - x) /\ DOMAIN C = 1..(z - y)
    BY <1>2, <1>3, <1>4
<1>9. /\ s \in Seq(Row) /\ DOMAIN s = 1..z
      /\ \A i \in 1..z : s[i] = IF i <= x THEN A[i] ELSE IF i <= y THEN B[i - x] ELSE C[i - y]
    BY <1>2, <1>3, <1>4
<1> HIDE DEF x, y, z, s
\* Each place in s has its block.
<1>10. ASSUME NEW i \in 1..z
       PROVE  \/ i <= x /\ i \in DOMAIN A /\ src[i] = a[i] /\ src[i] \in I(1) /\ s[i] = A[i]
              \/ ~(i <= x) /\ i <= y /\ i - x \in DOMAIN B /\ src[i] = b[i - x] /\ src[i] \in I(2) /\ s[i] = B[i - x]
              \/ ~(i <= x) /\ ~(i <= y) /\ i - y \in DOMAIN C /\ src[i] = c[i - y] /\ src[i] \in I(3) /\ s[i] = C[i - y]
    <2>1. CASE i <= x
        <3>1. i \in DOMAIN A /\ src[i] = a[i] /\ s[i] = A[i]
            BY <1>8, <1>9, <2>1
        <3> QED
            BY <1>5, <2>1, <3>1 DEF IsPicked
    <2>2. CASE ~(i <= x) /\ i <= y
        <3>1. i - x \in DOMAIN B /\ src[i] = b[i - x] /\ s[i] = B[i - x]
            BY <1>8, <1>9, <2>2
        <3> QED
            BY <1>6, <2>2, <3>1 DEF IsPicked
    <2>3. CASE ~(i <= x) /\ ~(i <= y)
        <3>1. i - y \in DOMAIN C /\ src[i] = c[i - y] /\ s[i] = C[i - y]
            BY <1>8, <1>9, <2>3
        <3> QED
            BY <1>7, <2>3, <3>1 DEF IsPicked
    <2> QED
        BY <2>1, <2>2, <2>3
<1>11. DOMAIN src = 1..z
    OBVIOUS
<1>18. ASSUME NEW k \in I(1)
       PROVE  \E i \in 1..z : src[i] = k
    <2>1. PICK i \in DOMAIN A : a[i] = k
        BY <1>5 DEF IsPicked
    <2>2. i \in 1..z /\ i <= x
        BY <1>8, <2>1
    <2> QED
        BY <2>1, <2>2
<1>19. ASSUME NEW k \in I(2)
       PROVE  \E i \in 1..z : src[i] = k
    <2>1. PICK i \in DOMAIN B : b[i] = k
        BY <1>6 DEF IsPicked
    <2>2. i + x \in 1..z /\ ~(i + x <= x) /\ i + x <= y /\ (i + x) - x = i
        BY <1>8, <2>1
    <2>3. src[i + x] = b[i]
        BY <2>2
    <2> QED
        BY <2>1, <2>2, <2>3
<1>20. ASSUME NEW k \in I(3)
       PROVE  \E i \in 1..z : src[i] = k
    <2>1. PICK i \in DOMAIN C : c[i] = k
        BY <1>7 DEF IsPicked
    <2>2. i + y \in 1..z /\ ~(i + y <= x) /\ ~(i + y <= y) /\ (i + y) - y = i
        BY <1>8, <2>1
    <2>3. src[i + y] = c[i]
        BY <2>2
    <2> QED
        BY <2>1, <2>2, <2>3
<1> HIDE DEF src
<1>12. ASSUME NEW i \in 1..z
       PROVE  src[i] \in DOMAIN m /\ s[i] = m[src[i]] /\ src[i] \in I(Block(s[i], d))
    BY <1>0, <1>5, <1>6, <1>7, <1>10 DEF IsPicked
<1>13. ASSUME NEW i \in 1..z, NEW j \in 1..z, i < j
       PROVE  /\ Block(s[i], d) <= Block(s[j], d)
              /\ Block(s[i], d) = Block(s[j], d) => src[i] < src[j]
    <2>0. /\ i <= x /\ src[i] \in I(1) => Block(s[i], d) = 1
          /\ \A k \in 1..z : (src[k] \in I(1) => Block(s[k], d) = 1) /\ (src[k] \in I(2) => Block(s[k], d) = 2)
                /\ (src[k] \in I(3) => Block(s[k], d) = 3)
        BY <1>0, <1>12
    <2>1. CASE i <= x /\ j <= x
        <3>1. src[i] = a[i] /\ src[j] = a[j] /\ i \in DOMAIN A /\ j \in DOMAIN A
            BY <1>10, <2>1
        <3> QED
            BY <1>5, <1>10, <1>13, <2>0, <2>1, <3>1 DEF IsPicked
    <2>2. CASE i <= x /\ ~(j <= x)
        BY <1>10, <2>0, <2>2
    <2>3. CASE ~(i <= x) /\ i <= y /\ j <= y
        <3>1. ~(j <= x)
            BY <1>8, <1>13, <2>3
        <3>2. src[i] = b[i - x] /\ src[j] = b[j - x] /\ i - x \in DOMAIN B /\ j - x \in DOMAIN B /\ i - x < j - x
            BY <1>8, <1>10, <1>13, <2>3, <3>1
        <3>3. src[i] < src[j]
            BY <1>6, <3>2 DEF IsPicked
        <3> QED
            BY <1>10, <2>0, <2>3, <3>1, <3>3
    <2>4. CASE ~(i <= x) /\ i <= y /\ ~(j <= y)
        <3>1. ~(j <= x)
            BY <1>8, <1>13, <2>4
        <3> QED
            BY <1>10, <2>0, <2>4, <3>1
    <2>5. CASE ~(i <= x) /\ ~(i <= y)
        <3>1. ~(j <= x) /\ ~(j <= y)
            BY <1>8, <1>13, <2>5
        <3>2. src[i] = c[i - y] /\ src[j] = c[j - y] /\ i - y \in DOMAIN C /\ j - y \in DOMAIN C /\ i - y < j - y
            BY <1>8, <1>10, <1>13, <2>5, <3>1
        <3>3. src[i] < src[j]
            BY <1>7, <3>2 DEF IsPicked
        <3> QED
            BY <1>10, <2>0, <2>5, <3>1, <3>3
    <2> QED
        BY <2>1, <2>2, <2>3, <2>4, <2>5
<1>14. ASSUME NEW i \in 1..z, NEW j \in 1..z, i < j
       PROVE  Block(s[j], d) = 1 => src[i] < src[j]
    <2>1. Block(s[i], d) \in {1, 2, 3}
        BY DEF Block
    <2> QED
        BY <1>13, <1>14, <2>1
<1>15. ASSUME NEW i \in 1..z, NEW j \in 1..z, src[i] = src[j]
       PROVE  i = j
    <2>1. s[i] = s[j] /\ src[i] \in DOMAIN m /\ src[j] \in DOMAIN m /\ DOMAIN m \subseteq Nat
        BY <1>12, <1>15
    <2>2. ~(i < j) /\ ~(j < i)
        BY <1>13, <1>15, <2>1
    <2> QED
        BY <2>2
<1>16. \A k \in DOMAIN m : \E i \in 1..z : src[i] = k
    BY <1>0, <1>18, <1>19, <1>20
<1>17. Rearranged(s, m, src, d)
    <2>1. src \in [1..z -> DOMAIN m]
        <3>1. src = [i \in 1..z |-> src[i]]
            BY DEF src
        <3> QED
            BY <1>12, <3>1
    <2> QED
        BY <1>9, <1>12, <1>13, <1>14, <1>15, <1>16, <2>1 DEF Rearranged
<1> QED
    BY <1>1, <1>9, <1>17

\* A number between two with the same quotient has it as well.
LEMMA DivBetween ==
    ASSUME NEW a \in Int, NEW b \in Int, NEW c \in Int, NEW m \in Nat \ {0}, a <= b, b <= c, a \div m = c \div m
    PROVE  b \div m = c \div m
<1> DEFINE q == a \div m
           p == b \div m
<1>1. q \in Int /\ m * q <= a /\ c < m * q + m
    <2>1. q \in Int /\ a % m \in 0..(m - 1) /\ a = m * q + (a % m)
        BY Divided
    <2>2. c % m \in 0..(m - 1) /\ c = m * (c \div m) + (c % m)
        BY Divided
    <2> HIDE DEF q
    <2>3. c = m * q + (c % m)
        BY <2>2 DEF q
    <2> QED
        BY <2>1, <2>2, <2>3
<1>2. p \in Int /\ m * p <= b /\ b < m * p + m
    <2>1. p \in Int /\ b % m \in 0..(m - 1) /\ b = m * p + (b % m)
        BY Divided
    <2> HIDE DEF p
    <2> QED
        BY <2>1
<1> HIDE DEF p, q
<1>3. m * q < m * p + m /\ m * p < m * q + m
    BY <1>1, <1>2
<1>4. ~(p > q)
    <2>1. p > q => p - q - 1 \in Nat /\ m * p = m * q + m + m * (p - q - 1)
        BY <1>1, <1>2
    <2>2. p - q - 1 \in Nat => m * (p - q - 1) >= 0
        OBVIOUS
    <2> QED
        BY <1>1, <1>2, <1>3, <2>1, <2>2
<1>5. ~(q > p)
    <2>1. q > p => q - p - 1 \in Nat /\ m * q = m * p + m + m * (q - p - 1)
        BY <1>1, <1>2
    <2>2. q - p - 1 \in Nat => m * (q - p - 1) >= 0
        OBVIOUS
    <2> QED
        BY <1>1, <1>2, <1>3, <2>1, <2>2
<1> QED
    BY <1>1, <1>2, <1>4, <1>5 DEF p, q

\* What a label says first.
Says(l) == l[1]

\* The labels differ in what they say.
LEMMA SaysWhat ==
    /\ Says(<<"Date TBA">>) = "Date TBA" /\ Says(<<"Now showing">>) = "Now showing"
    /\ Says(<<"Today">>) = "Today" /\ Says(<<"Tomorrow">>) = "Tomorrow"
    /\ Says(<<"This weekend">>) = "This weekend" /\ Says(<<"This week">>) = "This week"
    /\ Says(<<"Next week">>) = "Next week"
    /\ \A x : Says(<<"Month", x>>) = "Month"
    /\ \A x, y : <<"Month", x>> = <<"Month", y>> => x = y
  BY DEF Says

\* The kinds of section of the days to come, in their order but for the weekend.
DayKind(x, d) ==
    IF x = d THEN "Today" ELSE IF x = d + 1 THEN "Tomorrow"
    ELSE IF Sunday(d) - 2 <= x /\ x <= Sunday(d) THEN "This weekend"
    ELSE IF x <= Sunday(d) THEN "This week" ELSE IF x <= Sunday(d) + 7 THEN "Next week" ELSE "Month"

\* The label of a day to come.
LEMMA LabelOfDay ==
    ASSUME NEW d \in Int, NEW x \in Int, d <= x
    PROVE  /\ Says(SectionLabel(x, d)) = DayKind(x, d)
           /\ DayKind(x, d) # "Month" => SectionLabel(x, d) = <<DayKind(x, d)>>
           /\ DayKind(x, d) = "Month" => SectionLabel(x, d) = <<"Month", Month(x)>>
<1>1. Sunday(d) \in Int /\ Friday(d) = Sunday(d) - 2 /\ x # NoDate /\ ~(x < d)
    <2>1. 7 \in Nat \ {0} /\ d % 7 \in Int
        BY Divided
    <2> QED
        BY <2>1, ListingAssumption DEF Sunday, Weekday, Friday
<1>2. x \in Friday(d)..Sunday(d) <=> Sunday(d) - 2 <= x /\ x <= Sunday(d)
    BY <1>1
<1>3. CASE x = d
    <2>0. x # d + 1
        BY <1>3
    <2>1. SectionLabel(x, d) = <<"Today">> /\ DayKind(x, d) = "Today"
        BY <1>1, <1>3, <2>0 DEF SectionLabel, DayKind
    <2> QED
        BY <2>1, SaysWhat
<1>4. CASE x # d /\ x = d + 1
    <2>1. SectionLabel(x, d) = <<"Tomorrow">> /\ DayKind(x, d) = "Tomorrow"
        BY <1>1, <1>4 DEF SectionLabel, DayKind
    <2> QED
        BY <2>1, SaysWhat
<1>5. CASE x # d /\ x # d + 1
    <2>1. SectionLabel(x, d) =
            IF x \in Friday(d)..Sunday(d) THEN <<"This weekend">>
            ELSE IF x <= Sunday(d) THEN <<"This week">>
            ELSE IF x <= Sunday(d) + 7 THEN <<"Next week">>
            ELSE <<"Month", Month(x)>>
        BY <1>1, <1>5 DEF SectionLabel
    <2>2. DayKind(x, d) =
            IF x \in Friday(d)..Sunday(d) THEN "This weekend"
            ELSE IF x <= Sunday(d) THEN "This week"
            ELSE IF x <= Sunday(d) + 7 THEN "Next week" ELSE "Month"
        BY <1>2, <1>5 DEF DayKind
    <2> HIDE <1>1, <1>2
    <2> QED
        BY <2>1, <2>2, SaysWhat, Zenon
<1> QED
    BY <1>3, <1>4, <1>5

\* The labels of three days to come, in their order.
LEMMA LabelsConvex ==
    ASSUME NEW d \in Int, NEW a \in Int, NEW b \in Int, NEW c \in Int, d <= a, a <= b, b <= c,
           SectionLabel(a, d) = SectionLabel(c, d)
    PROVE  SectionLabel(b, d) = SectionLabel(c, d)
<1>1. Sunday(d) \in Int /\ d <= b /\ d <= c
    <2>1. 7 \in Nat \ {0} /\ d % 7 \in Int
        BY Divided
    <2> QED
        BY <2>1 DEF Sunday, Weekday
<1>2. DayKind(a, d) = DayKind(c, d)
    BY <1>1, LabelOfDay
<1>3. DayKind(b, d) = DayKind(c, d)
    <2> DEFINE S == Sunday(d)
               later(x) == x # d /\ x # d + 1
    <2>1. S \in Int
        BY <1>1
    <2>2. ASSUME NEW x \in Int, d <= x
          PROVE  /\ DayKind(x, d) = "Today" <=> x = d
                 /\ DayKind(x, d) = "Tomorrow" <=> x = d + 1
                 /\ DayKind(x, d) = "This weekend" <=> later(x) /\ S - 2 <= x /\ x <= S
                 /\ DayKind(x, d) = "This week" <=> later(x) /\ x < S - 2
                 /\ DayKind(x, d) = "Next week" <=> later(x) /\ S < x /\ x <= S + 7
                 /\ DayKind(x, d) = "Month" <=> later(x) /\ S + 7 < x
                 /\ DayKind(x, d) \in {"Today", "Tomorrow", "This weekend", "This week", "Next week", "Month"}
        BY <2>1, <2>2 DEF DayKind
    <2> HIDE DEF S
    <2>3. CASE DayKind(c, d) = "Today"
        <3>1. a = d /\ c = d
            BY <1>1, <1>2, <2>2, <2>3
        <3>2. b = d
            BY <3>1
        <3> QED
            BY <3>1, <3>2
    <2>4. CASE DayKind(c, d) = "Tomorrow"
        <3>1. a = d + 1 /\ c = d + 1
            BY <1>1, <1>2, <2>2, <2>4
        <3>2. b = d + 1
            BY <2>1, <3>1
        <3> QED
            BY <1>1, <2>2, <2>4, <3>2
    <2>5. CASE DayKind(c, d) = "This weekend"
        <3>1. later(a) /\ S - 2 <= a /\ a <= S /\ later(c) /\ S - 2 <= c /\ c <= S
            BY <1>1, <1>2, <2>2, <2>5
        <3>2. later(b) /\ S - 2 <= b /\ b <= S
            BY <2>1, <3>1
        <3> QED
            BY <1>1, <2>2, <2>5, <3>2
    <2>6. CASE DayKind(c, d) = "This week"
        <3>1. later(a) /\ a < S - 2 /\ later(c) /\ c < S - 2
            BY <1>1, <1>2, <2>2, <2>6
        <3>2. later(b) /\ b < S - 2
            BY <2>1, <3>1
        <3> QED
            BY <1>1, <2>2, <2>6, <3>2
    <2>7. CASE DayKind(c, d) = "Next week"
        <3>1. later(a) /\ S < a /\ a <= S + 7 /\ later(c) /\ S < c /\ c <= S + 7
            BY <1>1, <1>2, <2>2, <2>7
        <3>2. later(b) /\ S < b /\ b <= S + 7
            BY <2>1, <3>1
        <3> QED
            BY <1>1, <2>2, <2>7, <3>2
    <2>8. CASE DayKind(c, d) = "Month"
        <3>1. later(a) /\ S + 7 < a /\ later(c) /\ S + 7 < c
            BY <1>1, <1>2, <2>2, <2>8
        <3>2. later(b) /\ S + 7 < b
            BY <2>1, <3>1
        <3> QED
            BY <1>1, <2>2, <2>8, <3>2
    <2> QED
        BY <1>1, <2>2, <2>3, <2>4, <2>5, <2>6, <2>7, <2>8
<1>4. CASE DayKind(c, d) = "Month"
    <2>1. SectionLabel(a, d) = <<"Month", Month(a)>> /\ SectionLabel(c, d) = <<"Month", Month(c)>>
          /\ SectionLabel(b, d) = <<"Month", Month(b)>>
        BY <1>1, <1>2, <1>3, <1>4, LabelOfDay
    <2>2. Month(a) = Month(c)
        BY <2>1, SaysWhat
    <2>3. MonthLen \in Nat \ {0}
        BY ListingAssumption
    <2>4. Month(b) = Month(c)
        BY <2>2, <2>3, DivBetween DEF Month
    <2> QED
        BY <2>1, <2>4
<1>5. CASE DayKind(c, d) # "Month"
    <2>1. SectionLabel(b, d) = <<DayKind(b, d)>> /\ SectionLabel(c, d) = <<DayKind(c, d)>>
        BY <1>1, <1>3, <1>5, LabelOfDay
    <2> QED
        BY <1>3, <2>1
<1> QED
    BY <1>4, <1>5

\* What the label of a row's block says.
LEMMA BlockSays ==
    ASSUME NEW d \in Int, NEW r \in Row
    PROVE  /\ Block(r, d) \in {1, 2, 3}
           /\ Block(r, d) = 1 => r.day \in Int /\ d <= r.day
           /\ Block(r, d) = 2 => SectionLabel(r.day, d) = <<"Now showing">>
           /\ Block(r, d) = 3 => SectionLabel(r.day, d) = <<"Date TBA">>
<1>1. r.day \in Maybe /\ NoDate = None /\ None \notin Int
    BY ListingAssumption, ViewsAssumption DEF Row
<1>2. Block(r, d) = 1 => r.day \in Int /\ d <= r.day
    BY <1>1 DEF Block, Maybe
<1>3. Block(r, d) = 2 => r.day # NoDate /\ r.day < d
    BY <1>1 DEF Block, Maybe
<1>4. Block(r, d) = 3 => r.day = NoDate
    BY <1>1 DEF Block, Maybe
<1>5. ASSUME r.day # NoDate, r.day < d
      PROVE  SectionLabel(r.day, d) = <<"Now showing">>
    <2>1. r.day # d /\ r.day # d + 1
        BY <1>1, <1>5 DEF Maybe
    <2> QED
        BY <1>5, <2>1 DEF SectionLabel
<1>6. ASSUME r.day = NoDate
      PROVE  SectionLabel(r.day, d) = <<"Date TBA">>
    <2>1. r.day # d /\ r.day # d + 1
        BY <1>1, <1>6
    <2> QED
        BY <1>6, <2>1 DEF SectionLabel
<1>7. Block(r, d) \in {1, 2, 3}
    BY DEF Block
<1> QED
    BY <1>2, <1>3, <1>4, <1>5, <1>6, <1>7

\* Rows of different blocks have different labels.
LEMMA BlockLabels ==
    ASSUME NEW d \in Int, NEW r \in Row, NEW s \in Row, SectionLabel(r.day, d) = SectionLabel(s.day, d)
    PROVE  Block(r, d) = Block(s, d)
<1>1. ASSUME NEW v \in Row
      PROVE  /\ Block(v, d) \in {1, 2, 3}
             /\ Block(v, d) = 1 => Says(SectionLabel(v.day, d)) \notin {"Now showing", "Date TBA"}
             /\ Block(v, d) = 2 => Says(SectionLabel(v.day, d)) = "Now showing"
             /\ Block(v, d) = 3 => Says(SectionLabel(v.day, d)) = "Date TBA"
    <2>1. Block(v, d) = 1 => Says(SectionLabel(v.day, d)) = DayKind(v.day, d)
        BY BlockSays, LabelOfDay
    <2>2. DayKind(v.day, d) \notin {"Now showing", "Date TBA"}
        BY DEF DayKind
    <2> QED
        BY <2>1, <2>2, BlockSays, SaysWhat
<1> QED
    BY <1>1

\* A function on 1..n is a list.
LEMMA SeqIs ==
    ASSUME NEW V, NEW n \in Nat, NEW s, DOMAIN s = 1..n, s = [i \in 1..n |-> s[i]], \A i \in 1..n : s[i] \in V
    PROVE  s \in Seq(V) /\ Len(s) = n
  OBVIOUS

\* No label comes back after another one in a list of sections.
LEMMA SectionLabelsOnce ==
    ASSUME NEW rows \in Seq(Row), Different(rows, Len(rows)), NEW d \in Int
    PROVE  IsInjective(Labels(Sections(rows, d)))
<1> DEFINE m == MergePerformances(rows)
           s == RunsLast(m, d)
           e == [i \in DOMAIN s |-> [label |-> SectionLabel(s[i].day, d), row |-> s[i]]]
           L == {SectionLabel(r.day, d) : r \in Row}
<1>1. Merged(m, rows)
    BY MergedIs
<1>2. Sections(rows, d) = Grouped(e)
    BY DEF Sections, Labelled
<1> HIDE DEF m
<1>3. m \in Seq(Row)
    BY <1>1 DEF Merged
<1>4. s \in Seq(Row) /\ \E src : Rearranged(s, m, src, d)
    BY <1>3, RunsLastIs
<1> HIDE DEF s
<1>5. PICK src : Rearranged(s, m, src, d)
    BY <1>4
<1>6. \A i \in DOMAIN s : s[i] \in Row
    BY <1>4
<1>7. e \in Seq([label : L, row : Row]) /\ DOMAIN e = DOMAIN s /\ DOMAIN s = 1..Len(e)
    <2>1. \A i \in DOMAIN s : e[i] \in [label : L, row : Row]
        BY <1>6
    <2>2. DOMAIN e = DOMAIN s /\ DOMAIN s = 1..Len(s) /\ Len(s) \in Nat
        BY <1>4
    <2>3. e = [i \in 1..Len(s) |-> e[i]]
        BY <2>2
    <2> HIDE DEF e, L
    <2> QED
        BY <2>1, <2>2, <2>3, SeqIs
<1>8. \A i \in DOMAIN s : e[i].label = SectionLabel(s[i].day, d)
    OBVIOUS
<1> HIDE DEF e, L
<1>9. ASSUME NEW i \in 1..Len(e), NEW j \in 1..Len(e), NEW k \in 1..Len(e), i < j, j < k,
             e[i].label = e[k].label
      PROVE  e[j].label = e[k].label
    <2>1. i \in DOMAIN s /\ j \in DOMAIN s /\ k \in DOMAIN s /\ s[i] \in Row /\ s[j] \in Row /\ s[k] \in Row
        BY <1>6, <1>7
    <2>2. SectionLabel(s[i].day, d) = SectionLabel(s[k].day, d)
        BY <1>8, <1>9, <2>1
    <2>3. Block(s[i], d) = Block(s[k], d)
        BY <2>1, <2>2, BlockLabels
    <2>4. Block(s[i], d) <= Block(s[j], d) /\ Block(s[j], d) <= Block(s[k], d)
          /\ (Block(s[j], d) = 1 => src[i] < src[j]) /\ (Block(s[k], d) = 1 => src[j] < src[k])
        BY <1>5, <1>9, <2>1 DEF Rearranged
    <2>5. Block(s[j], d) = Block(s[k], d)
        BY <2>3, <2>4 DEF Block
    <2>6. SectionLabel(s[j].day, d) = SectionLabel(s[k].day, d)
        <3>1. CASE Block(s[k], d) = 1
            <4>1. src[i] \in DOMAIN m /\ src[j] \in DOMAIN m /\ src[k] \in DOMAIN m
                  /\ s[i] = m[src[i]] /\ s[j] = m[src[j]] /\ s[k] = m[src[k]]
                BY <1>5, <2>1 DEF Rearranged
            <4>2. /\ s[i].day \in Int /\ s[j].day \in Int /\ s[k].day \in Int /\ d <= s[i].day
                BY <2>1, <2>3, <2>5, <3>1, BlockSays
            <4>3. s[j].day # None /\ s[k].day # None
                BY <4>2, ListingAssumption, ViewsAssumption
            <4>4. src[i] < src[j] /\ src[j] < src[k]
                BY <2>4, <2>5, <3>1
            <4>5. s[i].day <= s[j].day /\ s[j].day <= s[k].day
                <5>1. \A x, y \in DOMAIN m : x < y /\ m[y].day # None => m[x].day <= m[y].day
                    BY <1>1 DEF Merged
                <5> QED
                    BY <4>1, <4>3, <4>4, <5>1
            <4> QED
                BY <2>2, <4>2, <4>5, LabelsConvex
        <3>2. CASE Block(s[k], d) = 2 \/ Block(s[k], d) = 3
            BY <2>1, <2>5, <3>2, BlockSays
        <3> QED
            BY <2>1, <3>1, <3>2, BlockSays
    <2> QED
        BY <1>8, <2>1, <2>6
<1> QED
    BY ZenonT(30), <1>2, <1>7, <1>9, GroupedLabels

\* Today is a day.
LEMMA TodayIs ==
    ASSUME TypeOK
    PROVE  today \in Int /\ DedupTypeOK
<1>1. now \in Int /\ now - Offset \in Int /\ DayLen \in Nat \ {0}
    BY ListingAssumption, ViewsAssumption DEF TypeOK
<1>2. (now - Offset) \div DayLen \in Int
    BY <1>1, Divided
<1> QED
    BY <1>2 DEF today, Today, TypeOK

\* Grouping never splits a section: no label heads two of them on the events page,
\* whatever runs, dated and undated events it lists (web/listing.py:202-206).
THEOREM LabelsHeadOneSection == Spec => []LabelsOnce
<1>1. TypeOK => LabelsOnce
    <2> SUFFICES ASSUME TypeOK PROVE LabelsOnce
        OBVIOUS
    <2> QED
        BY TodayIs, CurrentRowsDiffer, SectionLabelsOnce DEF LabelsOnce, CurrentRows
<1> QED
    BY <1>1, ViewsTypeCorrect, PTL

-----------------------------------------------------------------------------
\* A choice of different rows.
LEMMA PickedDiffer ==
    ASSUME NEW rows \in Seq(Row), Different(rows, Len(rows)), NEW I \in SUBSET (DOMAIN rows)
    PROVE  /\ Picked(rows, I) \in Seq(Row)
           /\ Different(Picked(rows, I), Len(Picked(rows, I)))
           /\ \A i \in DOMAIN Picked(rows, I) : \E j \in I : Picked(rows, I)[i] = rows[j]
           /\ \A j \in I : \E i \in DOMAIN Picked(rows, I) : Picked(rows, I)[i] = rows[j]
<1> DEFINE t == Picked(rows, I)
<1>1. t \in Seq(Row) /\ \E at : IsPicked(t, rows, I, at)
    BY PickedIs
<1> HIDE DEF t
<1>2. PICK at : IsPicked(t, rows, I, at)
    BY <1>1
<1>3. /\ \A i \in DOMAIN t : at[i] \in I /\ t[i] = rows[at[i]]
      /\ \A j \in I : \E i \in DOMAIN t : at[i] = j
      /\ \A i, j \in DOMAIN t : i < j => at[i] < at[j]
    BY <1>2 DEF IsPicked
<1>4. DOMAIN t = 1..Len(t) /\ Len(t) \in Nat /\ DOMAIN rows = 1..Len(rows)
    BY <1>1
<1>5. \A i, j \in DOMAIN t : t[i].id = t[j].id => i = j
    <2>1. \A i, j \in DOMAIN t : t[i].id = t[j].id => at[i] = at[j]
        BY <1>3, <1>4 DEF Different
    <2> QED
        BY <1>3, <1>4, <2>1
<1>6. \A i \in DOMAIN t : Single(t[i])
    BY <1>3, <1>4 DEF Different
<1>7. Different(t, Len(t))
    BY <1>4, <1>5, <1>6 DEF Different
<1>8. \A j \in I : \E i \in DOMAIN t : t[i] = rows[j]
    BY <1>3
<1> QED
    BY <1>1, <1>3, <1>7, <1>8 DEF t

\* How often a row stands for a show on a day.
OnceIn(s, r) == \E k \in DOMAIN s : SameShowAndDay(s[k], r) /\ \A l \in DOMAIN s : SameShowAndDay(s[l], r) => l = k

NotIn(s, r) == \A k \in DOMAIN s : ~SameShowAndDay(s[k], r)

\* A show on a day is in the merged list once, if it is listed at all.
LEMMA MergedOnce ==
    ASSUME NEW rows \in Seq(Row), Different(rows, Len(rows)), NEW r
    PROVE  /\ MergePerformances(rows) \in Seq(Row)
           /\ (\E i \in DOMAIN rows : SameShowAndDay(rows[i], r)) => OnceIn(MergePerformances(rows), r)
           /\ NotIn(rows, r) => NotIn(MergePerformances(rows), r)
<1> DEFINE m == MergePerformances(rows)
<1>1. Merged(m, rows)
    BY MergedIs
<1> HIDE DEF m
<1>2. NoDate = None
    BY ViewsAssumption
<1>3. ASSUME NEW i \in DOMAIN rows, SameShowAndDay(rows[i], r)
      PROVE  OnceIn(m, r)
    <2>1. PICK k \in DOMAIN m : SameShowAndDay(m[k], rows[i])
        BY <1>1, <1>2, <1>3 DEF Merged, SameShowAndDay
    <2>2. SameShowAndDay(m[k], r)
        BY <1>3, <2>1 DEF SameShowAndDay, SameShow
    <2>3. \A l \in DOMAIN m : SameShowAndDay(m[l], r) => SameShowAndDay(m[l], m[k])
        BY <2>2 DEF SameShowAndDay, SameShow
    <2> QED
        BY <1>1, <2>2, <2>3 DEF OnceIn, Merged
<1>4. ASSUME NotIn(rows, r), NEW k \in DOMAIN m, SameShowAndDay(m[k], r)
      PROVE  FALSE
    <2>1. PICK i \in DOMAIN rows : m[k] = [rows[i] EXCEPT !.extraTimes = m[k].extraTimes, !.soldOut = m[k].soldOut]
        BY <1>1 DEF Merged
    <2>2. rows[i] \in Row
        OBVIOUS
    <2>3. m[k].title = rows[i].title /\ m[k].venue = rows[i].venue /\ m[k].day = rows[i].day
        BY <2>1, <2>2 DEF Row
    <2>4. SameShowAndDay(rows[i], r)
        BY <1>4, <2>3 DEF SameShowAndDay, SameShow
    <2> QED
        BY <1>4, <2>4 DEF NotIn
<1>5. NotIn(rows, r) => NotIn(m, r)
    BY <1>4 DEF NotIn
<1>6. m \in Seq(Row)
    BY <1>1 DEF Merged
<1> QED
    BY <1>3, <1>5, <1>6 DEF m

\* Moving the runs to the end keeps this.
LEMMA LastOnce ==
    ASSUME NEW m \in Seq(Row), NEW d \in Int, NEW r
    PROVE  /\ RunsLast(m, d) \in Seq(Row)
           /\ OnceIn(m, r) => OnceIn(RunsLast(m, d), r)
           /\ NotIn(m, r) => NotIn(RunsLast(m, d), r)
<1> DEFINE s == RunsLast(m, d)
<1>1. s \in Seq(Row) /\ \E src : Rearranged(s, m, src, d)
    BY RunsLastIs
<1> HIDE DEF s
<1>2. PICK src : Rearranged(s, m, src, d)
    BY <1>1
<1>3. /\ \A i \in DOMAIN s : src[i] \in DOMAIN m /\ s[i] = m[src[i]]
      /\ \A i, j \in DOMAIN s : src[i] = src[j] => i = j
      /\ \A k \in DOMAIN m : \E i \in DOMAIN s : src[i] = k
    BY <1>2 DEF Rearranged
<1>4. OnceIn(m, r) => OnceIn(s, r)
    BY <1>3 DEF OnceIn
<1>5. NotIn(m, r) => NotIn(s, r)
    BY <1>3 DEF NotIn
<1> QED
    BY <1>1, <1>4, <1>5 DEF s

\* What is once in one of two lists, and not in the other, is in both together once.
LEMMA CountOnce ==
    ASSUME NEW w \in Seq(Row), NEW u \in Seq(Row), NEW r,
           (OnceIn(w, r) /\ NotIn(u, r)) \/ (NotIn(w, r) /\ OnceIn(u, r))
    PROVE  Cardinality({i \in DOMAIN (w \o u) : SameShowAndDay((w \o u)[i], r)}) = 1
<1> DEFINE s == w \o u
           I == {i \in DOMAIN s : SameShowAndDay(s[i], r)}
<1>1. /\ DOMAIN s = 1..(Len(w) + Len(u)) /\ Len(w) \in Nat /\ Len(u) \in Nat
      /\ \A i \in 1..Len(w) : i \in DOMAIN w /\ i \in DOMAIN s /\ s[i] = w[i]
      /\ \A i \in 1..Len(u) : i \in DOMAIN u /\ i + Len(w) \in DOMAIN s /\ s[i + Len(w)] = u[i]
      /\ \A i \in DOMAIN s : i \in 1..Len(w) \/ (i - Len(w) \in 1..Len(u) /\ i = (i - Len(w)) + Len(w))
      /\ DOMAIN w = 1..Len(w) /\ DOMAIN u = 1..Len(u)
    OBVIOUS
<1> HIDE DEF s
<1>2. \E k : I = {k}
    <2>1. CASE OnceIn(w, r) /\ NotIn(u, r)
        <3>1. PICK k \in DOMAIN w : SameShowAndDay(w[k], r) /\ \A l \in DOMAIN w : SameShowAndDay(w[l], r) => l = k
            BY <2>1 DEF OnceIn
        <3>2. k \in I
            BY <1>1, <3>1
        <3>3. ASSUME NEW i \in I PROVE i = k
            <4>1. CASE i \in 1..Len(w)
                BY <1>1, <3>1, <4>1
            <4>2. CASE i - Len(w) \in 1..Len(u) /\ i = (i - Len(w)) + Len(w)
                <5>1. s[i] = u[i - Len(w)] /\ i - Len(w) \in DOMAIN u
                    BY <1>1, <4>2
                <5> QED
                    BY <2>1, <5>1 DEF NotIn
            <4> QED
                BY <1>1, <4>1, <4>2
        <3> QED
            BY <3>2, <3>3
    <2>2. CASE NotIn(w, r) /\ OnceIn(u, r)
        <3>1. PICK k \in DOMAIN u : SameShowAndDay(u[k], r) /\ \A l \in DOMAIN u : SameShowAndDay(u[l], r) => l = k
            BY <2>2 DEF OnceIn
        <3>2. k + Len(w) \in I
            BY <1>1, <3>1
        <3>3. ASSUME NEW i \in I PROVE i = k + Len(w)
            <4>1. CASE i \in 1..Len(w)
                BY <1>1, <2>2, <4>1 DEF NotIn
            <4>2. CASE i - Len(w) \in 1..Len(u) /\ i = (i - Len(w)) + Len(w)
                <5>1. s[i] = u[i - Len(w)] /\ i - Len(w) \in DOMAIN u
                    BY <1>1, <4>2
                <5>2. i - Len(w) = k
                    BY <3>1, <5>1
                <5> QED
                    BY <4>2, <5>2
            <4> QED
                BY <1>1, <4>1, <4>2
        <3> QED
            BY <3>2, <3>3
    <2> QED
        BY <2>1, <2>2
<1> HIDE DEF I
<1>3. Cardinality(I) = 1
    BY <1>2, FS_Singleton
<1> QED
    BY <1>3 DEF I, s

\* The sections of rows hold the rows, in their order.
LEMMA SectionRows ==
    ASSUME NEW s \in Seq(Row), NEW L, NEW label \in [DOMAIN s -> L]
    PROVE  RowsIn(Grouped([i \in DOMAIN s |-> [label |-> label[i], row |-> s[i]]])) = s
<1> DEFINE e == [i \in DOMAIN s |-> [label |-> label[i], row |-> s[i]]]
<1>1. Len(s) \in Nat /\ DOMAIN s = 1..Len(s) /\ \A i \in DOMAIN s : s[i] \in Row
    OBVIOUS
<1>2. /\ DOMAIN e = 1..Len(s) /\ e = [i \in 1..Len(s) |-> e[i]]
      /\ \A i \in 1..Len(s) : e[i] \in [label : L, row : Row] /\ e[i].row = s[i]
    BY <1>1
<1> HIDE DEF e
<1>3. e \in Seq([label : L, row : Row]) /\ Len(e) = Len(s)
    BY <1>1, <1>2, SeqIs
<1>4. RowsIn(Grouped(e)) = EntryRows(e)
    BY <1>3, GroupedRows
<1>5. EntryRows(e) = [i \in 1..Len(s) |-> s[i]]
    BY <1>2, <1>3 DEF EntryRows
<1>6. [i \in 1..Len(s) |-> s[i]] = s
    OBVIOUS
<1> QED
    BY <1>4, <1>5, <1>6 DEF e

\* The weekend has a first and a last day.
LEMMA WeekendDays ==
    ASSUME NEW d \in Int
    PROVE  WeekendStart(d) \in Int /\ WeekendEnd(d) \in Int
<1>1. 7 \in Nat \ {0} /\ d % 7 \in Int
    BY Divided
<1> QED
    BY <1>1 DEF WeekendStart, WeekendEnd, Friday, Sunday, Weekday

\* Of the rows that begin on or after the first day of a weekend, those within it.
LEMMA BeginsOnWeekend ==
    ASSUME NEW d \in Int, NEW r \in Row, WellDated(r), r.day # None
    PROVE  OnWeekend(r, d) /\ r.day >= WeekendStart(d) <=> r.day \in WeekendStart(d)..WeekendEnd(d)
<1>1. NoDate = None /\ None \notin Int /\ r.day \in Int /\ r.endDay \in Maybe
    BY ListingAssumption, ViewsAssumption DEF Row, Maybe
<1>2. EndOf(r) \in Int /\ EndOf(r) >= r.day
    BY <1>1 DEF EndOf, WellDated, Maybe
<1>3. WeekendStart(d) \in Int /\ WeekendEnd(d) \in Int
    BY WeekendDays
<1>4. "weekend" # NoDate
    BY ListingAssumption
<1> DEFINE days == CASE "weekend" = "weekend" -> <<WeekendStart(d), WeekendEnd(d)>>
                     [] "weekend" = "7d"      -> <<d, d + 6>>
                     [] "weekend" = "30d"     -> <<d, d + 29>>
<1>5. OnWeekend(r, d) <=> r.day <= WeekendEnd(d) /\ EndOf(r) >= WeekendStart(d)
    <2>1. days = <<WeekendStart(d), WeekendEnd(d)>>
        OBVIOUS
    <2>2. OnWeekend(r, d) <=> ("weekend" # NoDate => r.day # NoDate /\ r.day <= days[2] /\ EndOf(r) >= days[1])
        BY DEF OnWeekend, InWindow
    <2> HIDE DEF days
    <2>3. days[1] = WeekendStart(d) /\ days[2] = WeekendEnd(d)
        BY <2>1
    <2> QED
        BY <1>1, <1>4, <2>2, <2>3
<1> QED
    BY <1>1, <1>2, <1>3, <1>5

\* A show of a day within the horizon is in one of the lists of the dashboard.
LEMMA OnDashboardOnce ==
    ASSUME NEW rows \in Seq(Row), Different(rows, Len(rows)), NEW d \in Int, NEW row \in Row,
           row \in ToSet(rows), row.day # None, row.day \in d..(d + UpcomingDays - 1)
    PROVE  LET s == RowsIn(WeekendSections(rows, d)) \o RowsIn(Sections(Upcoming(rows, d), d))
           IN Cardinality({i \in DOMAIN s : SameShowAndDay(s[i], row)}) = 1
<1> DEFINE I == {i \in DOMAIN rows : OnWeekend(rows[i], d) /\ rows[i].day >= WeekendStart(d)}
           J == {i \in DOMAIN rows : /\ rows[i].day # NoDate
                                     /\ rows[i].day \in d..(d + UpcomingDays - 1)
                                     /\ rows[i].day \notin WeekendStart(d)..WeekendEnd(d)}
           P == Picked(rows, I)
           Q == Picked(rows, J)
           w == MergePerformances(P)
           u == RunsLast(MergePerformances(Q), d)
<1>0. /\ NoDate = None
      /\ \A r \in Row : WellDated(r) /\ r.day # None =>
            (OnWeekend(r, d) /\ r.day >= WeekendStart(d) <=> r.day \in WeekendStart(d)..WeekendEnd(d))
    BY ViewsAssumption, BeginsOnWeekend
<1>1. \A i \in DOMAIN rows : rows[i] \in Row /\ WellDated(rows[i])
    BY DEF Different, Single
<1>2. PICK j \in DOMAIN rows : rows[j] = row
    BY DEF ToSet
<1>3. I \subseteq DOMAIN rows /\ J \subseteq DOMAIN rows
    OBVIOUS
<1>4. WeekendSections(rows, d) =
        Grouped([i \in DOMAIN w |-> [label |-> <<Weekday(w[i].day), w[i].day = d>>, row |-> w[i]]])
    BY DEF WeekendSections, Labelled, Only
<1>5. Sections(Upcoming(rows, d), d) =
        Grouped([i \in DOMAIN u |-> [label |-> SectionLabel(u[i].day, d), row |-> u[i]]])
    BY DEF Sections, Labelled, Upcoming, Only
<1>6. P \in Seq(Row) /\ Different(P, Len(P))
      /\ (\A i \in DOMAIN P : \E k \in I : P[i] = rows[k]) /\ \A k \in I : \E i \in DOMAIN P : P[i] = rows[k]
    <2>1. I \in SUBSET (DOMAIN rows)
        BY <1>3
    <2> HIDE DEF I
    <2> QED
        BY <2>1, PickedDiffer
<1>7. Q \in Seq(Row) /\ Different(Q, Len(Q))
      /\ (\A i \in DOMAIN Q : \E k \in J : Q[i] = rows[k]) /\ \A k \in J : \E i \in DOMAIN Q : Q[i] = rows[k]
    <2>1. J \in SUBSET (DOMAIN rows)
        BY <1>3
    <2> HIDE DEF J
    <2> QED
        BY <2>1, PickedDiffer
<1>8. (\A k \in I : SameShowAndDay(rows[k], row) => row.day \in WeekendStart(d)..WeekendEnd(d))
      /\ (row.day \in WeekendStart(d)..WeekendEnd(d) => j \in I /\ j \notin J)
      /\ (row.day \notin WeekendStart(d)..WeekendEnd(d) => j \in J /\ j \notin I)
    BY <1>0, <1>1, <1>2 DEF SameShowAndDay
<1>9. \A k \in J : SameShowAndDay(rows[k], row) => row.day \notin WeekendStart(d)..WeekendEnd(d)
    BY DEF SameShowAndDay
<1>10. SameShowAndDay(row, row)
    BY <1>0 DEF SameShowAndDay, SameShow
<1> HIDE DEF I, J, P, Q, w, u
<1>11. (\E i \in DOMAIN P : SameShowAndDay(P[i], row)) \/ NotIn(P, row)
    BY DEF NotIn
<1>12. \/ (\E i \in DOMAIN P : SameShowAndDay(P[i], row)) /\ NotIn(Q, row)
       \/ NotIn(P, row) /\ (\E i \in DOMAIN Q : SameShowAndDay(Q[i], row))
    <2>1. CASE row.day \in WeekendStart(d)..WeekendEnd(d)
        <3>1. PICK i \in DOMAIN P : P[i] = rows[j]
            BY <1>6, <1>8, <2>1
        <3>2. SameShowAndDay(P[i], row)
            BY <1>2, <1>10, <3>1
        <3>3. NotIn(Q, row)
            BY <1>7, <1>9, <2>1 DEF NotIn
        <3> QED
            BY <3>2, <3>3
    <2>2. CASE row.day \notin WeekendStart(d)..WeekendEnd(d)
        <3>1. PICK i \in DOMAIN Q : Q[i] = rows[j]
            BY <1>7, <1>8, <2>2
        <3>2. SameShowAndDay(Q[i], row)
            BY <1>2, <1>10, <3>1
        <3>3. NotIn(P, row)
            BY <1>6, <1>8, <2>2 DEF NotIn
        <3> QED
            BY <3>2, <3>3
    <2> QED
        BY <2>1, <2>2
<1>13. w \in Seq(Row) /\ ((\E i \in DOMAIN P : SameShowAndDay(P[i], row)) => OnceIn(w, row)) /\ (NotIn(P, row) => NotIn(w, row))
    BY <1>6, MergedOnce DEF w
<1> DEFINE v == MergePerformances(Q)
<1>14. v \in Seq(Row) /\ ((\E i \in DOMAIN Q : SameShowAndDay(Q[i], row)) => OnceIn(v, row)) /\ (NotIn(Q, row) => NotIn(v, row))
    BY <1>7, MergedOnce
<1>15. u = RunsLast(v, d)
    BY DEF u
<1> HIDE DEF v
<1>16. u \in Seq(Row) /\ (OnceIn(v, row) => OnceIn(u, row)) /\ (NotIn(v, row) => NotIn(u, row))
    BY <1>14, <1>15, LastOnce
<1>17. RowsIn(WeekendSections(rows, d)) = w
    <2> DEFINE L == {<<Weekday(r.day), r.day = d>> : r \in Row}
               label == [i \in DOMAIN w |-> <<Weekday(w[i].day), w[i].day = d>>]
    <2>1. label \in [DOMAIN w -> L]
        BY <1>13
    <2>2. [i \in DOMAIN w |-> [label |-> <<Weekday(w[i].day), w[i].day = d>>, row |-> w[i]]]
            = [i \in DOMAIN w |-> [label |-> label[i], row |-> w[i]]]
        OBVIOUS
    <2> HIDE DEF L, label
    <2>3. RowsIn(Grouped([i \in DOMAIN w |-> [label |-> label[i], row |-> w[i]]])) = w
        BY <1>13, <2>1, SectionRows
    <2> QED
        BY <1>4, <2>2, <2>3
<1>18. RowsIn(Sections(Upcoming(rows, d), d)) = u
    <2> DEFINE L == {SectionLabel(r.day, d) : r \in Row}
               label == [i \in DOMAIN u |-> SectionLabel(u[i].day, d)]
    <2>1. label \in [DOMAIN u -> L]
        BY <1>16
    <2>2. [i \in DOMAIN u |-> [label |-> SectionLabel(u[i].day, d), row |-> u[i]]]
            = [i \in DOMAIN u |-> [label |-> label[i], row |-> u[i]]]
        OBVIOUS
    <2> HIDE DEF L, label
    <2>3. RowsIn(Grouped([i \in DOMAIN u |-> [label |-> label[i], row |-> u[i]]])) = u
        BY <1>16, <2>1, SectionRows
    <2> QED
        BY <1>5, <2>2, <2>3
<1>19. (OnceIn(w, row) /\ NotIn(u, row)) \/ (NotIn(w, row) /\ OnceIn(u, row))
    BY <1>12, <1>13, <1>14, <1>16
<1>20. Cardinality({i \in DOMAIN (w \o u) : SameShowAndDay((w \o u)[i], row)}) = 1
    BY <1>13, <1>16, <1>19, CountOnce
<1> QED
    BY <1>17, <1>18, <1>20

\* What begins within the horizon is on the dashboard in exactly one of its two lists,
\* whatever the weekday (web/routes.py:67-73).
THEOREM HorizonIsShownOnce == Spec => []DashboardOnce
<1>1. TypeOK => DashboardOnce
    <2> SUFFICES ASSUME TypeOK, NEW row \in ToSet(CurrentRows),
                        row.day # None, row.day \in today..(today + UpcomingDays - 1)
                 PROVE  LET s == RowsIn(WeekendSections(CurrentRows, today))
                                 \o RowsIn(Sections(Upcoming(CurrentRows, today), today))
                        IN Cardinality({i \in DOMAIN s : SameShowAndDay(s[i], row)}) = 1
        BY DEF DashboardOnce, Count
    <2>1. today \in Int /\ CurrentRows \in Seq(Row) /\ Different(CurrentRows, Len(CurrentRows))
        BY TodayIs, CurrentRowsDiffer DEF CurrentRows
    <2>2. row \in Row
        BY <2>1 DEF ToSet
    <2> QED
        BY <2>1, <2>2, OnDashboardOnce
<1> QED
    BY <1>1, ViewsTypeCorrect, PTL

-----------------------------------------------------------------------------
(* The filters of the events page.                                         *)

\* The members of a choice.
LEMMA PickedSet ==
    ASSUME NEW V, NEW s \in Seq(V), NEW I, I \subseteq DOMAIN s
    PROVE  ToSet(Picked(s, I)) = {s[i] : i \in I}
<1>1. PICK at : IsPicked(Picked(s, I), s, I, at)
    BY PickedIs
<1> QED
    BY <1>1 DEF IsPicked, ToSet

\* What apply_filters asks of a row.
Passes(r, req, d) ==
    /\ req.marks \subseteq r.marks
    /\ req.day \in {NoDate, r.day}
    /\ req.kind # NoDate => r.kind \in KindFilters[req.kind]
    /\ req.genre \in {NoDate, r.category}
    /\ req.venue \in {NoDate, r.venue}
    /\ InWindow(r, req.when, d)

\* apply_filters lists the rows that pass.
LEMMA FilteredSet ==
    ASSUME NEW rows \in Seq(Row), NEW req, NEW d
    PROVE  ToSet(Filtered(rows, req, d)) = {r \in ToSet(rows) : Passes(r, req, d)}
<1> DEFINE I == {i \in DOMAIN rows : Passes(rows[i], req, d)}
<1>1. Filtered(rows, req, d) = Picked(rows, I)
    BY DEF Filtered, Only, Passes
<1>2. I \subseteq DOMAIN rows
    OBVIOUS
<1>3. {rows[i] : i \in I} = {r \in ToSet(rows) : Passes(r, req, d)}
    BY DEF ToSet
<1> HIDE DEF I
<1> QED
    BY <1>1, <1>2, <1>3, PickedSet

\* A genre that is offered lists a row of it; any other is dropped.
LEMMA GenresListSomething ==
    ASSUME NEW rows \in Seq(Row), NEW plain \in Requests, NEW d, NEW genre
    PROVE  LET shown == Shown(rows, [plain EXCEPT !.genre = genre], d)
           IN IF genre \in Offered(rows, plain, d).genres THEN \E r \in ToSet(shown) : r.category = genre
              ELSE shown = Shown(rows, plain, d)
<1> DEFINE req == [plain EXCEPT !.genre = genre]
           bare(q) == [q EXCEPT !.genre = NoDate, !.venue = NoDate, !.when = NoDate, !.day = NoDate]
           known(choice, options) == IF choice \in options THEN choice ELSE NoDate
           offered == Offered(rows, plain, d)
<1>0. NoDate = None
    BY ViewsAssumption
<1>1. plain \in [kind : DOMAIN KindFilters \cup {None}, marks : SUBSET {"new", "watched"},
                 genre : {None}, venue : {None}, when : {None}, day : {None}]
    BY ViewsAssumption
<1>2. bare(plain) = plain /\ bare(req) = plain
    BY <1>0, <1>1
<1>3. /\ offered.genres = {r.category : r \in ToSet(Filtered(rows, plain, d))}
      /\ Offered(rows, req, d) = offered
    BY <1>2 DEF Offered
<1>4. Shown(rows, plain, d) = Filtered(rows, plain, d)
    <2>1. [plain EXCEPT !.genre = known(@, offered.genres), !.venue = known(@, offered.venues)] = plain
        BY <1>0, <1>1
    <2> QED
        BY <2>1 DEF Shown
<1>5. Shown(rows, req, d) = Filtered(rows, [plain EXCEPT !.genre = known(genre, offered.genres)], d)
    <2>1. [req EXCEPT !.genre = known(@, offered.genres), !.venue = known(@, offered.venues)]
            = [plain EXCEPT !.genre = known(genre, offered.genres)]
        BY <1>0, <1>1
    <2> QED
        BY <1>3, <2>1 DEF Shown
<1>6. CASE genre \in offered.genres
    <2>1. PICK r \in ToSet(Filtered(rows, plain, d)) : r.category = genre
        BY <1>3, <1>6
    <2>2. r \in ToSet(rows) /\ Passes(r, plain, d)
        BY <2>1, FilteredSet
    <2>3. req.marks = plain.marks /\ req.kind = plain.kind /\ req.genre = genre /\ req.venue = plain.venue
          /\ req.when = plain.when /\ req.day = plain.day
        BY <1>1
    <2>4. Passes(r, req, d)
        BY <2>1, <2>2, <2>3 DEF Passes
    <2>5. r \in ToSet(Filtered(rows, req, d))
        BY <2>2, <2>4, FilteredSet
    <2>6. Shown(rows, req, d) = Filtered(rows, req, d)
        BY <1>5, <1>6
    <2> QED
        BY <1>6, <2>1, <2>5, <2>6
<1>7. CASE genre \notin offered.genres
    <2>1. [plain EXCEPT !.genre = NoDate] = plain
        BY <1>0, <1>1
    <2> QED
        BY <1>4, <1>5, <1>7, <2>1
<1> QED
    BY <1>6, <1>7

\* So with venues.
LEMMA VenuesListSomething ==
    ASSUME NEW rows \in Seq(Row), NEW plain \in Requests, NEW d, NEW venue
    PROVE  LET shown == Shown(rows, [plain EXCEPT !.venue = venue], d)
           IN IF venue \in Offered(rows, plain, d).venues THEN \E r \in ToSet(shown) : r.venue = venue
              ELSE shown = Shown(rows, plain, d)
<1> DEFINE req == [plain EXCEPT !.venue = venue]
           bare(q) == [q EXCEPT !.genre = NoDate, !.venue = NoDate, !.when = NoDate, !.day = NoDate]
           known(choice, options) == IF choice \in options THEN choice ELSE NoDate
           offered == Offered(rows, plain, d)
<1>0. NoDate = None
    BY ViewsAssumption
<1>1. plain \in [kind : DOMAIN KindFilters \cup {None}, marks : SUBSET {"new", "watched"},
                 genre : {None}, venue : {None}, when : {None}, day : {None}]
    BY ViewsAssumption
<1>2. bare(plain) = plain /\ bare(req) = plain
    BY <1>0, <1>1
<1>3. /\ offered.venues = {r.venue : r \in ToSet(Filtered(rows, plain, d))}
      /\ Offered(rows, req, d) = offered
    BY <1>2 DEF Offered
<1>4. Shown(rows, plain, d) = Filtered(rows, plain, d)
    <2>1. [plain EXCEPT !.genre = known(@, offered.genres), !.venue = known(@, offered.venues)] = plain
        BY <1>0, <1>1
    <2> QED
        BY <2>1 DEF Shown
<1>5. Shown(rows, req, d) = Filtered(rows, [plain EXCEPT !.venue = known(venue, offered.venues)], d)
    <2>1. [req EXCEPT !.genre = known(@, offered.genres), !.venue = known(@, offered.venues)]
            = [plain EXCEPT !.venue = known(venue, offered.venues)]
        BY <1>0, <1>1
    <2> QED
        BY <1>3, <2>1 DEF Shown
<1>6. CASE venue \in offered.venues
    <2>1. PICK r \in ToSet(Filtered(rows, plain, d)) : r.venue = venue
        BY <1>3, <1>6
    <2>2. r \in ToSet(rows) /\ Passes(r, plain, d)
        BY <2>1, FilteredSet
    <2>3. req.marks = plain.marks /\ req.kind = plain.kind /\ req.genre = plain.genre /\ req.venue = venue
          /\ req.when = plain.when /\ req.day = plain.day
        BY <1>1
    <2>4. Passes(r, req, d)
        BY <2>1, <2>2, <2>3 DEF Passes
    <2>5. r \in ToSet(Filtered(rows, req, d))
        BY <2>2, <2>4, FilteredSet
    <2>6. Shown(rows, req, d) = Filtered(rows, req, d)
        BY <1>5, <1>6
    <2> QED
        BY <1>6, <2>1, <2>5, <2>6
<1>7. CASE venue \notin offered.venues
    <2>1. [plain EXCEPT !.venue = NoDate] = plain
        BY <1>0, <1>1
    <2> QED
        BY <1>4, <1>5, <1>7, <2>1
<1> QED
    BY <1>6, <1>7

\* The filters of the events page never lead to a dead end: a genre or venue that is
\* offered lists something, and one that is not is dropped (web/routes.py:110-122).
THEOREM FiltersNeverDeadEnd == Spec => []FiltersListSomething
<1>1. TypeOK => FiltersListSomething
    <2> SUFFICES ASSUME TypeOK, NEW wl \in Watchlists, NEW plain \in Requests
                 PROVE  LET rows == RowsFor(wl)
                            offered == Offered(rows, plain, today)
                            of(choice) == Shown(rows, choice, today)
                        IN /\ \A genre \in {row.category : row \in ToSet(rows)} :
                                LET shown == of([plain EXCEPT !.genre = genre])
                                IN IF genre \in offered.genres THEN \E r \in ToSet(shown) : r.category = genre
                                   ELSE shown = of(plain)
                           /\ \A venue \in {row.venue : row \in ToSet(rows)} :
                                LET shown == of([plain EXCEPT !.venue = venue])
                                IN IF venue \in offered.venues THEN \E r \in ToSet(shown) : r.venue = venue
                                   ELSE shown = of(plain)
        BY DEF FiltersListSomething
    <2> DEFINE rows == RowsFor(wl)
    <2>1. rows \in Seq(Row)
        BY TodayIs, CurrentRowsDiffer
    <2> HIDE DEF rows
    <2>2. ASSUME NEW genre
          PROVE  IF genre \in Offered(rows, plain, today).genres
                 THEN \E r \in ToSet(Shown(rows, [plain EXCEPT !.genre = genre], today)) : r.category = genre
                 ELSE Shown(rows, [plain EXCEPT !.genre = genre], today) = Shown(rows, plain, today)
        BY <2>1, GenresListSomething
    <2>3. ASSUME NEW venue
          PROVE  IF venue \in Offered(rows, plain, today).venues
                 THEN \E r \in ToSet(Shown(rows, [plain EXCEPT !.venue = venue], today)) : r.venue = venue
                 ELSE Shown(rows, [plain EXCEPT !.venue = venue], today) = Shown(rows, plain, today)
        BY <2>1, VenuesListSomething
    <2> QED
        BY <2>2, <2>3 DEF rows
<1> QED
    BY <1>1, ViewsTypeCorrect, PTL

-----------------------------------------------------------------------------
(* group_by_show and the movies page.                                      *)

\* One performance more in the list of group_by_show.
Added(u, row) ==
    LET i == FirstLike(u, SameShow, row)
    IN IF i = 0 THEN Append(u, row) ELSE [u EXCEPT ![i] = WithPerformance(u[i], row)]

\* The row of a show when it has one performance more.
LEMMA WithPerformanceIs ==
    ASSUME NEW first \in Row, NEW row \in Row
    PROVE  LET new == WithPerformance(first, row)
           IN /\ new \in Row
              /\ new = [first EXCEPT !.performances = first.performances + 1, !.endDay = new.endDay]
              /\ new.performances = first.performances + 1
              /\ first.day # None => EndOf(new) \in Int /\ EndOf(new) >= EndOf(first) /\ EndOf(first) \in Int
              /\ first.day # None /\ row.day # None => EndOf(new) >= EndOf(row)
<1> DEFINE last == IF NoDate \notin {EndOf(row), first.day} /\ EndOf(row) > EndOf(first)
                   THEN EndOf(row) ELSE first.endDay
           more == first.performances + 1
           new == WithPerformance(first, row)
<1>0. NoDate = None /\ None \notin Int
    BY ListingAssumption, ViewsAssumption
<1>1. new = [first EXCEPT !.performances = more, !.endDay = last]
    BY DEF WithPerformance
<1>2. /\ first.day \in Maybe /\ first.endDay \in Maybe /\ row.day \in Maybe /\ row.endDay \in Maybe
      /\ first.performances \in Nat
    BY DEF Row
<1>3. EndOf(row) \in Maybe /\ EndOf(first) \in Maybe /\ (first.day # None => EndOf(first) \in Int)
      /\ (row.day # None => EndOf(row) \in Int)
    BY <1>0, <1>2 DEF EndOf, Maybe
<1>4. last \in Maybe /\ more \in Nat
    BY <1>2, <1>3
<1> HIDE DEF new
<1>5. new \in Row /\ new.performances = more /\ new.endDay = last /\ new.day = first.day
    <2> HIDE DEF last, more
    <2> QED
        BY <1>1, <1>4 DEF Row
<1>6. ASSUME first.day # None
      PROVE  EndOf(new) \in Int /\ EndOf(new) >= EndOf(first) /\ EndOf(first) \in Int
             /\ (row.day # None => EndOf(new) >= EndOf(row))
    <2>1. CASE NoDate \notin {EndOf(row), first.day} /\ EndOf(row) > EndOf(first)
        <3>1. new.endDay = EndOf(row) /\ EndOf(row) # NoDate
            BY <1>5, <2>1
        <3>2. EndOf(new) = EndOf(row) /\ EndOf(row) \in Int
            BY <1>0, <1>3, <3>1 DEF EndOf, Maybe
        <3> QED
            BY <1>3, <1>6, <2>1, <3>2
    <2>2. CASE ~(NoDate \notin {EndOf(row), first.day} /\ EndOf(row) > EndOf(first))
        <3>1. new.endDay = first.endDay
            BY <1>5, <2>2
        <3>2. EndOf(new) = EndOf(first)
            BY <1>5, <3>1 DEF EndOf
        <3>3. row.day # None => ~(EndOf(row) > EndOf(first))
            BY <1>0, <1>2, <1>3, <1>6, <2>2
        <3> QED
            BY <1>3, <1>6, <3>2, <3>3
    <2> QED
        BY <2>1, <2>2
<1>7. new = [first EXCEPT !.performances = more, !.endDay = new.endDay]
    BY <1>1, <1>5
<1> QED
    BY <1>5, <1>6, <1>7 DEF new

\* Which member of the list a row is put to.
LEMMA AddedIs ==
    ASSUME NEW u \in Seq(Row), NEW row \in Row
    PROVE  /\ (\A j \in DOMAIN u : ~SameShow(u[j], row)) => Added(u, row) = Append(u, row)
           /\ \A j \in DOMAIN u :
                SameShow(u[j], row) /\ (\A i \in DOMAIN u : SameShow(u[i], row) => i = j)
                    => Added(u, row) = [u EXCEPT ![j] = WithPerformance(u[j], row)]
           /\ Added(u, row) \in Seq(Row)
<1> DEFINE I == {i \in 1..Len(u) : SameShow(u[i], row)}
           i == FirstLike(u, SameShow, row)
<1>1. i = IF I # {} THEN Min(I) ELSE 0
    BY DEF FirstLike, SelectInSeq
<1>2. I \in SUBSET Nat /\ DOMAIN u = 1..Len(u) /\ Len(u) \in Nat
    OBVIOUS
<1>3. Added(u, row) = IF i = 0 THEN Append(u, row) ELSE [u EXCEPT ![i] = WithPerformance(u[i], row)]
    BY DEF Added
<1> HIDE DEF i
<1>4. I # {} => i \in I /\ i # 0 /\ i \in DOMAIN u
    <2>1. I # {} => Min(I) \in I
        <3> HIDE DEF I
        <3> QED
            BY <1>2, LeastPlace
    <2>2. I # {} => i \in I
        BY <1>1, <2>1
    <2> QED
        BY <1>2, <2>2
<1>5. Added(u, row) \in Seq(Row)
    <2>1. CASE I = {}
        BY <1>1, <1>3, <2>1
    <2>2. CASE I # {}
        <3>1. i \in DOMAIN u /\ u[i] \in Row /\ i # 0
            BY <1>4, <2>2
        <3>2. WithPerformance(u[i], row) \in Row
            BY <3>1, WithPerformanceIs
        <3> HIDE DEF I
        <3> QED
            BY <1>3, <3>1, <3>2
    <2> QED
        BY <2>1, <2>2
<1>6. (\A j \in DOMAIN u : ~SameShow(u[j], row)) => Added(u, row) = Append(u, row)
    BY <1>1, <1>2, <1>3
<1>7. ASSUME NEW j \in DOMAIN u, SameShow(u[j], row), \A k \in DOMAIN u : SameShow(u[k], row) => k = j
      PROVE  Added(u, row) = [u EXCEPT ![j] = WithPerformance(u[j], row)]
    <2>1. j \in I
        BY <1>2, <1>7
    <2>2. i = j /\ i # 0
        BY <1>4, <1>7, <2>1
    <2> HIDE DEF I
    <2> QED
        BY <1>3, <2>2
<1> QED
    BY <1>5, <1>6, <1>7

\* group_by_show, row by row.
LEMMA ShowsRun ==
    ASSUME NEW rows, NEW t \in Seq(Row), t = Sorted(rows)
    PROVE  \E h : /\ h \in [0..Len(t) -> Seq(Row)]
                  /\ h[0] = << >>
                  /\ \A k \in 1..Len(t) : h[k] = Added(h[k - 1], t[k])
                  /\ h[Len(t)] = MergeBy(SameShow, WithPerformance, rows)
<1> DEFINE n == Len(t)
           V == Seq(Row)
           F == [k \in 1..n |-> [u \in V |-> Added(u, t[k])]]
           Body(f, S) == IF S = {} THEN << >> ELSE Added(f[S \ {Max(S)}], t[Max(S)])
           iter == CHOOSE f : f = [S \in SUBSET (1..n) |-> Body(f, S)]
<1>1. n \in Nat /\ << >> \in V /\ DOMAIN t = 1..n
    OBVIOUS
<1>2. MergeBy(SameShow, WithPerformance, rows) = iter[1..n]
    BY <1>1 DEF MergeBy, FoldLeft, MapThenFoldSet, Added
<1>3. IsLoop(F, n, V)
    <2>1. \A k \in 1..n, u \in V : Added(u, t[k]) \in V
        BY <1>1, SeqElements, AddedIs
    <2> HIDE DEF n, V
    <2> QED
        BY <2>1 DEF IsLoop
<1>4. ASSUME NEW f, NEW S \in SUBSET (1..n), S # {}, f[S \ {Max(S)}] \in V
      PROVE  Body(f, S) = F[Max(S)][f[S \ {Max(S)}]]
    <2>1. Max(S) \in 1..n
        BY <1>1, <1>4, MaxIsIn
    <2> HIDE DEF n, V
    <2>2. F[Max(S)][f[S \ {Max(S)}]] = Added(f[S \ {Max(S)}], t[Max(S)])
        BY <1>4, <2>1
    <2> QED
        BY <1>4, <2>2
<1> HIDE DEF F, n, V
<1>5. PICK g : IsFold(g, F, n, V, << >>)
    <2> HIDE DEF iter, Body
    <2> QED
        BY <1>1, <1>3, FoldExists
<1>6. g = [S \in SUBSET (1..n) |-> Body(g, S)]
    <2>1. ASSUME NEW S \in SUBSET (1..n)
          PROVE  g[S] = Body(g, S)
        <3>1. CASE S = {}
            BY <1>5, <3>1 DEF IsFold
        <3>2. CASE S # {}
            <4> HIDE DEF Body
            <4> QED
                BY <1>4, <1>5, <3>2 DEF IsFold
        <3> QED
            BY <3>1, <3>2
    <2> HIDE DEF Body
    <2>2. DOMAIN g = SUBSET (1..n) /\ g = [S \in DOMAIN g |-> g[S]]
        BY <1>5 DEF IsFold
    <2> QED
        BY <2>1, <2>2
<1>7. iter = [S \in SUBSET (1..n) |-> Body(iter, S)]
    <2> HIDE DEF Body
    <2> QED
        BY <1>6
<1> HIDE DEF iter
<1>8. Folds(iter, F, n, V, << >>)
    <2>1. \A S \in SUBSET (1..n) : iter[S] = Body(iter, S)
        <3> HIDE DEF Body
        <3> QED
            BY <1>7
    <2>2. \A S \in SUBSET (1..n) : S = {} => iter[S] = << >>
        BY <2>1
    <2> HIDE DEF Body
    <2> QED
        BY <1>4, <2>1, <2>2 DEF Folds
<1>9. PICK h : IsRun(h, F, n, V, << >>) /\ h[n] = iter[1..n]
    <2> HIDE DEF Body
    <2> QED
        BY <1>1, <1>3, <1>8, FoldSteps
<1>10. \A k \in 1..n : h[k] = Added(h[k - 1], t[k])
    <2>1. \A k \in 1..n : k - 1 \in 0..n
        BY <1>1
    <2>2. \A k \in 1..n, u \in V : F[k][u] = Added(u, t[k])
        BY DEF F
    <2> QED
        BY <1>9, <2>1, <2>2 DEF IsRun
<1> QED
    BY <1>2, <1>9, <1>10 DEF IsRun, V, n

-----------------------------------------------------------------------------
ShowTag(r) == <<r.title, r.venue>>

\* What the i-th row has become of the first k: the run of its show.
IsShow(v, t, tag, i, k) ==
    /\ v = [t[i] EXCEPT !.performances = v.performances, !.endDay = v.endDay]
    /\ v.performances = Cardinality(SameTag(t, tag, i, k))
    /\ t[i].day # None => \A j \in SameTag(t, tag, i, k) : t[j].day # None => EndOf(v) >= EndOf(t[j])

\* There are finitely many rows of a show.
LEMMA TagsFinite ==
    ASSUME NEW k \in Nat, NEW t, NEW tag, NEW i
    PROVE  IsFiniteSet(SameTag(t, tag, i, k)) /\ Cardinality(SameTag(t, tag, i, k)) \in Nat
<1>1. IsFiniteSet(1..k)
    BY FS_Interval
<1>2. SameTag(t, tag, i, k) \in SUBSET (1..k)
    BY DEF SameTag
<1> QED
    BY <1>1, <1>2, FS_Subset, FS_CardinalityType

\* Each row goes on counting the performances it has absorbed.
LEMMA ShowsBecome ==
    ASSUME NEW n \in Nat, NEW t \in Seq(Row), Len(t) = n, Different(t, n), NEW tag, NEW A, NEW good,
           tag = [r \in Row |-> ShowTag(r)],
           A = [k \in 1..n |-> [r \in Row |-> WithPerformance(r, t[k])]],
           good = [k \in 0..n |-> [i \in 1..n |-> {v \in Row : IsShow(v, t, tag, i, k)}]]
    PROVE  Becomes(good, t, tag, A, n, Row)
<1>1. \A k \in 1..n : t[k] \in Row /\ Single(t[k])
    BY DEF Different, Single
<1>2. ASSUME NEW k \in 0..n, NEW i \in 1..n, NEW v
      PROVE  v \in good[k][i] <=> v \in Row /\ IsShow(v, t, tag, i, k)
    OBVIOUS
<1>3. ASSUME NEW k \in 0..n, NEW i \in 1..n, NEW v \in good[k][i]
      PROVE  v \in Row /\ tag[v] = tag[t[i]] /\ v.day = t[i].day
    <2>1. v \in Row /\ v = [t[i] EXCEPT !.performances = v.performances, !.endDay = v.endDay]
        BY <1>2 DEF IsShow
    <2>2. v.day = t[i].day /\ v.title = t[i].title /\ v.venue = t[i].venue
        BY <1>1, <2>1 DEF Row
    <2>3. ShowTag(v) = ShowTag(t[i])
        BY <2>2 DEF ShowTag
    <2> QED
        BY <1>1, <2>1, <2>2, <2>3
<1>4. ASSUME NEW i \in 1..n, IsFirst(t, tag, i)
      PROVE  t[i] \in good[i][i]
    <2>1. SameTag(t, tag, i, i) = {i}
        <3>1. i \in 1..i /\ \A j \in 1..i : j = i \/ j \in 1..(i - 1)
            OBVIOUS
        <3>2. \A j \in 1..(i - 1) : tag[t[j]] # tag[t[i]]
            BY <1>4 DEF IsFirst
        <3>3. \A j \in 1..i : tag[t[j]] = tag[t[i]] <=> j = i
            BY <3>1, <3>2
        <3> QED
            BY <3>1, <3>3 DEF SameTag
    <2>2. t[i].performances = 1 /\ t[i] = [t[i] EXCEPT !.performances = t[i].performances, !.endDay = t[i].endDay]
        BY <1>1 DEF Single, Row
    <2>3. t[i].day # None => EndOf(t[i]) \in Int
        BY <1>1, ListingAssumption, ViewsAssumption DEF EndOf, Row, Maybe
    <2>4. Cardinality(SameTag(t, tag, i, i)) = 1
        BY <2>1, FS_Singleton
    <2>5. \A j \in SameTag(t, tag, i, i) : j = i
        BY <2>1
    <2>7. t[i].day # None => \A j \in SameTag(t, tag, i, i) : t[j].day # None => EndOf(t[i]) >= EndOf(t[j])
        BY <2>3, <2>5
    <2>6. IsShow(t[i], t, tag, i, i)
        BY ONLY <2>2, <2>4, <2>7 DEF IsShow
    <2> QED
        BY <1>1, <1>2, <2>6
<1>5. ASSUME NEW k \in 1..n, NEW i \in 1..n, i < k, NEW v \in good[k - 1][i]
      PROVE  IF tag[t[k]] = tag[t[i]] THEN A[k][v] \in good[k][i] ELSE v \in good[k][i]
    <2>1. k - 1 \in 0..n /\ k \in 0..n
        OBVIOUS
    <2>2. v \in Row /\ IsShow(v, t, tag, i, k - 1)
        BY <1>2, <2>1
    <2>3. CASE tag[t[k]] # tag[t[i]]
        <3>1. SameTag(t, tag, i, k) = SameTag(t, tag, i, k - 1)
            BY <2>3 DEF SameTag
        <3>2. IsShow(v, t, tag, i, k)
            BY <2>2, <3>1 DEF IsShow
        <3> QED
            BY <1>2, <2>1, <2>2, <2>3, <3>2
    <2>4. CASE tag[t[k]] = tag[t[i]]
        <3> DEFINE w == WithPerformance(v, t[k])
                   C == SameTag(t, tag, i, k - 1)
        <3>1. SameTag(t, tag, i, k) = C \cup {k} /\ k \notin C
            BY <2>4 DEF SameTag
        <3>2. /\ w \in Row
              /\ w = [v EXCEPT !.performances = v.performances + 1, !.endDay = w.endDay]
              /\ w.performances = v.performances + 1
              /\ v.day # None => EndOf(w) \in Int /\ EndOf(w) >= EndOf(v) /\ EndOf(v) \in Int
              /\ v.day # None /\ t[k].day # None => EndOf(w) >= EndOf(t[k])
            BY <1>1, <2>2, WithPerformanceIs
        <3>3. v = [t[i] EXCEPT !.performances = v.performances, !.endDay = v.endDay] /\ v.day = t[i].day
            <4>1. v.day = t[i].day
                BY <1>3, <2>1
            <4> QED
                BY <2>2, <4>1 DEF IsShow
        <3>4. w = [t[i] EXCEPT !.performances = w.performances, !.endDay = w.endDay]
            <4> DEFINE x == w.performances
                       y == w.endDay
            <4>1. w = [v EXCEPT !.performances = x, !.endDay = y]
                BY <3>2
            <4> HIDE DEF w, x, y
            <4>2. t[i] \in Row
                BY <1>1
            <4>3. w = [t[i] EXCEPT !.performances = x, !.endDay = y]
                BY <3>3, <4>1, <4>2 DEF Row
            <4> QED
                BY <4>3 DEF x, y
        <3>5. Cardinality(SameTag(t, tag, i, k)) = Cardinality(C) + 1
            <4>1. IsFiniteSet(C)
                <5>1. k - 1 \in Nat
                    OBVIOUS
                <5> QED
                    BY <5>1, TagsFinite
            <4> HIDE DEF C
            <4> QED
                BY <3>1, <4>1, FS_AddElement
        <3> HIDE DEF w
        <3>6. w.performances = Cardinality(SameTag(t, tag, i, k))
            BY <2>2, <3>2, <3>5 DEF IsShow
        <3>7. ASSUME t[i].day # None, NEW j \in C \cup {k}, t[j].day # None
              PROVE  EndOf(w) >= EndOf(t[j])
            <4>1. CASE j \in C
                <5>1. EndOf(v) >= EndOf(t[j])
                    BY <2>2, <3>7, <4>1 DEF IsShow
                <5>2. j \in 1..n
                    BY <4>1 DEF SameTag
                <5>3. EndOf(t[j]) \in Int
                    BY <1>1, <3>7, <5>2, ListingAssumption, ViewsAssumption DEF EndOf, Row, Maybe
                <5> QED
                    BY <3>2, <3>3, <3>7, <5>1, <5>3
            <4>2. CASE j = k
                BY <3>2, <3>3, <3>7, <4>2
            <4> QED
                BY <4>1, <4>2
        <3>8. IsShow(w, t, tag, i, k)
            <4> HIDE DEF C
            <4> QED
                BY <3>1, <3>4, <3>6, <3>7 DEF IsShow
        <3>9. A[k][v] = w
            BY <2>2 DEF w
        <3> QED
            BY <1>2, <2>1, <2>4, <3>2, <3>8, <3>9
    <2> QED
        BY <2>3, <2>4
<1>6. \A k \in 1..n, i \in 1..n : \A v \in good[k][i] : v \in Row /\ tag[v] = tag[t[i]]
    BY <1>3
<1> QED
    BY <1>1, <1>4, <1>5, <1>6 DEF Becomes

\* The loop of group_by_show is a loop of merges.
LEMMA ShowsAbsorb ==
    ASSUME NEW n \in Nat, NEW t \in Seq(Row), Len(t) = n, NEW tag, NEW A, NEW F, NEW good,
           tag = [r \in Row |-> ShowTag(r)],
           A = [k \in 1..n |-> [r \in Row |-> WithPerformance(r, t[k])]],
           F = [k \in 1..n |-> [u \in Seq(Row) |-> Added(u, t[k])]]
    PROVE  Absorbs(F, t, tag, A, good, n, Row)
<1> SUFFICES ASSUME NEW k \in 1..n, NEW u \in Seq(Row),
                    \A j \in DOMAIN u : \E i \in 1..(k - 1) : u[j] \in good[k - 1][i]
             PROVE  /\ (\A j \in DOMAIN u : tag[u[j]] # tag[t[k]]) => F[k][u] = Append(u, t[k])
                    /\ \A j \in DOMAIN u :
                         /\ tag[u[j]] = tag[t[k]]
                         /\ \A i \in DOMAIN u : tag[u[i]] = tag[t[k]] => i = j
                         => F[k][u] = [u EXCEPT ![j] = A[k][u[j]]]
    BY DEF Absorbs
<1>1. F[k][u] = Added(u, t[k]) /\ t[k] \in Row
    OBVIOUS
<1>2. ASSUME NEW j \in DOMAIN u
      PROVE  /\ u[j] \in Row /\ A[k][u[j]] = WithPerformance(u[j], t[k])
             /\ tag[u[j]] = tag[t[k]] <=> SameShow(u[j], t[k])
    <2>1. u[j] \in Row
        OBVIOUS
    <2>2. ShowTag(u[j]) = ShowTag(t[k]) <=> SameShow(u[j], t[k])
        BY DEF ShowTag, SameShow
    <2> QED
        BY <1>1, <2>1, <2>2
<1>3. /\ (\A j \in DOMAIN u : ~SameShow(u[j], t[k])) => Added(u, t[k]) = Append(u, t[k])
      /\ \A j \in DOMAIN u :
            SameShow(u[j], t[k]) /\ (\A i \in DOMAIN u : SameShow(u[i], t[k]) => i = j)
                => Added(u, t[k]) = [u EXCEPT ![j] = WithPerformance(u[j], t[k])]
    BY <1>1, AddedIs
<1>4. (\A j \in DOMAIN u : tag[u[j]] # tag[t[k]]) => F[k][u] = Append(u, t[k])
    BY ONLY <1>1, <1>2, <1>3
<1>5. ASSUME NEW j \in DOMAIN u, tag[u[j]] = tag[t[k]], \A i \in DOMAIN u : tag[u[i]] = tag[t[k]] => i = j
      PROVE  F[k][u] = [u EXCEPT ![j] = A[k][u[j]]]
    <2>1. SameShow(u[j], t[k]) /\ \A i \in DOMAIN u : SameShow(u[i], t[k]) => i = j
        BY ONLY <1>2, <1>5
    <2>2. Added(u, t[k]) = [u EXCEPT ![j] = WithPerformance(u[j], t[k])]
        BY ONLY <1>3, <2>1
    <2> QED
        BY ONLY <1>1, <1>2, <2>2
<1> QED
    BY <1>4, <1>5

Shuffles(p, n) ==
    /\ p \in [1..n -> 1..n]
    /\ \A k, l \in 1..n : p[k] = p[l] => k = l
    /\ \A i \in 1..n : \E k \in 1..n : p[k] = i

\* Shuffling keeps numbers.
LEMMA CountPermuted ==
    ASSUME NEW n \in Nat, NEW p, Shuffles(p, n),
           NEW C \in SUBSET (1..n), NEW D \in SUBSET (1..n), \A j \in 1..n : j \in C <=> p[j] \in D
    PROVE  Cardinality(C) = Cardinality(D)
<1> DEFINE f == [j \in C |-> p[j]]
<1>1. IsFiniteSet(1..n)
    BY FS_Interval
<1>2. IsFiniteSet(C)
    BY <1>1, FS_Subset
<1>3. f \in [C -> D] /\ (\A j, k \in C : f[j] = f[k] => j = k) /\ \A i \in D : \E j \in C : f[j] = i
    BY DEF Shuffles
<1> HIDE DEF f
<1>4. f \in Bijection(C, D)
    BY <1>3 DEF Bijection, Injection, Surjection, IsInjective
<1>5. ExistsBijection(C, D)
    BY <1>4 DEF ExistsBijection
<1> QED
    BY <1>2, <1>5, FS_Bijection

\* What group_by_show makes of the current rows, but for what it forgets of them.
Showing(g, rows) ==
    /\ g \in Seq(Row)
    /\ \A i \in DOMAIN rows :
        \E k \in DOMAIN g :
            /\ SameShow(g[k], rows[i])
            /\ \A l \in DOMAIN g : SameShow(g[l], rows[i]) => l = k
            /\ g[k].performances = Cardinality({j \in DOMAIN rows : SameShow(rows[j], rows[i])})
            /\ rows[i].day # None => g[k].day <= rows[i].day /\ EndOf(g[k]) >= EndOf(rows[i])

\* group_by_show makes one row of the performances of a show.
LEMMA ShowsAre ==
    ASSUME NEW rows \in Seq(Row), Different(rows, Len(rows))
    PROVE  Showing(MergeBy(SameShow, WithPerformance, rows), rows)
<1> DEFINE n == Len(rows)
           t == Sorted(rows)
           m == MergeBy(SameShow, WithPerformance, rows)
           tag == [r \in Row |-> ShowTag(r)]
           A == [k \in 1..n |-> [r \in Row |-> WithPerformance(r, t[k])]]
           F == [k \in 1..n |-> [u \in Seq(Row) |-> Added(u, t[k])]]
           good == [k \in 0..n |-> [i \in 1..n |-> {v \in Row : IsShow(v, t, tag, i, k)}]]
<1>1. n \in Nat /\ DOMAIN rows = 1..n
      /\ \A k \in 1..n : rows[k] \in Row /\ Single(rows[k]) /\ WellDated(rows[k])
    BY DEF Different, Single
<1> HIDE DEF n
<1>2. t \in Seq(Row) /\ InTime(t, n) /\ \E p : SameRows(t, rows, p, n)
    BY <1>1, SortedRows DEF n
<1>3. PICK p : SameRows(t, rows, p, n)
    BY <1>2
<1>4. /\ DOMAIN t = 1..n /\ p \in [1..n -> 1..n]
      /\ \A k \in 1..n : t[k] = rows[p[k]]
      /\ \A k, l \in 1..n : p[k] = p[l] => k = l
      /\ \A i \in 1..n : \E k \in 1..n : p[k] = i
    BY <1>3 DEF SameRows
<1>5. Len(t) = n /\ Different(t, n)
    <2>1. Different(rows, n)
        BY DEF n
    <2> HIDE DEF t, tag, A, F, good
    <2>2. Len(t) = n
        BY <1>1, <1>2, <1>4
    <2>3. Different(t, n)
        <3>1. \A k \in 1..n : Single(t[k]) /\ t[k] = rows[p[k]] /\ p[k] \in 1..n
            BY <1>1, <1>4
        <3>2. \A k, l \in 1..n : t[k].id = t[l].id => p[k] = p[l]
            BY ONLY <2>1, <3>1 DEF Different
        <3> QED
            BY <1>4, <3>1, <3>2 DEF Different
    <2> QED
        BY <2>2, <2>3
<1>6. PICK h : h \in [0..n -> Seq(Row)] /\ h[0] = << >> /\ (\A k \in 1..n : h[k] = Added(h[k - 1], t[k]))
               /\ h[n] = m
    <2> HIDE DEF t, m
    <2>1. t \in Seq(Row) /\ t = Sorted(rows)
        BY <1>2 DEF t
    <2> QED
        BY <1>5, <2>1, ShowsRun DEF m
<1> HIDE DEF t, m
<1>7. IsRun(h, F, n, Seq(Row), << >>)
    <2>1. \A k \in 1..n : k - 1 \in 0..n
        BY <1>1
    <2> QED
        BY <1>6, <2>1 DEF IsRun
<1>8. Absorbs(F, t, tag, A, good, n, Row) /\ Becomes(good, t, tag, A, n, Row)
    <2> HIDE DEF F, A, good, tag
    <2>1. tag = [r \in Row |-> ShowTag(r)]
        BY DEF tag
    <2>2. A = [k \in 1..n |-> [r \in Row |-> WithPerformance(r, t[k])]]
        BY DEF A
    <2>3. F = [k \in 1..n |-> [u \in Seq(Row) |-> Added(u, t[k])]]
        BY DEF F
    <2>4. good = [k \in 0..n |-> [i \in 1..n |-> {v \in Row : IsShow(v, t, tag, i, k)}]]
        BY DEF good
    <2> QED
        BY <1>1, <1>2, <1>5, <2>1, <2>2, <2>3, <2>4, ShowsAbsorb, ShowsBecome
<1>9. PICK at : MergedAt(m, at, good, t, tag, n)
    <2> HIDE DEF F, A, good, tag
    <2>1. \E at : MergedAt(h[n], at, good, t, tag, n)
        BY <1>1, <1>7, <1>8, Merging
    <2> QED
        BY <1>6, <2>1
<1>0. /\ \A r \in Row : tag[r] = ShowTag(r)
      /\ \A i \in 1..n : \A v \in good[n][i] : v \in Row /\ IsShow(v, t, tag, i, n)
    BY <1>1
<1> HIDE DEF tag, good, A, F
<1>10. m \in Seq(Row) /\ DOMAIN m \subseteq Nat
    <2>1. m \in Seq(Row)
        BY <1>1, <1>6
    <2> QED
        BY <2>1
<1>t. \A k \in 1..n : t[k] \in Row /\ t[k] = rows[p[k]] /\ p[k] \in 1..n
    BY <1>1, <1>4
<1>11. ASSUME NEW j \in DOMAIN m
       PROVE  /\ at[j] \in 1..n /\ IsFirst(t, tag, at[j])
              /\ m[j] \in Row /\ IsShow(m[j], t, tag, at[j], n)
              /\ m[j].day = t[at[j]].day
              /\ tag[m[j]] = tag[t[at[j]]]
    <2>1. at[j] \in 1..n /\ IsFirst(t, tag, at[j]) /\ m[j] \in good[n][at[j]]
        BY <1>9 DEF MergedAt
    <2>2. m[j] \in Row /\ IsShow(m[j], t, tag, at[j], n)
        BY <1>0, <2>1
    <2>3. t[at[j]] \in Row
        BY <1>t, <2>1
    <2>4. m[j].day = t[at[j]].day /\ m[j].title = t[at[j]].title /\ m[j].venue = t[at[j]].venue
        BY <2>2, <2>3 DEF IsShow, Row
    <2>5. tag[m[j]] = tag[t[at[j]]]
        BY <1>0, <2>2, <2>3, <2>4 DEF ShowTag
    <2> QED
        BY <2>1, <2>2, <2>4, <2>5
<1>12. ASSUME NEW r \in Row, NEW s \in Row
       PROVE  tag[r] = tag[s] <=> SameShow(r, s)
    BY <1>0 DEF ShowTag, SameShow
<1>15. ASSUME NEW i \in 1..n
       PROVE  \E k \in DOMAIN m :
                /\ SameShow(m[k], rows[i])
                /\ \A l \in DOMAIN m : SameShow(m[l], rows[i]) => l = k
                /\ m[k].performances = Cardinality({j \in DOMAIN rows : SameShow(rows[j], rows[i])})
                /\ rows[i].day # None => m[k].day <= rows[i].day /\ EndOf(m[k]) >= EndOf(rows[i])
    <2>1. PICK q \in 1..n : p[q] = i
        BY <1>4
    <2>2. PICK k \in DOMAIN m : tag[t[at[k]]] = tag[t[q]]
        BY <1>9 DEF MergedAt
    <2> DEFINE same == {j \in DOMAIN rows : SameShow(rows[j], rows[i])}
               C == SameTag(t, tag, at[k], n)
    <2>3. t[q] = rows[i] /\ t[q] \in Row
        BY <1>t, <2>1
    <2>4. SameShow(m[k], rows[i])
        BY <1>11, <1>12, <2>2, <2>3
    <2>5. ASSUME NEW l \in DOMAIN m, SameShow(m[l], rows[i])
          PROVE  l = k
        <3>1. tag[m[l]] = tag[t[q]]
            BY <1>11, <1>12, <2>3, <2>5
        <3>2. tag[t[at[l]]] = tag[t[at[k]]]
            BY <1>11, <2>2, <3>1
        <3> QED
            BY <1>1, <1>9, <1>10, <3>2, OneOfATag
    <2>6. \A j \in 1..n : j \in C <=> p[j] \in same
        <3>1. \A j \in 1..n : tag[t[j]] = tag[t[at[k]]] <=> SameShow(t[j], rows[i])
            BY <1>12, <1>t, <2>2, <2>3
        <3> QED
            BY <1>1, <1>t, <3>1 DEF SameTag
    <2>7. C \in SUBSET (1..n) /\ same \in SUBSET (1..n)
        BY <1>1 DEF SameTag
    <2>0. IsShow(m[k], t, tag, at[k], n)
        BY <1>11
    <2>8. m[k].performances = Cardinality(C)
        BY <2>0 DEF IsShow
    <2>q. q \in C
        BY <2>2 DEF SameTag
    <2> HIDE DEF C, same
    <2>9. Cardinality(C) = Cardinality(same)
        <3>1. Shuffles(p, n)
            BY <1>4 DEF Shuffles
        <3> QED
            BY <1>1, <2>6, <2>7, <3>1, CountPermuted
    <2>10. ASSUME rows[i].day # None
           PROVE  m[k].day <= rows[i].day /\ EndOf(m[k]) >= EndOf(rows[i])
        <3>1. at[k] \in 1..n /\ m[k].day = t[at[k]].day
            BY <1>11
        <3>2. t[q].day \in Int
            BY <2>3, <2>10 DEF Row, Maybe
        <3>3. ~(q < at[k])
            <4>1. q < at[k] => q \in 1..(at[k] - 1)
                BY <3>1
            <4> QED
                BY <1>11, <2>2, <4>1 DEF IsFirst
        <3>4. t[at[k]].day # None /\ t[at[k]].day <= t[q].day
            <4>1. CASE q = at[k]
                BY <2>3, <2>10, <3>2, <4>1
            <4>2. CASE q # at[k]
                <5>1. at[k] < q
                    BY <3>1, <3>3, <4>2
                <5> QED
                    BY <1>2, <2>3, <2>10, <3>1, <5>1 DEF InTime
            <4> QED
                BY <4>1, <4>2
        <3>5. EndOf(m[k]) >= EndOf(t[q])
            BY <2>0, <2>3, <2>10, <2>q, <3>4 DEF IsShow, C
        <3> QED
            BY <2>3, <3>1, <3>4, <3>5
    <2> QED
        BY <2>4, <2>5, <2>8, <2>9, <2>10 DEF same
<1>16. Showing(m, rows)
    BY <1>1, <1>10, <1>15 DEF Showing
<1> QED
    BY <1>16 DEF m

\* The latest of some dates.
LEMMA LatestOf ==
    ASSUME NEW n \in Nat, NEW f, NEW I \in SUBSET (1..n), I # {}, \A i \in I : f[i] \in Int
    PROVE  \A i \in I : f[i] <= Max({f[j] : j \in I})
<1>1. PICK i \in I : TRUE
    OBVIOUS
<1> DEFINE g == [k \in 1..n |-> IF k \in I THEN f[k] ELSE f[i]]
<1>2. n \in Nat \ {0} /\ \A k \in 1..n : g[k] \in Int
    OBVIOUS
<1> HIDE DEF g
<1>3. PICK k \in 1..n : \A j \in 1..n : g[j] <= g[k]
    BY <1>2, GreatestOf
<1>4. PICK m \in I : g[k] = f[m]
    BY <1>1 DEF g
<1>5. \A j \in I : f[j] <= f[m]
    BY <1>3, <1>4 DEF g
<1> DEFINE S == {f[j] : j \in I}
<1>6. S \subseteq Int /\ f[m] \in S /\ \A x \in S : f[m] >= x
    BY <1>5
<1> HIDE DEF S
<1>7. Max(S) \in S /\ \A x \in S : Max(S) >= x
    BY <1>6 DEF Max
<1>8. \A j \in I : f[j] \in S
    BY DEF S
<1> QED
    BY <1>6, <1>7, <1>8 DEF S

\* A long run is under one film, shown as long as any of its runs.
LEMMA FilmsUntil ==
    ASSUME NEW rows \in Seq(Row), NEW row \in ToSet(LongRuns(rows))
    PROVE  \E film \in Films(rows) :
                /\ row \in film.rows /\ row.endDay <= film.until
                /\ \A other \in Films(rows) \ {film} : row \notin other.rows
<1> DEFINE I == {i \in DOMAIN rows : /\ NoDate \notin {rows[i].day, rows[i].endDay}
                                     /\ rows[i].endDay - rows[i].day > LongRun}
           runs == ToSet(LongRuns(rows))
           film(c) == {r \in runs : r.canon = c}
           one(c) == [canon |-> c, rows |-> film(c), until |-> Max({r.endDay : r \in film(c)})]
<1>1. LongRuns(rows) = Picked(rows, I)
    BY DEF LongRuns, Only
<1>2. runs = {rows[i] : i \in I}
    <2>1. I \subseteq DOMAIN rows
        OBVIOUS
    <2> HIDE DEF I
    <2> QED
        BY <1>1, <2>1, PickedSet
<1>3. Films(rows) = {one(c) : c \in {r.canon : r \in runs}}
    BY DEF Films
<1>4. \A i \in I : rows[i] \in Row /\ rows[i].endDay \in Int
    <2>1. \A i \in I : rows[i] \in Row /\ rows[i].endDay # NoDate
        BY SeqElements
    <2> HIDE DEF I
    <2>2. \A r \in Row : r.endDay \in Maybe /\ NoDate = None
        BY ViewsAssumption DEF Row
    <2> QED
        BY <2>1, <2>2 DEF Maybe
<1> DEFINE c == row.canon
           C == {i \in I : rows[i].canon = c}
           n == Len(rows)
           f == [i \in 1..n |-> rows[i].endDay]
<1>5. n \in Nat /\ C \in SUBSET (1..n) /\ \A i \in C : f[i] \in Int /\ f[i] = rows[i].endDay
    <2>1. n \in Nat /\ DOMAIN rows = 1..n /\ I \subseteq DOMAIN rows
        OBVIOUS
    <2> HIDE DEF I
    <2> QED
        BY <1>4, <2>1
<1> HIDE DEF I
<1>6. PICK i \in C : rows[i] = row
    BY <1>2
<1>7. film(c) = {rows[j] : j \in C}
    BY <1>2
<1>8. {r.endDay : r \in film(c)} = {f[j] : j \in C}
    <2>1. {r.endDay : r \in film(c)} = {rows[j].endDay : j \in C}
        <3> DEFINE S == film(c)
        <3>1. S = {rows[j] : j \in C}
            BY <1>7
        <3> HIDE DEF S
        <3>2. {r.endDay : r \in S} = {rows[j].endDay : j \in C}
            BY ONLY <3>1
        <3> QED
            BY <3>2 DEF S
    <2>2. {rows[j].endDay : j \in C} = {f[j] : j \in C}
        <3> HIDE DEF C, f, n
        <3>1. \A j \in C : f[j] = rows[j].endDay
            BY <1>5
        <3> QED
            BY ONLY <3>1
    <2> QED
        BY ONLY <2>1, <2>2
<1>9. row.endDay <= Max({r.endDay : r \in film(c)})
    <2>1. f[i] = row.endDay
        BY <1>5, <1>6
    <2> HIDE DEF C, f, n
    <2>2. C # {}
        BY <1>6
    <2>3. \A j \in C : f[j] <= Max({f[k] : k \in C})
        BY <1>5, <2>2, LatestOf
    <2> QED
        BY <1>6, <1>8, <2>1, <2>3
<1> HIDE DEF runs
<1>10. row \in runs /\ row \in film(c)
    BY DEF runs
<1>11. one(c) \in Films(rows)
    BY <1>3, <1>10
<1>12. row \in one(c).rows /\ row.endDay <= one(c).until
    BY <1>9, <1>10
<1>13. ASSUME NEW other \in Films(rows) \ {one(c)}
       PROVE  row \notin other.rows
    <2>1. PICK d \in {r.canon : r \in runs} : other = one(d)
        BY <1>3
    <2>2. d # c
        BY <1>13, <2>1
    <2>3. other.rows = film(d)
        BY <2>1
    <2> QED
        BY <2>2, <2>3
<1> HIDE DEF one, c
<1> QED
    BY <1>11, <1>12, <1>13

\* A show is listed once, with the number of its performances and their last day.
LEMMA ShowsCounted ==
    ASSUME NEW rows \in Seq(Row), Different(rows, Len(rows)), NEW row \in ToSet(rows)
    PROVE  LET shows == GroupShows(rows)
           IN \E i \in DOMAIN shows :
                /\ SameShow(shows[i], row)
                /\ \A j \in DOMAIN shows \ {i} : ~SameShow(shows[j], row)
                /\ shows[i].performances = Cardinality({k \in DOMAIN rows : SameShow(rows[k], row)})
                /\ row.day # None => shows[i].day <= row.day /\ EndOf(shows[i]) >= EndOf(row)
<1> DEFINE g == MergeBy(SameShow, WithPerformance, rows)
           shows == GroupShows(rows)
<1>1. Showing(g, rows)
    BY ShowsAre
<1>2. shows = [i \in DOMAIN g |-> IF g[i].performances > 1
                                  THEN [g[i] EXCEPT !.time = NoDate, !.extraTimes = << >>] ELSE g[i]]
    BY DEF GroupShows
<1> HIDE DEF g, shows
<1>3. \A i \in DOMAIN g : g[i] \in Row
    BY <1>1 DEF Showing
<1>4. /\ DOMAIN shows = DOMAIN g
      /\ \A i \in DOMAIN g :
            /\ shows[i].title = g[i].title /\ shows[i].venue = g[i].venue /\ shows[i].day = g[i].day
            /\ shows[i].endDay = g[i].endDay /\ shows[i].performances = g[i].performances
    BY <1>2, <1>3 DEF Row
<1>5. PICK k \in DOMAIN rows : rows[k] = row
    BY DEF ToSet
<1>6. PICK i \in DOMAIN g :
            /\ SameShow(g[i], row)
            /\ \A l \in DOMAIN g : SameShow(g[l], row) => l = i
            /\ g[i].performances = Cardinality({j \in DOMAIN rows : SameShow(rows[j], row)})
            /\ row.day # None => g[i].day <= row.day /\ EndOf(g[i]) >= EndOf(row)
    BY <1>1, <1>5 DEF Showing
<1>7. \A j \in DOMAIN g : (SameShow(shows[j], row) <=> SameShow(g[j], row)) /\ EndOf(shows[j]) = EndOf(g[j])
    BY <1>4 DEF SameShow, EndOf
<1>8. /\ i \in DOMAIN shows /\ SameShow(shows[i], row)
      /\ \A j \in DOMAIN shows \ {i} : ~SameShow(shows[j], row)
      /\ shows[i].performances = Cardinality({j \in DOMAIN rows : SameShow(rows[j], row)})
      /\ row.day # None => shows[i].day <= row.day /\ EndOf(shows[i]) >= EndOf(row)
    BY <1>4, <1>6, <1>7
<1> QED
    BY <1>8 DEF shows

\* The summary lists count every performance once and reach to the last day, and the
\* movies page has every long run under one film (web/listing.py:177-199,
\* web/routes.py:258-267).
THEOREM ShowsCountOnce == Spec => []ShowsOnce
<1>1. TypeOK => ShowsOnce
    <2> SUFFICES ASSUME TypeOK PROVE ShowsOnce
        OBVIOUS
    <2> DEFINE rows == CurrentRows
    <2>1. rows \in Seq(Row) /\ Different(rows, Len(rows))
        BY TodayIs, CurrentRowsDiffer DEF CurrentRows
    <2> HIDE DEF rows
    <2>2. ASSUME NEW row \in ToSet(rows)
          PROVE  LET shows == GroupShows(rows)
                 IN \E i \in DOMAIN shows :
                        /\ SameShow(shows[i], row)
                        /\ \A j \in DOMAIN shows \ {i} : ~SameShow(shows[j], row)
                        /\ shows[i].performances = Cardinality({k \in DOMAIN rows : SameShow(rows[k], row)})
                        /\ row.day # None => shows[i].day <= row.day /\ EndOf(shows[i]) >= EndOf(row)
        BY <2>1, ShowsCounted
    <2>3. ASSUME NEW row \in ToSet(LongRuns(rows))
          PROVE  \E film \in Films(rows) :
                    /\ row \in film.rows /\ row.endDay <= film.until
                    /\ \A other \in Films(rows) \ {film} : row \notin other.rows
        BY <2>1, FilmsUntil
    <2> QED
        BY <2>2, <2>3 DEF ShowsOnce, Count, rows
<1> QED
    BY <1>1, ViewsTypeCorrect, PTL

-----------------------------------------------------------------------------
(* Sorting by a number.                                                    *)

\* How many come before the i-th of n by their numbers f.
Ahead(f, n) ==
    [i \in 1..n |-> Cardinality({j \in 1..n : f[j] < f[i] \/ (j < i /\ ~(f[i] < f[j]))})]

\* t has the members of s by their numbers; the k-th was at place at[k].
ByNumber(t, s, f, at, n) ==
    /\ DOMAIN t = 1..n
    /\ Shuffles(at, n)
    /\ \A k \in 1..n : t[k] = s[at[k]]
    /\ \A k, l \in 1..n : k < l => f[at[k]] <= f[at[l]]

\* Sorting by a number keeps the members and puts the lesser ones first.
LEMMA SortedByNumber ==
    ASSUME NEW V, NEW s \in Seq(V), NEW n \in Nat, DOMAIN s = 1..n, NEW f, \A i \in 1..n : f[i] \in Int
    PROVE  LET t == Ranked(s, Ahead(f, n))
           IN t \in Seq(V) /\ Len(t) = n /\ \E at : ByNumber(t, s, f, at, n)
<1> DEFINE L == [i \in 1..n |-> {j \in 1..n : f[j] < f[i]}]
           t == Ranked(s, Ahead(f, n))
<1>1. \A i, j \in 1..n : j \in L[i] <=> f[j] < f[i]
    OBVIOUS
<1>2. Lesser(L, n)
    <2>1. L \in [1..n -> SUBSET (1..n)]
        OBVIOUS
    <2> HIDE DEF L
    <2>2. \A i, j \in 1..n : j \in L[i] => i \notin L[j]
        BY <1>1
    <2>3. \A i, j, k \in 1..n : k \in L[i] => k \in L[j] \/ j \in L[i]
        BY <1>1
    <2> QED
        BY <2>1, <2>2, <2>3 DEF Lesser
<1>3. t = Ranked(s, Ranks(s, Before(L, n)))
    <2>1. ASSUME NEW i \in 1..n
          PROVE  Before(L, n)[i] = {j \in 1..n : f[j] < f[i] \/ (j < i /\ ~(f[i] < f[j]))}
        BY <1>1 DEF Before
    <2> HIDE DEF L
    <2>2. Ahead(f, n) = Ranks(s, Before(L, n))
        BY <2>1 DEF Ahead, Ranks
    <2> QED
        BY <2>2
<1> HIDE DEF t
<1>4. PICK at : SortedAt(t, s, L, at, n)
    <2> HIDE DEF L
    <2> QED
        BY <1>2, <1>3, SortedIs
<1> HIDE DEF L
<1>5. /\ t = [k \in 1..n |-> s[at[k]]] /\ at \in [1..n -> 1..n]
      /\ \A i \in 1..n : \E k \in 1..n : at[k] = i
      /\ \A k, l \in 1..n : k < l => at[k] # at[l] /\ at[l] \notin L[at[k]]
    BY <1>4 DEF SortedAt
<1>6. \A k \in 1..n : at[k] \in 1..n /\ t[k] = s[at[k]] /\ t[k] \in V
    <2>1. \A i \in 1..n : s[i] \in V
        BY SeqElements
    <2> QED
        BY <1>5, <2>1
<1>7. t \in Seq(V) /\ Len(t) = n
    <2>1. DOMAIN t = 1..n /\ t = [k \in 1..n |-> t[k]]
        BY <1>5
    <2> QED
        BY <1>6, <2>1, SeqIs
<1>8. ASSUME NEW k \in 1..n, NEW l \in 1..n, k < l
      PROVE  at[k] # at[l] /\ f[at[k]] <= f[at[l]]
    <2>1. at[l] \notin L[at[k]] /\ at[k] # at[l]
        BY <1>5, <1>8
    <2>2. f[at[k]] \in Int /\ f[at[l]] \in Int
        BY <1>6
    <2> QED
        BY <1>1, <1>6, <2>1, <2>2
<1>9. Shuffles(at, n)
    <2>1. ASSUME NEW k \in 1..n, NEW l \in 1..n, at[k] = at[l]
          PROVE  k = l
        <3>1. ~(k < l) /\ ~(l < k)
            BY <1>8, <2>1
        <3> QED
            BY <3>1
    <2> QED
        BY <1>5, <2>1 DEF Shuffles
<1>10. ByNumber(t, s, f, at, n)
    BY <1>5, <1>6, <1>8, <1>9 DEF ByNumber
<1> QED
    BY <1>7, <1>10 DEF t

-----------------------------------------------------------------------------
(* Items of news, and what groups them.                                    *)

ItemSet ==
    [id : Nat, type : Types, title : Nat, venue : {raw.venue : raw \in Raw}, movie : BOOLEAN,
     start : Nat \cup {None}, details : {Details(log[id]) : id \in Ids}, to : {log[id].to : id \in Ids},
     watched : BOOLEAN, count : Nat]

ByShow == [v \in ItemSet |-> ShowKey(v)]

ByStatus == [v \in ItemSet |-> ShowAndStatus(v)]

\* A key does not tell how many an item stands for.
IsGroupKey(key) ==
    \A v \in ItemSet, c \in Nat : [v EXCEPT !.count = c] \in ItemSet /\ key[[v EXCEPT !.count = c]] = key[v]

\* The keys of group_items.
LEMMA GroupKeys == IsGroupKey(ByShow) /\ IsGroupKey(ByStatus)
<1>1. ASSUME NEW v \in ItemSet, NEW c \in Nat
      PROVE  LET w == [v EXCEPT !.count = c]
             IN w \in ItemSet /\ w.title = v.title /\ w.venue = v.venue /\ w.to = v.to
    BY DEF ItemSet
<1>2. ASSUME NEW v \in ItemSet, NEW c \in Nat
      PROVE  ByShow[[v EXCEPT !.count = c]] = ByShow[v] /\ ByStatus[[v EXCEPT !.count = c]] = ByStatus[v]
    <2> DEFINE w == [v EXCEPT !.count = c]
    <2>1. w \in ItemSet /\ w.title = v.title /\ w.venue = v.venue /\ w.to = v.to
        BY <1>1
    <2> HIDE DEF w
    <2>2. ByShow[w] = ByShow[v] /\ ByStatus[w] = ByStatus[v]
        BY <2>1 DEF ByShow, ByStatus, ShowKey, ShowAndStatus
    <2> QED
        BY <2>2 DEF w
<1> QED
    BY <1>1, <1>2 DEF IsGroupKey

\* One item more, put to the first one of its key.
Counting(u, x, key) ==
    LET I == {i \in 1..Len(u) : key[u[i]] = key[x]}
    IN IF I = {} THEN Append(u, x) ELSE [u EXCEPT ![Min(I)].count = @ + 1]

CountingShow(u, x) ==
    LET i == SelectInSeq(u, LAMBDA first : ShowKey(first) = ShowKey(x))
    IN IF i = 0 THEN Append(u, x) ELSE [u EXCEPT ![i].count = @ + 1]

CountingStatus(u, x) ==
    LET i == SelectInSeq(u, LAMBDA first : ShowAndStatus(first) = ShowAndStatus(x))
    IN IF i = 0 THEN Append(u, x) ELSE [u EXCEPT ![i].count = @ + 1]

More(v) == [v EXCEPT !.count = @ + 1]

\* What counting one item more does to the list.
LEMMA CountingIs ==
    ASSUME NEW u \in Seq(ItemSet), NEW x \in ItemSet, NEW key
    PROVE  /\ (\A j \in DOMAIN u : key[u[j]] # key[x]) => Counting(u, x, key) = Append(u, x)
           /\ \A j \in DOMAIN u :
                key[u[j]] = key[x] /\ (\A i \in DOMAIN u : key[u[i]] = key[x] => i = j)
                    => Counting(u, x, key) = [u EXCEPT ![j] = More(u[j])]
           /\ Counting(u, x, key) \in Seq(ItemSet)
<1> DEFINE I == {i \in 1..Len(u) : key[u[i]] = key[x]}
<1>1. Counting(u, x, key) = IF I = {} THEN Append(u, x) ELSE [u EXCEPT ![Min(I)] = More(@)]
    BY DEF Counting, More
<1>2. I \in SUBSET Nat /\ DOMAIN u = 1..Len(u) /\ Len(u) \in Nat
    OBVIOUS
<1>3. I # {} => Min(I) \in I /\ Min(I) \in DOMAIN u /\ Min(I) # 0
    <2>1. I # {} => Min(I) \in I
        <3> HIDE DEF I
        <3> QED
            BY <1>2, LeastPlace
    <2> QED
        BY <1>2, <2>1
<1>4. \A v \in ItemSet : More(v) \in ItemSet
    BY SMTT(30) DEF More, ItemSet
<1>5. Counting(u, x, key) \in Seq(ItemSet)
    <2>1. CASE I = {}
        BY <1>1, <2>1
    <2>2. CASE I # {}
        <3>1. Min(I) \in DOMAIN u /\ More(u[Min(I)]) \in ItemSet
            BY <1>3, <1>4, <2>2
        <3> HIDE DEF I
        <3> QED
            BY <1>1, <2>2, <3>1
    <2> QED
        BY <2>1, <2>2
<1>6. (\A j \in DOMAIN u : key[u[j]] # key[x]) => Counting(u, x, key) = Append(u, x)
    BY <1>1, <1>2
<1>7. ASSUME NEW j \in DOMAIN u, key[u[j]] = key[x], \A i \in DOMAIN u : key[u[i]] = key[x] => i = j
      PROVE  Counting(u, x, key) = [u EXCEPT ![j] = More(u[j])]
    <2>1. j \in I
        BY <1>2, <1>7
    <2>2. Min(I) = j /\ I # {}
        BY <1>3, <1>7, <2>1
    <2> HIDE DEF I
    <2> QED
        BY <1>1, <2>2
<1> QED
    BY <1>3, <1>5, <1>6, <1>7

\* Both loops count by their key: the show,
LEMMA CountingShowIs ==
    ASSUME NEW u \in Seq(ItemSet), NEW x \in ItemSet
    PROVE  CountingShow(u, x) = Counting(u, x, ByShow) /\ CountingShow(u, x) \in Seq(ItemSet)
<1> DEFINE I == {i \in 1..Len(u) : ShowKey(u[i]) = ShowKey(x)}
           i == SelectInSeq(u, LAMBDA first : ShowKey(first) = ShowKey(x))
<1>1. i = IF I # {} THEN Min(I) ELSE 0
    BY DEF SelectInSeq
<1>2. I = {j \in 1..Len(u) : ByShow[u[j]] = ByShow[x]}
    BY DEF ByShow
<1>3. I # {} => Min(I) # 0
    <2>1. I \in SUBSET Nat /\ 0 \notin I
        OBVIOUS
    <2> HIDE DEF I
    <2> QED
        BY <2>1, LeastPlace
<1> HIDE DEF I, i
<1>4. CountingShow(u, x) = IF i = 0 THEN Append(u, x) ELSE [u EXCEPT ![i].count = @ + 1]
    BY DEF CountingShow, i
<1>5. CountingShow(u, x) = IF I = {} THEN Append(u, x) ELSE [u EXCEPT ![Min(I)].count = @ + 1]
    BY <1>1, <1>3, <1>4
<1>6. CountingShow(u, x) = Counting(u, x, ByShow)
    BY <1>2, <1>5 DEF Counting
<1> QED
    BY <1>6, CountingIs

\* and the show with its status.
LEMMA CountingStatusIs ==
    ASSUME NEW u \in Seq(ItemSet), NEW x \in ItemSet
    PROVE  CountingStatus(u, x) = Counting(u, x, ByStatus) /\ CountingStatus(u, x) \in Seq(ItemSet)
<1> DEFINE I == {i \in 1..Len(u) : ShowAndStatus(u[i]) = ShowAndStatus(x)}
           i == SelectInSeq(u, LAMBDA first : ShowAndStatus(first) = ShowAndStatus(x))
<1>1. i = IF I # {} THEN Min(I) ELSE 0
    BY DEF SelectInSeq
<1>2. I = {j \in 1..Len(u) : ByStatus[u[j]] = ByStatus[x]}
    BY DEF ByStatus
<1>3. I # {} => Min(I) # 0
    <2>1. I \in SUBSET Nat /\ 0 \notin I
        OBVIOUS
    <2> HIDE DEF I
    <2> QED
        BY <2>1, LeastPlace
<1> HIDE DEF I, i
<1>4. CountingStatus(u, x) = IF i = 0 THEN Append(u, x) ELSE [u EXCEPT ![i].count = @ + 1]
    BY DEF CountingStatus, i
<1>5. CountingStatus(u, x) = IF I = {} THEN Append(u, x) ELSE [u EXCEPT ![Min(I)].count = @ + 1]
    BY <1>1, <1>3, <1>4
<1>6. CountingStatus(u, x) = Counting(u, x, ByStatus)
    BY <1>2, <1>5 DEF Counting
<1> QED
    BY <1>6, CountingIs

\* The loop of group_items over t, by either key.
ShowLoop(t) ==
    FoldLeft(LAMBDA out, item :
                LET i == SelectInSeq(out, LAMBDA first : ShowKey(first) = ShowKey(item))
                IN IF i = 0 THEN Append(out, item) ELSE [out EXCEPT ![i].count = @ + 1],
             << >>, t)

StatusLoop(t) ==
    FoldLeft(LAMBDA out, item :
                LET i == SelectInSeq(out, LAMBDA first : ShowAndStatus(first) = ShowAndStatus(item))
                IN IF i = 0 THEN Append(out, item) ELSE [out EXCEPT ![i].count = @ + 1],
             << >>, t)

\* group_items by show, item by item.
LEMMA ShowLoopRun ==
    ASSUME NEW t \in Seq(ItemSet)
    PROVE  \E h : /\ h \in [0..Len(t) -> Seq(ItemSet)]
                  /\ h[0] = << >>
                  /\ \A k \in 1..Len(t) : h[k] = CountingShow(h[k - 1], t[k])
                  /\ h[Len(t)] = ShowLoop(t)
<1> DEFINE n == Len(t)
           V == Seq(ItemSet)
           F == [k \in 1..n |-> [u \in V |-> CountingShow(u, t[k])]]
           Body(f, S) == IF S = {} THEN << >> ELSE CountingShow(f[S \ {Max(S)}], t[Max(S)])
           iter == CHOOSE f : f = [S \in SUBSET (1..n) |-> Body(f, S)]
<1>1. n \in Nat /\ << >> \in V /\ DOMAIN t = 1..n
    OBVIOUS
<1>2. ShowLoop(t) = iter[1..n]
    BY <1>1 DEF ShowLoop, FoldLeft, MapThenFoldSet, CountingShow
<1>3. IsLoop(F, n, V)
    <2>1. \A k \in 1..n, u \in V : CountingShow(u, t[k]) \in V
        BY <1>1, SeqElements, CountingShowIs
    <2> HIDE DEF n, V
    <2> QED
        BY <2>1 DEF IsLoop
<1>4. ASSUME NEW f, NEW S \in SUBSET (1..n), S # {}, f[S \ {Max(S)}] \in V
      PROVE  Body(f, S) = F[Max(S)][f[S \ {Max(S)}]]
    <2>1. Max(S) \in 1..n
        BY <1>1, <1>4, MaxIsIn
    <2> HIDE DEF n, V
    <2>2. F[Max(S)][f[S \ {Max(S)}]] = CountingShow(f[S \ {Max(S)}], t[Max(S)])
        BY <1>4, <2>1
    <2> QED
        BY <1>4, <2>2
<1> HIDE DEF F, n, V
<1>5. PICK g : IsFold(g, F, n, V, << >>)
    <2> HIDE DEF iter, Body
    <2> QED
        BY <1>1, <1>3, FoldExists
<1>6. g = [S \in SUBSET (1..n) |-> Body(g, S)]
    <2>1. ASSUME NEW S \in SUBSET (1..n)
          PROVE  g[S] = Body(g, S)
        <3>1. CASE S = {}
            BY <1>5, <3>1 DEF IsFold
        <3>2. CASE S # {}
            <4> HIDE DEF Body
            <4> QED
                BY <1>4, <1>5, <3>2 DEF IsFold
        <3> QED
            BY <3>1, <3>2
    <2> HIDE DEF Body
    <2>2. DOMAIN g = SUBSET (1..n) /\ g = [S \in DOMAIN g |-> g[S]]
        BY <1>5 DEF IsFold
    <2> QED
        BY <2>1, <2>2
<1>7. iter = [S \in SUBSET (1..n) |-> Body(iter, S)]
    <2> HIDE DEF Body
    <2> QED
        BY <1>6
<1> HIDE DEF iter
<1>8. Folds(iter, F, n, V, << >>)
    <2>1. \A S \in SUBSET (1..n) : iter[S] = Body(iter, S)
        <3> HIDE DEF Body
        <3> QED
            BY <1>7
    <2>2. \A S \in SUBSET (1..n) : S = {} => iter[S] = << >>
        BY <2>1
    <2> HIDE DEF Body
    <2> QED
        BY <1>4, <2>1, <2>2 DEF Folds
<1>9. PICK h : IsRun(h, F, n, V, << >>) /\ h[n] = iter[1..n]
    <2> HIDE DEF Body
    <2> QED
        BY <1>1, <1>3, <1>8, FoldSteps
<1>10. \A k \in 1..n : h[k] = CountingShow(h[k - 1], t[k])
    <2>1. \A k \in 1..n : k - 1 \in 0..n
        BY <1>1
    <2>2. \A k \in 1..n, u \in V : F[k][u] = CountingShow(u, t[k])
        BY DEF F
    <2> QED
        BY <1>9, <2>1, <2>2 DEF IsRun
<1> QED
    BY <1>2, <1>9, <1>10 DEF IsRun, V, n

\* group_items by show and status, item by item.
LEMMA StatusLoopRun ==
    ASSUME NEW t \in Seq(ItemSet)
    PROVE  \E h : /\ h \in [0..Len(t) -> Seq(ItemSet)]
                  /\ h[0] = << >>
                  /\ \A k \in 1..Len(t) : h[k] = CountingStatus(h[k - 1], t[k])
                  /\ h[Len(t)] = StatusLoop(t)
<1> DEFINE n == Len(t)
           V == Seq(ItemSet)
           F == [k \in 1..n |-> [u \in V |-> CountingStatus(u, t[k])]]
           Body(f, S) == IF S = {} THEN << >> ELSE CountingStatus(f[S \ {Max(S)}], t[Max(S)])
           iter == CHOOSE f : f = [S \in SUBSET (1..n) |-> Body(f, S)]
<1>1. n \in Nat /\ << >> \in V /\ DOMAIN t = 1..n
    OBVIOUS
<1>2. StatusLoop(t) = iter[1..n]
    BY <1>1 DEF StatusLoop, FoldLeft, MapThenFoldSet, CountingStatus
<1>3. IsLoop(F, n, V)
    <2>1. \A k \in 1..n, u \in V : CountingStatus(u, t[k]) \in V
        BY <1>1, SeqElements, CountingStatusIs
    <2> HIDE DEF n, V
    <2> QED
        BY <2>1 DEF IsLoop
<1>4. ASSUME NEW f, NEW S \in SUBSET (1..n), S # {}, f[S \ {Max(S)}] \in V
      PROVE  Body(f, S) = F[Max(S)][f[S \ {Max(S)}]]
    <2>1. Max(S) \in 1..n
        BY <1>1, <1>4, MaxIsIn
    <2> HIDE DEF n, V
    <2>2. F[Max(S)][f[S \ {Max(S)}]] = CountingStatus(f[S \ {Max(S)}], t[Max(S)])
        BY <1>4, <2>1
    <2> QED
        BY <1>4, <2>2
<1> HIDE DEF F, n, V
<1>5. PICK g : IsFold(g, F, n, V, << >>)
    <2> HIDE DEF iter, Body
    <2> QED
        BY <1>1, <1>3, FoldExists
<1>6. g = [S \in SUBSET (1..n) |-> Body(g, S)]
    <2>1. ASSUME NEW S \in SUBSET (1..n)
          PROVE  g[S] = Body(g, S)
        <3>1. CASE S = {}
            BY <1>5, <3>1 DEF IsFold
        <3>2. CASE S # {}
            <4> HIDE DEF Body
            <4> QED
                BY <1>4, <1>5, <3>2 DEF IsFold
        <3> QED
            BY <3>1, <3>2
    <2> HIDE DEF Body
    <2>2. DOMAIN g = SUBSET (1..n) /\ g = [S \in DOMAIN g |-> g[S]]
        BY <1>5 DEF IsFold
    <2> QED
        BY <2>1, <2>2
<1>7. iter = [S \in SUBSET (1..n) |-> Body(iter, S)]
    <2> HIDE DEF Body
    <2> QED
        BY <1>6
<1> HIDE DEF iter
<1>8. Folds(iter, F, n, V, << >>)
    <2>1. \A S \in SUBSET (1..n) : iter[S] = Body(iter, S)
        <3> HIDE DEF Body
        <3> QED
            BY <1>7
    <2>2. \A S \in SUBSET (1..n) : S = {} => iter[S] = << >>
        BY <2>1
    <2> HIDE DEF Body
    <2> QED
        BY <1>4, <2>1, <2>2 DEF Folds
<1>9. PICK h : IsRun(h, F, n, V, << >>) /\ h[n] = iter[1..n]
    <2> HIDE DEF Body
    <2> QED
        BY <1>1, <1>3, <1>8, FoldSteps
<1>10. \A k \in 1..n : h[k] = CountingStatus(h[k - 1], t[k])
    <2>1. \A k \in 1..n : k - 1 \in 0..n
        BY <1>1
    <2>2. \A k \in 1..n, u \in V : F[k][u] = CountingStatus(u, t[k])
        BY DEF F
    <2> QED
        BY <1>9, <2>1, <2>2 DEF IsRun
<1> QED
    BY <1>2, <1>9, <1>10 DEF IsRun, V, n

-----------------------------------------------------------------------------
(* Rows that group items.                                                  *)

\* A one-to-one correspondence.
Onto(at, S, K) ==
    /\ at \in [S -> K]
    /\ \A k, l \in S : at[k] = at[l] => k = l
    /\ \A i \in K : \E k \in S : at[k] = i

\* The row v stands for the item x and maybe for more.
Stands(v, x) == v = [x EXCEPT !.count = v.count]

\* The items that the row v stands for.
OfTag(v, items, K, tag) == {i \in K : tag[items[i]] = tag[v]}

\* There is one row for each tag among the items at the places in K; it is the one of
\* them that starts first, with their number.
GroupsOf(rows, items, K, tag) ==
    /\ rows \in Seq(ItemSet)
    /\ \A k, l \in DOMAIN rows : tag[rows[k]] = tag[rows[l]] => k = l
    /\ \A k \in DOMAIN rows : \E i \in K : Stands(rows[k], items[i])
    /\ \A k \in DOMAIN rows : rows[k].count = Cardinality(OfTag(rows[k], items, K, tag))
    /\ \A i \in K : \E k \in DOMAIN rows :
            /\ tag[rows[k]] = tag[items[i]]
            /\ StartOrFirst(rows[k]) <= StartOrFirst(items[i])

\* Of a correspondence, parts that correspond have the same size.
LEMMA CountOnto ==
    ASSUME NEW S, NEW K, NEW at, Onto(at, S, K), NEW C \in SUBSET S, NEW D \in SUBSET K, IsFiniteSet(S),
           \A j \in S : j \in C <=> at[j] \in D
    PROVE  Cardinality(C) = Cardinality(D) /\ IsFiniteSet(D)
<1> DEFINE f == [j \in C |-> at[j]]
<1>1. IsFiniteSet(C)
    BY FS_Subset
<1>2. f \in [C -> D] /\ (\A j, k \in C : f[j] = f[k] => j = k) /\ \A i \in D : \E j \in C : f[j] = i
    BY DEF Onto
<1> HIDE DEF f
<1>3. f \in Bijection(C, D)
    BY <1>2 DEF Bijection, Injection, Surjection, IsInjective
<1>4. ExistsBijection(C, D)
    BY <1>3 DEF ExistsBijection
<1> QED
    BY <1>1, <1>4, FS_Bijection

\* A row has the tag and the start of an item it stands for.
LEMMA StandsTag ==
    ASSUME NEW v \in ItemSet, NEW x \in ItemSet, Stands(v, x), NEW tag, IsGroupKey(tag)
    PROVE  tag[v] = tag[x] /\ StartOrFirst(v) = StartOrFirst(x)
<1>1. v.count \in Nat
    BY DEF ItemSet
<1>2. tag[[x EXCEPT !.count = v.count]] = tag[x]
    BY <1>1 DEF IsGroupKey
<1>3. v.start = x.start
    BY DEF Stands, ItemSet
<1> QED
    BY <1>2, <1>3 DEF Stands, StartOrFirst

\* The same items elsewhere: sub[k] is at place at[k].
LEMMA MapGroups ==
    ASSUME NEW sub, IsFiniteSet(DOMAIN sub), NEW items, NEW K, NEW at, Onto(at, DOMAIN sub, K),
           \A k \in DOMAIN sub : sub[k] = items[at[k]],
           NEW rows, NEW tag, GroupsOf(rows, sub, DOMAIN sub, tag)
    PROVE  GroupsOf(rows, items, K, tag)
<1>1. \A k \in DOMAIN rows : \E i \in K : Stands(rows[k], items[i])
    BY DEF GroupsOf, Onto
<1>2. ASSUME NEW k \in DOMAIN rows
      PROVE  rows[k].count = Cardinality(OfTag(rows[k], items, K, tag))
    <2> DEFINE C == OfTag(rows[k], sub, DOMAIN sub, tag)
               D == OfTag(rows[k], items, K, tag)
    <2>1. C \in SUBSET DOMAIN sub /\ D \in SUBSET K
        BY DEF OfTag
    <2>2. \A j \in DOMAIN sub : j \in C <=> at[j] \in D
        BY DEF OfTag, Onto
    <2>3. rows[k].count = Cardinality(C)
        BY DEF GroupsOf
    <2> HIDE DEF C, D
    <2>4. Cardinality(C) = Cardinality(D)
        BY <2>1, <2>2, CountOnto
    <2> QED
        BY <2>3, <2>4 DEF D
<1>3. ASSUME NEW i \in K
      PROVE  \E k \in DOMAIN rows : tag[rows[k]] = tag[items[i]] /\ StartOrFirst(rows[k]) <= StartOrFirst(items[i])
    <2>1. PICK j \in DOMAIN sub : at[j] = i
        BY DEF Onto
    <2>2. sub[j] = items[i]
        BY <2>1
    <2> QED
        BY <2>2 DEF GroupsOf
<1> QED
    BY <1>1, <1>2, <1>3 DEF GroupsOf

\* The items that the rows at the places in I stand for.
Kept(items, K, rows, I, tag) == {i \in K : \E k \in I : tag[rows[k]] = tag[items[i]]}

\* The rows at the places in I, listed elsewhere: new[k] was at place at[k].
LEMMA RowsPicked ==
    ASSUME NEW items \in Seq(ItemSet), NEW K \in SUBSET DOMAIN items, NEW rows, NEW tag, IsGroupKey(tag),
           GroupsOf(rows, items, K, tag),
           NEW new \in Seq(ItemSet), NEW I \in SUBSET DOMAIN rows, NEW at, Onto(at, DOMAIN new, I),
           \A k \in DOMAIN new : new[k] = rows[at[k]]
    PROVE  GroupsOf(new, items, Kept(items, K, rows, I, tag), tag)
<1> DEFINE L == Kept(items, K, rows, I, tag)
<1>l. \A i : i \in L <=> i \in K /\ \E k \in I : tag[rows[k]] = tag[items[i]]
    BY DEF Kept
<1> HIDE DEF L
<1>0. /\ rows \in Seq(ItemSet)
      /\ \A k, l \in DOMAIN rows : tag[rows[k]] = tag[rows[l]] => k = l
      /\ \A k \in DOMAIN rows : \E i \in K : Stands(rows[k], items[i])
      /\ \A k \in DOMAIN rows : rows[k].count = Cardinality(OfTag(rows[k], items, K, tag))
      /\ \A i \in K : \E k \in DOMAIN rows :
            /\ tag[rows[k]] = tag[items[i]]
            /\ StartOrFirst(rows[k]) <= StartOrFirst(items[i])
    BY DEF GroupsOf
<1>1. \A k \in DOMAIN new : at[k] \in I /\ at[k] \in DOMAIN rows /\ new[k] = rows[at[k]]
    BY DEF Onto
<1>2. \A k, l \in DOMAIN new : tag[new[k]] = tag[new[l]] => k = l
    BY SMTT(30), <1>0, <1>1 DEF Onto
<1>3. ASSUME NEW k \in DOMAIN new
      PROVE  \E i \in L : Stands(new[k], items[i])
    <2>1. PICK i \in K : Stands(rows[at[k]], items[i])
        BY <1>0, <1>1
    <2>2. rows[at[k]] \in ItemSet /\ items[i] \in ItemSet
        <3>1. at[k] \in DOMAIN rows /\ i \in DOMAIN items
            BY <1>1
        <3> QED
            BY <1>0, <3>1, SeqElements
    <2>3. tag[rows[at[k]]] = tag[items[i]]
        BY <2>1, <2>2, StandsTag
    <2> QED
        BY <1>1, <1>l, <2>1, <2>3
<1>4. ASSUME NEW k \in DOMAIN new
      PROVE  new[k].count = Cardinality(OfTag(new[k], items, L, tag))
    <2>1. OfTag(new[k], items, L, tag) = OfTag(rows[at[k]], items, K, tag)
        BY <1>1, <1>l DEF OfTag
    <2> QED
        BY <1>0, <1>1, <2>1
<1>5. ASSUME NEW i \in L
      PROVE  \E k \in DOMAIN new : tag[new[k]] = tag[items[i]] /\ StartOrFirst(new[k]) <= StartOrFirst(items[i])
    <2>1. PICK m \in I : tag[rows[m]] = tag[items[i]]
        BY <1>l
    <2>2. PICK l \in DOMAIN rows : tag[rows[l]] = tag[items[i]] /\ StartOrFirst(rows[l]) <= StartOrFirst(items[i])
        BY <1>0, <1>l
    <2>0. m \in DOMAIN rows /\ tag[rows[m]] = tag[rows[l]]
        BY <2>1, <2>2
    <2>3. m = l
        BY <1>0, <2>0
    <2>4. PICK k \in DOMAIN new : at[k] = m
        BY DEF Onto
    <2> QED
        BY <1>1, <2>2, <2>3, <2>4
<1> QED
    BY <1>2, <1>3, <1>4, <1>5 DEF GroupsOf, L

\* What is where in a concatenation.
LEMMA Concatenated ==
    ASSUME NEW V, NEW a \in Seq(V), NEW b \in Seq(V)
    PROVE  /\ \A k \in DOMAIN a : k \in DOMAIN (a \o b) /\ (a \o b)[k] = a[k]
           /\ \A k \in DOMAIN b : k + Len(a) \in DOMAIN (a \o b) /\ (a \o b)[k + Len(a)] = b[k]
           /\ \A k \in DOMAIN (a \o b) :
                k \in DOMAIN a \/ (k - Len(a) \in DOMAIN b /\ (a \o b)[k] = b[k - Len(a)])
<1> DEFINE c == a \o b
           m == Len(a)
<1>1. /\ m \in Nat /\ DOMAIN a = 1..m /\ DOMAIN b = 1..Len(b) /\ Len(b) \in Nat
      /\ DOMAIN c = 1..(m + Len(b))
      /\ \A k \in 1..(m + Len(b)) : c[k] = IF k <= m THEN a[k] ELSE b[k - m]
    OBVIOUS
<1> HIDE DEF c, m
<1>2. ASSUME NEW k \in DOMAIN a
      PROVE  k \in DOMAIN c /\ c[k] = a[k]
    <2>1. k \in 1..(m + Len(b)) /\ k <= m
        BY <1>1
    <2> QED
        BY <1>1, <2>1
<1>3. ASSUME NEW k \in DOMAIN b
      PROVE  k + m \in DOMAIN c /\ c[k + m] = b[k]
    <2>1. k + m \in 1..(m + Len(b)) /\ ~(k + m <= m) /\ (k + m) - m = k
        BY <1>1
    <2> QED
        BY <1>1, <2>1
<1>4. ASSUME NEW k \in DOMAIN c, k \notin DOMAIN a
      PROVE  k - m \in DOMAIN b /\ c[k] = b[k - m]
    <2>1. k \in 1..(m + Len(b)) /\ ~(k <= m) /\ k - m \in 1..Len(b)
        BY <1>1, <1>4
    <2> QED
        BY <1>1, <2>1
<1> QED
    BY <1>2, <1>3, <1>4 DEF c, m

\* Rows of items that have no tag in common.
LEMMA JoinGroups ==
    ASSUME NEW items \in Seq(ItemSet), NEW K \in SUBSET DOMAIN items, NEW L \in SUBSET DOMAIN items,
           NEW tag, IsGroupKey(tag),
           NEW a, GroupsOf(a, items, K, tag), NEW b, GroupsOf(b, items, L, tag),
           \A i \in K, j \in L : tag[items[i]] # tag[items[j]]
    PROVE  GroupsOf(a \o b, items, K \cup L, tag)
<1> DEFINE c == a \o b
           m == Len(a)
<1>a. /\ a \in Seq(ItemSet)
      /\ \A k, l \in DOMAIN a : tag[a[k]] = tag[a[l]] => k = l
      /\ \A k \in DOMAIN a : \E i \in K : Stands(a[k], items[i])
      /\ \A k \in DOMAIN a : a[k].count = Cardinality(OfTag(a[k], items, K, tag))
      /\ \A i \in K : \E k \in DOMAIN a :
            tag[a[k]] = tag[items[i]] /\ StartOrFirst(a[k]) <= StartOrFirst(items[i])
    BY DEF GroupsOf
<1>b. /\ b \in Seq(ItemSet)
      /\ \A k, l \in DOMAIN b : tag[b[k]] = tag[b[l]] => k = l
      /\ \A k \in DOMAIN b : \E i \in L : Stands(b[k], items[i])
      /\ \A k \in DOMAIN b : b[k].count = Cardinality(OfTag(b[k], items, L, tag))
      /\ \A i \in L : \E k \in DOMAIN b :
            tag[b[k]] = tag[items[i]] /\ StartOrFirst(b[k]) <= StartOrFirst(items[i])
    BY DEF GroupsOf
<1>1. c \in Seq(ItemSet) /\ m \in Nat /\ DOMAIN a = 1..m /\ DOMAIN b = 1..Len(b) /\ Len(b) \in Nat
      /\ DOMAIN c = 1..(m + Len(b))
    BY <1>a, <1>b
<1>2. /\ \A k \in DOMAIN a : k \in DOMAIN c /\ c[k] = a[k]
      /\ \A k \in DOMAIN b : k + m \in DOMAIN c /\ c[k + m] = b[k]
      /\ \A k \in DOMAIN c : k \in DOMAIN a \/ (k - m \in DOMAIN b /\ c[k] = b[k - m])
    <2>1. a \in Seq(ItemSet) /\ b \in Seq(ItemSet)
        BY <1>a, <1>b
    <2> QED
        BY ONLY <2>1, Concatenated
<1> HIDE DEF c, m
<1>3. ASSUME NEW k \in DOMAIN a
      PROVE  \E i \in K : tag[a[k]] = tag[items[i]] /\ Stands(a[k], items[i])
    <2>1. PICK i \in K : Stands(a[k], items[i])
        BY <1>a
    <2>2. a[k] \in ItemSet /\ items[i] \in ItemSet
        BY <1>a
    <2> QED
        BY <2>1, <2>2, StandsTag
<1>4. ASSUME NEW k \in DOMAIN b
      PROVE  \E i \in L : tag[b[k]] = tag[items[i]] /\ Stands(b[k], items[i])
    <2>1. PICK i \in L : Stands(b[k], items[i])
        BY <1>b
    <2>2. b[k] \in ItemSet /\ items[i] \in ItemSet
        BY <1>b
    <2> QED
        BY <2>1, <2>2, StandsTag
<1>5. \A k \in DOMAIN a, l \in DOMAIN b : tag[a[k]] # tag[b[l]]
    BY <1>3, <1>4
<1>6. ASSUME NEW k \in DOMAIN c, NEW l \in DOMAIN c, tag[c[k]] = tag[c[l]]
      PROVE  k = l
    <2>1. CASE k \in DOMAIN a /\ l \in DOMAIN a
        BY <1>a, <1>2, <1>6, <2>1
    <2>2. CASE k \in DOMAIN a /\ l \notin DOMAIN a
        BY <1>2, <1>5, <1>6, <2>2
    <2>3. CASE k \notin DOMAIN a /\ l \in DOMAIN a
        BY <1>2, <1>5, <1>6, <2>3
    <2>4. CASE k \notin DOMAIN a /\ l \notin DOMAIN a
        <3>1. k - m \in DOMAIN b /\ l - m \in DOMAIN b /\ tag[b[k - m]] = tag[b[l - m]]
            BY <1>2, <1>6, <2>4
        <3>2. k - m = l - m
            BY <1>b, <3>1
        <3> QED
            BY <1>1, <3>2
    <2> QED
        BY <2>1, <2>2, <2>3, <2>4
<1>7. \A k \in DOMAIN c : \E i \in K \cup L : Stands(c[k], items[i])
    BY <1>2, <1>3, <1>4
<1>8. ASSUME NEW k \in DOMAIN c
      PROVE  c[k].count = Cardinality(OfTag(c[k], items, K \cup L, tag))
    <2>1. CASE k \in DOMAIN a
        <3>1. OfTag(a[k], items, K \cup L, tag) = OfTag(a[k], items, K, tag)
            BY <1>3, <2>1 DEF OfTag
        <3> QED
            BY <1>a, <1>2, <2>1, <3>1
    <2>2. CASE k \notin DOMAIN a
        <3>1. k - m \in DOMAIN b /\ c[k] = b[k - m]
            BY <1>2, <2>2
        <3>2. OfTag(b[k - m], items, K \cup L, tag) = OfTag(b[k - m], items, L, tag)
            BY <1>4, <3>1 DEF OfTag
        <3> QED
            BY <1>b, <3>1, <3>2
    <2> QED
        BY <2>1, <2>2
<1>9. ASSUME NEW i \in K \cup L
      PROVE  \E k \in DOMAIN c : tag[c[k]] = tag[items[i]] /\ StartOrFirst(c[k]) <= StartOrFirst(items[i])
    <2>1. CASE i \in K
        BY <1>a, <1>2, <2>1
    <2>2. CASE i \in L
        BY ONLY <1>b, <1>2, <2>2
    <2> QED
        BY <2>1, <2>2
<1>10. GroupsOf(c, items, K \cup L, tag)
    BY <1>1, <1>6, <1>7, <1>8, <1>9 DEF GroupsOf
<1> QED
    BY <1>10 DEF c

\* Another tag that tells the same items apart.
LEMMA Retag ==
    ASSUME NEW items \in Seq(ItemSet), NEW K \in SUBSET DOMAIN items, NEW rows,
           NEW key, IsGroupKey(key), NEW tag, IsGroupKey(tag), GroupsOf(rows, items, K, key),
           \A i, j \in K : key[items[i]] = key[items[j]] <=> tag[items[i]] = tag[items[j]]
    PROVE  GroupsOf(rows, items, K, tag)
<1>0. /\ rows \in Seq(ItemSet)
      /\ \A k, l \in DOMAIN rows : key[rows[k]] = key[rows[l]] => k = l
      /\ \A k \in DOMAIN rows : \E i \in K : Stands(rows[k], items[i])
      /\ \A k \in DOMAIN rows : rows[k].count = Cardinality(OfTag(rows[k], items, K, key))
      /\ \A i \in K : \E k \in DOMAIN rows :
            /\ key[rows[k]] = key[items[i]]
            /\ StartOrFirst(rows[k]) <= StartOrFirst(items[i])
    BY DEF GroupsOf
<1>1. ASSUME NEW k \in DOMAIN rows
      PROVE  \E i \in K : tag[rows[k]] = tag[items[i]] /\ key[rows[k]] = key[items[i]]
    <2>1. PICK i \in K : Stands(rows[k], items[i])
        BY <1>0
    <2>2. rows[k] \in ItemSet /\ items[i] \in ItemSet
        BY <1>0
    <2> QED
        BY <2>1, <2>2, StandsTag
<1>2. \A k \in DOMAIN rows, j \in K : key[rows[k]] = key[items[j]] <=> tag[rows[k]] = tag[items[j]]
    BY <1>1
<1>3. \A k, l \in DOMAIN rows : tag[rows[k]] = tag[rows[l]] => k = l
    BY <1>0, <1>1, <1>2
<1>4. \A k \in DOMAIN rows : OfTag(rows[k], items, K, key) = OfTag(rows[k], items, K, tag)
    BY <1>2 DEF OfTag
<1> QED
    BY <1>0, <1>2, <1>3, <1>4 DEF GroupsOf

\* Items that have all different tags, each in a row of its own.
LEMMA Singles ==
    ASSUME NEW items \in Seq(ItemSet), NEW tag,
           \A i \in DOMAIN items : items[i].count = 1,
           \A i, j \in DOMAIN items : tag[items[i]] = tag[items[j]] => i = j
    PROVE  GroupsOf(items, items, DOMAIN items, tag)
<1>1. ASSUME NEW k \in DOMAIN items
      PROVE  /\ Stands(items[k], items[k])
             /\ items[k].count = Cardinality(OfTag(items[k], items, DOMAIN items, tag))
             /\ StartOrFirst(items[k]) <= StartOrFirst(items[k])
    <2>1. items[k] \in ItemSet
        OBVIOUS
    <2>2. Stands(items[k], items[k])
        BY <2>1 DEF Stands, ItemSet
    <2>3. OfTag(items[k], items, DOMAIN items, tag) = {k}
        BY DEF OfTag
    <2>4. StartOrFirst(items[k]) \in Int
        BY <2>1, ViewsAssumption DEF ItemSet, StartOrFirst
    <2>5. StartOrFirst(items[k]) <= StartOrFirst(items[k])
        BY <2>4
    <2> QED
        BY <2>2, <2>3, <2>5, FS_Singleton
<1> QED
    BY <1>1 DEF GroupsOf

\* The counts of the rows add up to the number of the items.
LEMMA CountedIs ==
    ASSUME NEW items \in Seq(ItemSet), NEW K \in SUBSET DOMAIN items, NEW tag, IsGroupKey(tag),
           NEW rows, GroupsOf(rows, items, K, tag)
    PROVE  Counted(rows) = Cardinality(K)
<1> DEFINE fib(k) == OfTag(rows[k], items, K, tag)
           B == [k \in DOMAIN rows |-> CHOOSE f : f \in Bijection(1..rows[k].count, fib(k))]
           R(i) == CHOOSE k \in DOMAIN rows : tag[rows[k]] = tag[items[i]]
           N(i) == CHOOSE q \in 1..rows[R(i)].count : B[R(i)][q] = i
           P == UNION {{r} \X (1..rows[r].count) : r \in DOMAIN rows}
           g == [i \in K |-> <<R(i), N(i)>>]
<1>0. /\ rows \in Seq(ItemSet)
      /\ \A k, l \in DOMAIN rows : tag[rows[k]] = tag[rows[l]] => k = l
      /\ \A k \in DOMAIN rows : rows[k].count = Cardinality(fib(k))
      /\ \A i \in K : \E k \in DOMAIN rows : tag[rows[k]] = tag[items[i]]
    BY DEF GroupsOf
<1>1. IsFiniteSet(K)
    <2>1. DOMAIN items = 1..Len(items) /\ Len(items) \in Nat
        OBVIOUS
    <2>2. IsFiniteSet(DOMAIN items)
        BY <2>1, FS_Interval
    <2> QED
        BY <2>2, FS_Subset
<1>2. ASSUME NEW k \in DOMAIN rows
      PROVE  B[k] \in Bijection(1..rows[k].count, fib(k))
    <2>1. fib(k) \in SUBSET K
        BY DEF OfTag
    <2> HIDE DEF fib
    <2>2. ExistsBijection(1..Cardinality(fib(k)), fib(k))
        BY <1>1, <2>1, FS_Subset, FS_CardinalityType
    <2>3. \E f : f \in Bijection(1..rows[k].count, fib(k))
        BY <1>0, <2>2 DEF ExistsBijection
    <2>4. B[k] = CHOOSE f : f \in Bijection(1..rows[k].count, fib(k))
        OBVIOUS
    <2> QED
        BY <2>3, <2>4
<1> HIDE DEF B
<1>3. ASSUME NEW k \in DOMAIN rows
      PROVE  /\ \A q \in 1..rows[k].count : B[k][q] \in K /\ tag[items[B[k][q]]] = tag[rows[k]]
             /\ \A p, q \in 1..rows[k].count : B[k][p] = B[k][q] => p = q
             /\ \A i \in K : tag[items[i]] = tag[rows[k]] => \E q \in 1..rows[k].count : B[k][q] = i
    <2>0. B[k] \in Bijection(1..rows[k].count, fib(k))
        BY <1>2
    <2>2. \A i : i \in fib(k) <=> i \in K /\ tag[items[i]] = tag[rows[k]]
        BY DEF OfTag
    <2> HIDE DEF fib
    <2>1. /\ B[k] \in [1..rows[k].count -> fib(k)]
          /\ \A p, q \in 1..rows[k].count : B[k][p] = B[k][q] => p = q
          /\ \A i \in fib(k) : \E q \in 1..rows[k].count : B[k][q] = i
        BY ONLY <2>0 DEF Bijection, Injection, Surjection, IsInjective
    <2> QED
        BY <2>1, <2>2
<1>4. ASSUME NEW i \in K
      PROVE  R(i) \in DOMAIN rows /\ tag[rows[R(i)]] = tag[items[i]]
    BY <1>0
<1> HIDE DEF R
<1>5. ASSUME NEW i \in K
      PROVE  N(i) \in 1..rows[R(i)].count /\ B[R(i)][N(i)] = i
    BY <1>3, <1>4
<1> HIDE DEF N
<1>6. \A i \in K : <<R(i), N(i)>> \in P
    BY <1>4, <1>5
<1>7. \A i, j \in K : g[i] = g[j] => i = j
    BY <1>5
<1>8. ASSUME NEW p \in P
      PROVE  \E i \in K : g[i] = p
    <2>0. PICK r \in DOMAIN rows : p \in {r} \X (1..rows[r].count)
        OBVIOUS
    <2>1. PICK q \in 1..rows[r].count : p = <<r, q>>
        BY <2>0
    <2> DEFINE i == B[r][q]
    <2>2. i \in K /\ tag[items[i]] = tag[rows[r]]
        BY <1>3
    <2> HIDE DEF i
    <2>3. R(i) = r
        BY <1>0, <1>4, <2>2
    <2>4. N(i) \in 1..rows[r].count /\ B[r][N(i)] = B[r][q]
        BY <1>5, <2>2, <2>3 DEF i
    <2>5. N(i) = q
        BY <1>3, <2>4
    <2> QED
        BY <2>1, <2>2, <2>3, <2>5
<1>9. g \in [K -> P]
    BY <1>6
<1> HIDE DEF g, P
<1>10. g \in Bijection(K, P)
    BY <1>7, <1>8, <1>9 DEF Bijection, Injection, Surjection, IsInjective
<1>11. Cardinality(P) = Cardinality(K)
    <2>1. ExistsBijection(K, P)
        BY <1>10 DEF ExistsBijection
    <2> QED
        BY <1>1, <2>1, FS_Bijection
<1> QED
    BY <1>11 DEF Counted, P

\* What an item is sorted by.
LEMMA StartIs ==
    ASSUME NEW v \in ItemSet
    PROVE  StartOrFirst(v) \in Int
  BY ViewsAssumption DEF ItemSet, StartOrFirst

\* For each row of a, b has one with the same tag, count and start.
SameTold(a, b, items, K, tag) ==
    \A k \in DOMAIN a : \E l \in DOMAIN b, i \in K, j \in K :
        /\ Stands(a[k], items[i]) /\ Stands(b[l], items[j]) /\ tag[items[i]] = tag[items[j]]
        /\ a[k].count = b[l].count /\ StartOrFirst(a[k]) = StartOrFirst(b[l])

\* Two lists of rows for the same items tell the same.
LEMMA SameGroups ==
    ASSUME NEW items \in Seq(ItemSet), NEW K \in SUBSET DOMAIN items, NEW tag, IsGroupKey(tag),
           NEW a, GroupsOf(a, items, K, tag), NEW b, GroupsOf(b, items, K, tag)
    PROVE  SameTold(a, b, items, K, tag)
<1> SUFFICES ASSUME NEW k \in DOMAIN a
             PROVE  \E l \in DOMAIN b, i \in K, j \in K :
                        /\ Stands(a[k], items[i]) /\ Stands(b[l], items[j]) /\ tag[items[i]] = tag[items[j]]
                        /\ a[k].count = b[l].count /\ StartOrFirst(a[k]) = StartOrFirst(b[l])
    BY DEF SameTold
<1>a. /\ a \in Seq(ItemSet)
      /\ \A m, l \in DOMAIN a : tag[a[m]] = tag[a[l]] => m = l
      /\ \A m \in DOMAIN a : \E i \in K : Stands(a[m], items[i])
      /\ \A m \in DOMAIN a : a[m].count = Cardinality(OfTag(a[m], items, K, tag))
      /\ \A i \in K : \E m \in DOMAIN a :
            tag[a[m]] = tag[items[i]] /\ StartOrFirst(a[m]) <= StartOrFirst(items[i])
    BY DEF GroupsOf
<1>b. /\ b \in Seq(ItemSet)
      /\ \A m \in DOMAIN b : \E i \in K : Stands(b[m], items[i])
      /\ \A m \in DOMAIN b : b[m].count = Cardinality(OfTag(b[m], items, K, tag))
      /\ \A i \in K : \E m \in DOMAIN b :
            tag[b[m]] = tag[items[i]] /\ StartOrFirst(b[m]) <= StartOrFirst(items[i])
    BY DEF GroupsOf
<1>1. PICK i \in K : Stands(a[k], items[i])
    BY <1>a
<1>2. PICK l \in DOMAIN b : tag[b[l]] = tag[items[i]] /\ StartOrFirst(b[l]) <= StartOrFirst(items[i])
    BY <1>b
<1>3. PICK j \in K : Stands(b[l], items[j])
    BY <1>b
<1>4. PICK m \in DOMAIN a : tag[a[m]] = tag[items[j]] /\ StartOrFirst(a[m]) <= StartOrFirst(items[j])
    BY <1>a
<1>5. a[k] \in ItemSet /\ b[l] \in ItemSet /\ items[i] \in ItemSet /\ items[j] \in ItemSet
    <2>1. i \in DOMAIN items /\ j \in DOMAIN items
        OBVIOUS
    <2> QED
        BY <1>a, <1>b, <2>1, SeqElements
<1>6. tag[a[k]] = tag[items[i]] /\ StartOrFirst(a[k]) = StartOrFirst(items[i])
    BY <1>1, <1>5, StandsTag
<1>7. tag[b[l]] = tag[items[j]] /\ StartOrFirst(b[l]) = StartOrFirst(items[j])
    BY <1>3, <1>5, StandsTag
<1>8. m = k
    BY <1>2, <1>4, <1>6, <1>7, <1>a
<1>9. StartOrFirst(a[k]) \in Int /\ StartOrFirst(b[l]) \in Int
    BY <1>5, StartIs
<1>10. StartOrFirst(a[k]) = StartOrFirst(b[l])
    BY <1>2, <1>4, <1>6, <1>7, <1>8, <1>9
<1>11. OfTag(a[k], items, K, tag) = OfTag(b[l], items, K, tag)
    BY <1>2, <1>6 DEF OfTag
<1>12. a[k].count = b[l].count
    <2>1. a[k].count = Cardinality(OfTag(a[k], items, K, tag))
        BY <1>a
    <2>2. b[l].count = Cardinality(OfTag(b[l], items, K, tag))
        BY <1>b
    <2> QED
        BY <1>11, <2>1, <2>2
<1> QED
    BY <1>1, <1>2, <1>3, <1>6, <1>7, <1>10, <1>12

-----------------------------------------------------------------------------
(* What the loop of group_items makes of items in the order of their starts.*)

\* What the i-th item has become of the first k.
IsGroup(v, t, tag, i, k) == Stands(v, t[i]) /\ v.count = Cardinality(SameTag(t, tag, i, k))

\* One item more for a row.
LEMMA MoreIs ==
    ASSUME NEW v \in ItemSet, NEW x \in ItemSet, Stands(v, x)
    PROVE  More(v) \in ItemSet /\ Stands(More(v), x) /\ More(v).count = v.count + 1
<1>1. v.count + 1 \in Nat /\ More(v) = [v EXCEPT !.count = v.count + 1]
    BY DEF ItemSet, More
<1> DEFINE c == v.count + 1
           d == v.count
<1>2. More(v) \in ItemSet /\ More(v).count = c
    BY <1>1 DEF ItemSet
<1>3. More(v) = [x EXCEPT !.count = c]
    <2>1. v = [x EXCEPT !.count = d] /\ More(v) = [v EXCEPT !.count = c]
        BY <1>1 DEF Stands
    <2> HIDE DEF c, d
    <2> QED
        BY <2>1 DEF ItemSet
<1> HIDE DEF c
<1>4. Stands(More(v), x)
    BY <1>2, <1>3 DEF Stands
<1> QED
    BY <1>2, <1>4 DEF c

\* Each row goes on counting its items.
LEMMA GroupsBecome ==
    ASSUME NEW n \in Nat, NEW t \in Seq(ItemSet), Len(t) = n, \A k \in 1..n : t[k].count = 1,
           NEW tag, IsGroupKey(tag), NEW A, NEW good,
           A = [k \in 1..n |-> [v \in ItemSet |-> More(v)]],
           good = [k \in 0..n |-> [i \in 1..n |-> {v \in ItemSet : IsGroup(v, t, tag, i, k)}]]
    PROVE  Becomes(good, t, tag, A, n, ItemSet)
<1>1. \A k \in 1..n : t[k] \in ItemSet
    OBVIOUS
<1>2. ASSUME NEW k \in 0..n, NEW i \in 1..n, NEW v
      PROVE  v \in good[k][i] <=> v \in ItemSet /\ IsGroup(v, t, tag, i, k)
    OBVIOUS
<1>3. ASSUME NEW k \in 1..n, NEW i \in 1..n, NEW v \in good[k][i]
      PROVE  v \in ItemSet /\ tag[v] = tag[t[i]]
    <2>1. v \in ItemSet /\ IsGroup(v, t, tag, i, k)
        BY <1>2
    <2>2. Stands(v, t[i]) /\ t[i] \in ItemSet
        BY <1>1, <2>1 DEF IsGroup
    <2> QED
        BY <2>1, <2>2, StandsTag
<1>4. ASSUME NEW i \in 1..n, IsFirst(t, tag, i)
      PROVE  t[i] \in good[i][i]
    <2>1. SameTag(t, tag, i, i) = {i}
        <3>1. i \in 1..i /\ \A j \in 1..i : j = i \/ j \in 1..(i - 1)
            OBVIOUS
        <3>2. \A j \in 1..(i - 1) : tag[t[j]] # tag[t[i]]
            BY <1>4 DEF IsFirst
        <3>3. \A j \in 1..i : tag[t[j]] = tag[t[i]] <=> j = i
            BY <3>1, <3>2
        <3> QED
            BY <3>1, <3>3 DEF SameTag
    <2>2. t[i] \in ItemSet /\ t[i].count = 1 /\ Stands(t[i], t[i])
        BY <1>1 DEF Stands, ItemSet
    <2>3. Cardinality(SameTag(t, tag, i, i)) = 1
        BY <2>1, FS_Singleton
    <2>4. IsGroup(t[i], t, tag, i, i)
        BY <2>2, <2>3 DEF IsGroup
    <2> QED
        BY <1>2, <2>2, <2>4
<1>5. ASSUME NEW k \in 1..n, NEW i \in 1..n, i < k, NEW v \in good[k - 1][i]
      PROVE  IF tag[t[k]] = tag[t[i]] THEN A[k][v] \in good[k][i] ELSE v \in good[k][i]
    <2>1. k - 1 \in 0..n /\ k \in 0..n /\ k - 1 \in Nat
        OBVIOUS
    <2>2. v \in ItemSet /\ IsGroup(v, t, tag, i, k - 1)
        BY <1>2, <2>1
    <2>3. CASE tag[t[k]] # tag[t[i]]
        <3>1. SameTag(t, tag, i, k) = SameTag(t, tag, i, k - 1)
            BY <2>3 DEF SameTag
        <3>2. IsGroup(v, t, tag, i, k)
            BY <2>2, <3>1 DEF IsGroup
        <3> QED
            BY <1>2, <2>1, <2>2, <2>3, <3>2
    <2>4. CASE tag[t[k]] = tag[t[i]]
        <3> DEFINE C == SameTag(t, tag, i, k - 1)
        <3>1. SameTag(t, tag, i, k) = C \cup {k} /\ k \notin C
            BY <2>4 DEF SameTag
        <3>2. IsFiniteSet(C)
            BY <2>1, TagsFinite
        <3>3. v.count = Cardinality(C) /\ Stands(v, t[i])
            BY <2>2 DEF IsGroup
        <3> HIDE DEF C
        <3>4. Cardinality(SameTag(t, tag, i, k)) = Cardinality(C) + 1
            BY <3>1, <3>2, FS_AddElement
        <3>5. More(v) \in ItemSet /\ Stands(More(v), t[i]) /\ More(v).count = v.count + 1
            BY <1>1, <2>2, <3>3, MoreIs
        <3>6. IsGroup(More(v), t, tag, i, k)
            BY <3>3, <3>4, <3>5 DEF IsGroup
        <3>7. A[k][v] = More(v)
            BY <2>2
        <3> QED
            BY <1>2, <2>1, <2>4, <3>5, <3>6, <3>7
    <2> QED
        BY <2>3, <2>4
<1> QED
    BY <1>1, <1>3, <1>4, <1>5 DEF Becomes

\* The loop of group_items is a loop of merges.
LEMMA GroupsAbsorb ==
    ASSUME NEW n \in Nat, NEW t \in Seq(ItemSet), Len(t) = n, NEW tag, NEW A, NEW F, NEW good,
           A = [k \in 1..n |-> [v \in ItemSet |-> More(v)]],
           F = [k \in 1..n |-> [u \in Seq(ItemSet) |-> Counting(u, t[k], tag)]]
    PROVE  Absorbs(F, t, tag, A, good, n, ItemSet)
<1> SUFFICES ASSUME NEW k \in 1..n, NEW u \in Seq(ItemSet),
                    \A j \in DOMAIN u : \E i \in 1..(k - 1) : u[j] \in good[k - 1][i]
             PROVE  /\ (\A j \in DOMAIN u : tag[u[j]] # tag[t[k]]) => F[k][u] = Append(u, t[k])
                    /\ \A j \in DOMAIN u :
                         /\ tag[u[j]] = tag[t[k]]
                         /\ \A i \in DOMAIN u : tag[u[i]] = tag[t[k]] => i = j
                         => F[k][u] = [u EXCEPT ![j] = A[k][u[j]]]
    BY DEF Absorbs
<1>0. u \in Seq(ItemSet) /\ t[k] \in ItemSet
    OBVIOUS
<1>1. F[k][u] = Counting(u, t[k], tag)
    OBVIOUS
<1> DEFINE x == t[k]
<1>2a. \A j \in DOMAIN u : A[k][u[j]] = More(u[j])
    OBVIOUS
<1>2b. u \in Seq(ItemSet) /\ x \in ItemSet /\ F[k][u] = Counting(u, x, tag)
    BY <1>0, <1>1
<1> HIDE DEF x
<1>3. /\ (\A j \in DOMAIN u : tag[u[j]] # tag[x]) => Counting(u, x, tag) = Append(u, x)
      /\ \A j \in DOMAIN u :
            tag[u[j]] = tag[x] /\ (\A i \in DOMAIN u : tag[u[i]] = tag[x] => i = j)
                => Counting(u, x, tag) = [u EXCEPT ![j] = More(u[j])]
    BY ONLY <1>2b, CountingIs
<1>4. (\A j \in DOMAIN u : tag[u[j]] # tag[t[k]]) => F[k][u] = Append(u, t[k])
    BY ONLY <1>2b, <1>3 DEF x
<1>5. ASSUME NEW j \in DOMAIN u, tag[u[j]] = tag[t[k]], \A i \in DOMAIN u : tag[u[i]] = tag[t[k]] => i = j
      PROVE  F[k][u] = [u EXCEPT ![j] = A[k][u[j]]]
    <2>1. Counting(u, x, tag) = [u EXCEPT ![j] = More(u[j])]
        BY ONLY <1>3, <1>5 DEF x
    <2> QED
        BY ONLY <1>2a, <1>2b, <2>1
<1> QED
    BY <1>4, <1>5

\* h[k] is what the loop has after the first k.
CountingRun(h, t, tag, n) ==
    /\ h \in [0..n -> Seq(ItemSet)]
    /\ h[0] = << >>
    /\ \A k \in 1..n : h[k] = Counting(h[k - 1], t[k], tag)

\* The loop makes one row of the items with one key: the first, with their number.
LEMMA LoopGroups ==
    ASSUME NEW n \in Nat, NEW t \in Seq(ItemSet), Len(t) = n, \A k \in 1..n : t[k].count = 1,
           \A k, l \in 1..n : k < l => StartOrFirst(t[k]) <= StartOrFirst(t[l]),
           NEW tag, IsGroupKey(tag), NEW h, CountingRun(h, t, tag, n)
    PROVE  GroupsOf(h[n], t, 1..n, tag)
<1> DEFINE m == h[n]
           A == [k \in 1..n |-> [v \in ItemSet |-> More(v)]]
           F == [k \in 1..n |-> [u \in Seq(ItemSet) |-> Counting(u, t[k], tag)]]
           good == [k \in 0..n |-> [i \in 1..n |-> {v \in ItemSet : IsGroup(v, t, tag, i, k)}]]
<1>1. IsRun(h, F, n, Seq(ItemSet), << >>)
    <2>1. \A k \in 1..n : k - 1 \in 0..n
        OBVIOUS
    <2> QED
        BY <2>1 DEF CountingRun, IsRun
<1>2. Absorbs(F, t, tag, A, good, n, ItemSet) /\ Becomes(good, t, tag, A, n, ItemSet)
    <2> HIDE DEF F, A, good
    <2>1. A = [k \in 1..n |-> [v \in ItemSet |-> More(v)]]
        BY DEF A
    <2>2. F = [k \in 1..n |-> [u \in Seq(ItemSet) |-> Counting(u, t[k], tag)]]
        BY DEF F
    <2>3. good = [k \in 0..n |-> [i \in 1..n |-> {v \in ItemSet : IsGroup(v, t, tag, i, k)}]]
        BY DEF good
    <2> QED
        BY <2>1, <2>2, <2>3, GroupsAbsorb, GroupsBecome
<1>3. PICK at : MergedAt(m, at, good, t, tag, n)
    <2> HIDE DEF F, A, good
    <2> QED
        BY <1>1, <1>2, Merging
<1>4. \A i \in 1..n : \A v \in good[n][i] : v \in ItemSet /\ IsGroup(v, t, tag, i, n)
    OBVIOUS
<1> HIDE DEF good, A, F
<1>5. m \in Seq(ItemSet) /\ DOMAIN m \subseteq Nat /\ DOMAIN t = 1..n /\ n \in 0..n
    <2>1. m \in Seq(ItemSet)
        BY DEF CountingRun
    <2> QED
        BY <2>1
<1> HIDE DEF m
<1>t. \A k \in 1..n : t[k] \in ItemSet /\ StartOrFirst(t[k]) \in Int
    <2>1. \A k \in 1..n : t[k] \in ItemSet
        BY <1>5
    <2> QED
        BY <2>1, ViewsAssumption DEF ItemSet, StartOrFirst
<1>6. ASSUME NEW k \in DOMAIN m
      PROVE  /\ at[k] \in 1..n /\ IsFirst(t, tag, at[k]) /\ IsGroup(m[k], t, tag, at[k], n)
             /\ tag[m[k]] = tag[t[at[k]]] /\ StartOrFirst(m[k]) = StartOrFirst(t[at[k]])
    <2>1. at[k] \in 1..n /\ IsFirst(t, tag, at[k]) /\ m[k] \in good[n][at[k]]
        BY <1>3 DEF MergedAt
    <2>2. m[k] \in ItemSet /\ IsGroup(m[k], t, tag, at[k], n) /\ t[at[k]] \in ItemSet
        BY <1>4, <1>t, <2>1
    <2>3. Stands(m[k], t[at[k]])
        BY <2>2 DEF IsGroup
    <2>4. tag[m[k]] = tag[t[at[k]]] /\ StartOrFirst(m[k]) = StartOrFirst(t[at[k]])
        BY <2>2, <2>3, StandsTag
    <2> QED
        BY <2>1, <2>2, <2>4
<1>7. ASSUME NEW k \in DOMAIN m, NEW l \in DOMAIN m, tag[m[k]] = tag[m[l]]
      PROVE  k = l
    <2>1. tag[t[at[k]]] = tag[t[at[l]]]
        BY <1>6, <1>7
    <2>2. DOMAIN m \subseteq Nat /\ n \in Nat /\ k \in DOMAIN m /\ l \in DOMAIN m
        BY <1>5
    <2> QED
        BY ONLY <1>3, <2>1, <2>2, OneOfATag
<1>8. ASSUME NEW k \in DOMAIN m
      PROVE  /\ \E i \in 1..n : Stands(m[k], t[i])
             /\ m[k].count = Cardinality(OfTag(m[k], t, 1..n, tag))
    <2>1. OfTag(m[k], t, 1..n, tag) = SameTag(t, tag, at[k], n)
        BY <1>6 DEF OfTag, SameTag
    <2> QED
        BY <1>6, <2>1 DEF IsGroup
<1>9. ASSUME NEW i \in 1..n
      PROVE  \E k \in DOMAIN m : tag[m[k]] = tag[t[i]] /\ StartOrFirst(m[k]) <= StartOrFirst(t[i])
    <2>1. PICK k \in DOMAIN m : tag[t[at[k]]] = tag[t[i]]
        BY <1>3 DEF MergedAt
    <2>2. at[k] \in 1..n /\ ~(i < at[k])
        <3>1. i < at[k] => i \in 1..(at[k] - 1)
            BY <1>6
        <3> QED
            BY <1>6, <2>1, <3>1 DEF IsFirst
    <2>3. at[k] = i \/ at[k] < i
        BY <2>2
    <2>4. StartOrFirst(t[at[k]]) <= StartOrFirst(t[i])
        BY <1>t, <2>2, <2>3
    <2> QED
        BY <1>6, <2>1, <2>4
<1> QED
    BY <1>5, <1>7, <1>8, <1>9 DEF GroupsOf, m

-----------------------------------------------------------------------------
(* What group_items makes of items.                                        *)

Starts(s) == [i \in DOMAIN s |-> StartOrFirst(s[i])]

IdsOf(s) == [i \in DOMAIN s |-> s[i].id]

ByStart(s) == Ranked(s, Ahead(Starts(s), Len(s)))

ById(s) == Ranked(s, Ahead(IdsOf(s), Len(s)))

\* The sorts of group_items.
LEMMA SortsAre ==
    ASSUME NEW s \in Seq(ItemSet)
    PROVE  /\ SortedBy(s, StartOrFirst) = ByStart(s)
           /\ SortedBy(s, LAMBDA item : item.id) = ById(s)
<1>1. DOMAIN s = 1..Len(s)
    OBVIOUS
<1>2. SortedBy(s, StartOrFirst) = ByStart(s)
    <2> DEFINE rank == [i \in DOMAIN s |-> Cardinality({j \in DOMAIN s :
                            \/ StartOrFirst(s[j]) < StartOrFirst(s[i])
                            \/ (j < i /\ ~(StartOrFirst(s[i]) < StartOrFirst(s[j])))})]
    <2>1. SortedBy(s, StartOrFirst) = Ranked(s, rank)
        BY DEF SortedBy, SortBy
    <2>2. rank = Ahead(Starts(s), Len(s))
        <3>1. \A i \in DOMAIN s : Starts(s)[i] = StartOrFirst(s[i])
            BY DEF Starts
        <3>2. \A i \in DOMAIN s :
                {j \in DOMAIN s : \/ StartOrFirst(s[j]) < StartOrFirst(s[i])
                                  \/ (j < i /\ ~(StartOrFirst(s[i]) < StartOrFirst(s[j])))}
                = {j \in 1..Len(s) : \/ Starts(s)[j] < Starts(s)[i]
                                     \/ (j < i /\ ~(Starts(s)[i] < Starts(s)[j]))}
            BY <1>1, <3>1
        <3> QED
            BY <1>1, <3>2 DEF Ahead
    <2> QED
        BY <2>1, <2>2 DEF ByStart
<1>3. SortedBy(s, LAMBDA item : item.id) = ById(s)
    <2> DEFINE rank == [i \in DOMAIN s |-> Cardinality({j \in DOMAIN s :
                            \/ s[j].id < s[i].id
                            \/ (j < i /\ ~(s[i].id < s[j].id))})]
    <2>1. SortedBy(s, LAMBDA item : item.id) = Ranked(s, rank)
        BY DEF SortedBy, SortBy
    <2>2. rank = Ahead(IdsOf(s), Len(s))
        <3>1. \A i \in DOMAIN s : IdsOf(s)[i] = s[i].id
            BY DEF IdsOf
        <3>2. \A i \in DOMAIN s :
                {j \in DOMAIN s : s[j].id < s[i].id \/ (j < i /\ ~(s[i].id < s[j].id))}
                = {j \in 1..Len(s) : \/ IdsOf(s)[j] < IdsOf(s)[i]
                                     \/ (j < i /\ ~(IdsOf(s)[i] < IdsOf(s)[j]))}
            BY <1>1, <3>1
        <3> QED
            BY <1>1, <3>2 DEF Ahead
    <2> QED
        BY <2>1, <2>2 DEF ById
<1> QED
    BY <1>2, <1>3

\* at tells where the members of t were in s.
Shuffled(t, s, at) == Onto(at, DOMAIN t, DOMAIN s) /\ \A k \in DOMAIN t : t[k] = s[at[k]]

\* The rows by the ids of their items, of items by their starts.
LEMMA Arrangement ==
    ASSUME NEW s \in Seq(ItemSet)
    PROVE  /\ ByStart(s) \in Seq(ItemSet) /\ Len(ByStart(s)) = Len(s)
           /\ \A k, l \in 1..Len(s) : k < l => StartOrFirst(ByStart(s)[k]) <= StartOrFirst(ByStart(s)[l])
           /\ \E at : Shuffled(ByStart(s), s, at)
           /\ ById(s) \in Seq(ItemSet)
           /\ \E at : Shuffled(ById(s), s, at)
<1> DEFINE n == Len(s)
<1>1. n \in Nat /\ DOMAIN s = 1..n /\ \A i \in 1..n : s[i] \in ItemSet
    OBVIOUS
<1>2. \A i \in 1..n : Starts(s)[i] = StartOrFirst(s[i]) /\ Starts(s)[i] \in Int
    BY <1>1, StartIs DEF Starts
<1>3. \A i \in 1..n : IdsOf(s)[i] \in Int
    BY <1>1 DEF IdsOf, ItemSet
<1> HIDE DEF n
<1>4. ASSUME NEW t, NEW f, NEW at, ByNumber(t, s, f, at, n)
      PROVE  Shuffled(t, s, at)
    BY <1>1, <1>4 DEF ByNumber, Shuffles, Shuffled, Onto
<1>5. /\ ByStart(s) \in Seq(ItemSet) /\ Len(ByStart(s)) = n
      /\ \E at : ByNumber(ByStart(s), s, Starts(s), at, n)
    <2> DEFINE f == Starts(s)
    <2>1. \A i \in 1..n : f[i] \in Int
        BY <1>2
    <2>2. ByStart(s) = Ranked(s, Ahead(f, n))
        BY DEF ByStart, n
    <2> HIDE DEF f
    <2>3. Ranked(s, Ahead(f, n)) \in Seq(ItemSet) /\ Len(Ranked(s, Ahead(f, n))) = n
          /\ \E at : ByNumber(Ranked(s, Ahead(f, n)), s, f, at, n)
        BY <1>1, <2>1, SortedByNumber
    <2> QED
        BY <2>2, <2>3 DEF f
<1>6. /\ ById(s) \in Seq(ItemSet)
      /\ \E at : ByNumber(ById(s), s, IdsOf(s), at, n)
    <2> DEFINE f == IdsOf(s)
    <2>1. \A i \in 1..n : f[i] \in Int
        BY <1>3
    <2>2. ById(s) = Ranked(s, Ahead(f, n))
        BY DEF ById, n
    <2> HIDE DEF f
    <2>3. Ranked(s, Ahead(f, n)) \in Seq(ItemSet) /\ Len(Ranked(s, Ahead(f, n))) = n
          /\ \E at : ByNumber(Ranked(s, Ahead(f, n)), s, f, at, n)
        BY <1>1, <2>1, SortedByNumber
    <2> QED
        BY <2>2, <2>3 DEF f
<1>7. \A k, l \in 1..n : k < l => StartOrFirst(ByStart(s)[k]) <= StartOrFirst(ByStart(s)[l])
    <2>1. PICK at : ByNumber(ByStart(s), s, Starts(s), at, n)
        BY <1>5
    <2>2. \A k \in 1..n : at[k] \in 1..n /\ ByStart(s)[k] = s[at[k]]
        BY <2>1 DEF ByNumber, Shuffles
    <2>3. \A k, l \in 1..n : k < l => Starts(s)[at[k]] <= Starts(s)[at[l]]
        BY <2>1 DEF ByNumber
    <2> QED
        BY <1>2, <2>2, <2>3
<1> QED
    BY <1>4, <1>5, <1>6, <1>7 DEF n

\* Rows for items that start in the order in which they are merged.
LEMMA ArrangedGroups ==
    ASSUME NEW items \in Seq(ItemSet), \A i \in DOMAIN items : items[i].count = 1,
           NEW key, IsGroupKey(key), NEW h, CountingRun(h, ByStart(items), key, Len(items))
    PROVE  GroupsOf(ById(h[Len(items)]), items, DOMAIN items, key)
<1> DEFINE n == Len(items)
           t == ByStart(items)
           u == h[n]
           new == ById(u)
<1>1. n \in Nat /\ DOMAIN items = 1..n
    OBVIOUS
<1>2. /\ t \in Seq(ItemSet) /\ Len(t) = n
      /\ \A k, l \in 1..n : k < l => StartOrFirst(t[k]) <= StartOrFirst(t[l])
      /\ \E at : Shuffled(t, items, at)
    BY Arrangement
<1>3. PICK at : Shuffled(t, items, at)
    BY <1>2
<1>0. CountingRun(h, t, key, n)
    OBVIOUS
<1> HIDE DEF t, n
<1>4. DOMAIN t = 1..n
    BY <1>2
<1>5. \A k \in 1..n : t[k].count = 1
    <2>1. \A k \in DOMAIN t : at[k] \in DOMAIN items /\ t[k] = items[at[k]]
        BY <1>3 DEF Shuffled, Onto
    <2> QED
        BY <1>4, <2>1
<1>6. GroupsOf(u, t, 1..n, key)
    BY <1>0, <1>1, <1>2, <1>5, LoopGroups
<1> HIDE DEF u
<1>7. GroupsOf(u, items, DOMAIN items, key)
    <2>1. Onto(at, DOMAIN t, DOMAIN items) /\ \A k \in DOMAIN t : t[k] = items[at[k]]
        BY <1>3 DEF Shuffled
    <2>2. IsFiniteSet(DOMAIN t)
        BY <1>1, <1>4, FS_Interval
    <2>3. GroupsOf(u, t, DOMAIN t, key)
        BY <1>4, <1>6
    <2> QED
        BY <2>1, <2>2, <2>3, MapGroups
<1>8. u \in Seq(ItemSet) /\ \A i \in DOMAIN items : \E k \in DOMAIN u : key[u[k]] = key[items[i]]
    BY <1>7 DEF GroupsOf
<1>9. new \in Seq(ItemSet) /\ \E p : Shuffled(new, u, p)
    BY <1>8, Arrangement
<1>10. PICK p : Shuffled(new, u, p)
    BY <1>9
<1> HIDE DEF new
<1>11. Onto(p, DOMAIN new, DOMAIN u) /\ \A k \in DOMAIN new : new[k] = u[p[k]]
    BY <1>10 DEF Shuffled
<1>12. DOMAIN items = {i \in DOMAIN items : \E k \in DOMAIN u : key[u[k]] = key[items[i]]}
    BY <1>8
<1> DEFINE D == DOMAIN items
           E == DOMAIN u
<1>13. GroupsOf(new, items, D, key)
    <2>1. D \in SUBSET DOMAIN items /\ E \in SUBSET DOMAIN u
        OBVIOUS
    <2>2. D = Kept(items, D, u, E, key)
        BY <1>12 DEF Kept
    <2>3. Onto(p, DOMAIN new, E) /\ GroupsOf(u, items, D, key)
        BY <1>7, <1>11
    <2>4. items \in Seq(ItemSet) /\ IsGroupKey(key) /\ new \in Seq(ItemSet)
        BY <1>9
    <2>5. \A k \in DOMAIN new : new[k] = u[p[k]]
        BY <1>11
    <2> HIDE DEF D, E
    <2>6. GroupsOf(new, items, Kept(items, D, u, E, key), key)
        BY ONLY <2>1, <2>3, <2>4, <2>5, RowsPicked
    <2> QED
        BY <2>2, <2>6
<1> QED
    BY <1>13 DEF new, u, n

\* group_items, by show and by show and status.
LEMMA GroupItemsIs ==
    ASSUME NEW items \in Seq(ItemSet), \A i \in DOMAIN items : items[i].count = 1
    PROVE  /\ GroupsOf(GroupItems(items, ShowKey), items, DOMAIN items, ByShow)
           /\ GroupsOf(GroupItems(items, ShowAndStatus), items, DOMAIN items, ByStatus)
<1> DEFINE n == Len(items)
           t == ByStart(items)
<1>1. t \in Seq(ItemSet) /\ Len(t) = n /\ n \in Nat
    BY Arrangement
<1>2. SortedBy(items, StartOrFirst) = t
    BY SortsAre
<1>3. \A k \in 1..n : t[k] \in ItemSet /\ k - 1 \in 0..n
    BY <1>1
<1> HIDE DEF t, n
<1>4. PICK h : /\ h \in [0..n -> Seq(ItemSet)] /\ h[0] = << >>
               /\ \A k \in 1..n : h[k] = CountingShow(h[k - 1], t[k])
               /\ h[n] = ShowLoop(t)
    BY <1>1, ShowLoopRun
<1>5. PICK g : /\ g \in [0..n -> Seq(ItemSet)] /\ g[0] = << >>
               /\ \A k \in 1..n : g[k] = CountingStatus(g[k - 1], t[k])
               /\ g[n] = StatusLoop(t)
    BY <1>1, StatusLoopRun
<1>6. CountingRun(h, t, ByShow, n)
    <2>1. \A k \in 1..n : h[k] = Counting(h[k - 1], t[k], ByShow)
        BY <1>3, <1>4, CountingShowIs
    <2> QED
        BY <1>4, <2>1 DEF CountingRun
<1>7. CountingRun(g, t, ByStatus, n)
    <2>1. \A k \in 1..n : g[k] = Counting(g[k - 1], t[k], ByStatus)
        BY <1>3, <1>5, CountingStatusIs
    <2> QED
        BY <1>5, <2>1 DEF CountingRun
<1>8. GroupItems(items, ShowKey) = ById(h[n])
    <2>1. GroupItems(items, ShowKey) = SortedBy(ShowLoop(t), LAMBDA item : item.id)
        BY <1>2 DEF GroupItems, ShowLoop
    <2>2. ShowLoop(t) \in Seq(ItemSet)
        BY <1>1, <1>4
    <2>3. SortedBy(ShowLoop(t), LAMBDA item : item.id) = ById(ShowLoop(t))
        BY <2>2, SortsAre
    <2> QED
        BY <1>4, <2>1, <2>3
<1>9. GroupItems(items, ShowAndStatus) = ById(g[n])
    <2>1. GroupItems(items, ShowAndStatus) = SortedBy(StatusLoop(t), LAMBDA item : item.id)
        BY <1>2 DEF GroupItems, StatusLoop
    <2>2. StatusLoop(t) \in Seq(ItemSet)
        BY <1>1, <1>5
    <2>3. SortedBy(StatusLoop(t), LAMBDA item : item.id) = ById(StatusLoop(t))
        BY <2>2, SortsAre
    <2> QED
        BY <1>5, <2>1, <2>3
<1> QED
    BY <1>6, <1>7, <1>8, <1>9, GroupKeys, ArrangedGroups DEF t, n

-----------------------------------------------------------------------------
(* Lists of the ids of changes, and their items.                           *)

\* s lists the members of S once each.
ListOf(s, S) == s \in Seq(Nat) /\ Onto(s, DOMAIN s, S)

\* Those of a list that are in T as well.
LEMMA ListedOnly ==
    ASSUME NEW s, NEW S, ListOf(s, S), NEW T, NEW I, I = {i \in DOMAIN s : s[i] \in T}
    PROVE  ListOf(Picked(s, I), S \cap T)
<1> DEFINE t == Picked(s, I)
<1>1. s \in Seq(Nat) /\ I \subseteq DOMAIN s
    BY DEF ListOf
<1>2. t \in Seq(Nat) /\ \E at : IsPicked(t, s, I, at)
    <2> HIDE DEF t
    <2>1. Picked(s, I) \in Seq(Nat) /\ \E at : IsPicked(Picked(s, I), s, I, at)
        BY ONLY <1>1, PickedIs
    <2> QED
        BY <2>1 DEF t
<1>3. PICK at : IsPicked(t, s, I, at)
    BY <1>2
<1> HIDE DEF t
<1>4. DOMAIN t \subseteq Int
    BY <1>2
<1>5. \A k \in DOMAIN t : at[k] \in I /\ t[k] = s[at[k]]
    BY <1>3 DEF IsPicked
<1>6. ASSUME NEW k \in DOMAIN t, NEW l \in DOMAIN t, t[k] = t[l]
      PROVE  k = l
    <2>1. at[k] = at[l] /\ at[k] \in Int /\ at[l] \in Int
        <3>1. at[k] \in DOMAIN s /\ at[l] \in DOMAIN s /\ s[at[k]] = s[at[l]]
            BY <1>1, <1>5, <1>6
        <3>2. at[k] = at[l]
            BY <3>1 DEF ListOf, Onto
        <3> QED
            BY <1>1, <3>1, <3>2
    <2>2. ~(k < l) /\ ~(l < k)
        BY <1>3, <2>1 DEF IsPicked
    <2> QED
        BY <1>4, <2>2
<1>7. ASSUME NEW x \in S \cap T
      PROVE  \E k \in DOMAIN t : t[k] = x
    <2>1. PICK i \in DOMAIN s : s[i] = x
        BY DEF ListOf, Onto
    <2>2. PICK k \in DOMAIN t : at[k] = i
        BY <1>3, <2>1 DEF IsPicked
    <2> QED
        BY <1>5, <2>1, <2>2
<1>8. t \in [DOMAIN t -> S \cap T]
    <2>1. \A k \in DOMAIN t : t[k] \in S \cap T
        BY <1>5 DEF ListOf, Onto
    <2>2. t = [k \in DOMAIN t |-> t[k]]
        BY <1>2
    <2> QED
        BY <2>1, <2>2
<1>9. ListOf(t, S \cap T)
    BY <1>2, <1>6, <1>7, <1>8 DEF ListOf, Onto
<1> QED
    BY <1>9 DEF t

\* The other way round.
LEMMA ListedReverse ==
    ASSUME NEW s, NEW S, ListOf(s, S)
    PROVE  ListOf(Reverse(s), S)
<1> DEFINE n == Len(s)
           t == Reverse(s)
<1>1. n \in Nat /\ DOMAIN s = 1..n /\ t = [i \in 1..n |-> s[(n - i) + 1]]
    BY DEF ListOf, Reverse
<1>2. \A i \in 1..n : (n - i) + 1 \in 1..n /\ (n - ((n - i) + 1)) + 1 = i
    BY <1>1
<1>3. (\A i \in 1..n : s[i] \in S /\ s[i] \in Nat) /\ (\A i, j \in 1..n : s[i] = s[j] => i = j)
      /\ \A x \in S : \E i \in 1..n : s[i] = x
    BY <1>1 DEF ListOf, Onto
<1> HIDE DEF n, t
<1>4. DOMAIN t = 1..n /\ \A i \in 1..n : t[i] = s[(n - i) + 1]
    BY <1>1
<1>5. \A i \in 1..n : t[i] \in S /\ t[i] \in Nat
    BY <1>2, <1>3, <1>4
<1>6. ASSUME NEW i \in 1..n, NEW j \in 1..n, t[i] = t[j]
      PROVE  i = j
    <2>1. (n - i) + 1 = (n - j) + 1
        BY <1>2, <1>3, <1>4, <1>6
    <2> QED
        BY <1>1, <2>1
<1>7. ASSUME NEW x \in S
      PROVE  \E i \in 1..n : t[i] = x
    <2>1. PICK i \in 1..n : s[i] = x
        BY <1>3
    <2>2. t[(n - i) + 1] = x
        BY <1>2, <1>4, <2>1
    <2> QED
        BY <1>2, <2>2
<1>8. t \in Seq(Nat) /\ t \in [1..n -> S]
    <2>1. t = [k \in 1..n |-> t[k]]
        BY <1>1
    <2> HIDE DEF n
    <2>2. t \in [1..n -> Nat] /\ t \in [1..n -> S]
        BY <1>5, <2>1
    <2> QED
        BY <1>1, <2>2
<1>9. ListOf(t, S)
    BY <1>4, <1>6, <1>7, <1>8 DEF ListOf, Onto
<1> QED
    BY <1>9 DEF t

\* The changes with some ids, in the order of the log.
LEMMA ChosenIs ==
    ASSUME LogOK, NEW ids \in SUBSET Ids
    PROVE  ListOf(Chosen(ids, log), ids)
<1> DEFINE all == [id \in DOMAIN log |-> id]
           I == {i \in DOMAIN all : all[i] \in ids}
<1>1. PICK n \in Nat : DOMAIN log = 1..n
    <2>1. PICK S : log \in Seq(S)
        BY DEF LogOK
    <2> QED
        BY <2>1
<1>2. ListOf(all, Ids)
    <2>1. all \in Seq(Nat) /\ all \in [1..n -> 1..n] /\ DOMAIN all = 1..n
        BY <1>1
    <2>2. \A i \in 1..n : all[i] = i
        BY <1>1
    <2> QED
        BY <1>1, <2>1, <2>2 DEF ListOf, Onto, Ids
<1>3. Chosen(ids, log) = Picked(all, I)
    BY DEF Chosen, Only
<1> HIDE DEF all
<1>4. ListOf(Picked(all, I), Ids \cap ids)
    BY <1>2, ListedOnly
<1>5. Ids \cap ids = ids
    OBVIOUS
<1> QED
    BY <1>3, <1>4, <1>5

\* The item of a change.
ItemOf(id, wl) == Item(id, log[id], stored, wl)

SubjectOf(id) == stored[log[id].event].raw

\* The item of a change tells what the log and the event say.
LEMMA ItemIs ==
    ASSUME LogOK, NEW id \in Ids, NEW wl
    PROVE  /\ ItemOf(id, wl) \in ItemSet
           /\ ItemOf(id, wl).id = id /\ ItemOf(id, wl).count = 1
           /\ ItemOf(id, wl).type = log[id].type /\ ItemOf(id, wl).to = log[id].to
           /\ ItemOf(id, wl).watched = Watched(SubjectOf(id), wl)
           /\ ItemOf(id, wl).title = SubjectOf(id).title /\ ItemOf(id, wl).venue = SubjectOf(id).venue
           /\ ItemOf(id, wl).movie = (SubjectOf(id).kind = "movie")
           /\ SubjectOf(id) \in Raw
<1> DEFINE raw == SubjectOf(id)
<1>1. id \in Nat
    <2>1. PICK S : log \in Seq(S)
        BY DEF LogOK
    <2> QED
        BY <2>1 DEF Ids
<1>2. raw \in Raw
    <2>1. log[id].event \in DOMAIN stored
        BY DEF LogOK, Ids
    <2>2. stored \in Seq([raw : Raw, canon : DOMAIN canonicals])
        BY DEF LogOK, DedupTypeOK
    <2>3. stored[log[id].event] \in [raw : Raw, canon : DOMAIN canonicals]
        BY <2>1, <2>2, SeqElements
    <2> QED
        BY <2>3 DEF SubjectOf
<1>3. log[id].type \in Types
    BY DEF LogOK, EntryOK, Ids
<1>4. raw.title \in Nat /\ raw.start \in Nat \cup {None} /\ raw.venue \in {r.venue : r \in Raw}
    BY <1>2, ViewsAssumption
<1>5. ItemOf(id, wl) =
        [id |-> id, type |-> log[id].type, title |-> raw.title, venue |-> raw.venue,
         movie |-> raw.kind = "movie", start |-> raw.start, details |-> Details(log[id]),
         to |-> log[id].to, watched |-> Watched(raw, wl), count |-> 1]
    BY DEF ItemOf, Item, SubjectOf
<1>6. Details(log[id]) \in {Details(log[i]) : i \in Ids} /\ log[id].to \in {log[i].to : i \in Ids}
    OBVIOUS
<1> DEFINE watched == Watched(raw, wl)
           movie == raw.kind = "movie"
           details == Details(log[id])
<1>7. watched \in BOOLEAN /\ movie \in BOOLEAN
    BY DEF Watched
<1>8. /\ ItemOf(id, wl) =
            [id |-> id, type |-> log[id].type, title |-> raw.title, venue |-> raw.venue,
             movie |-> movie, start |-> raw.start, details |-> details,
             to |-> log[id].to, watched |-> watched, count |-> 1]
      /\ details \in {Details(log[i]) : i \in Ids}
    BY <1>5, <1>6
<1> HIDE DEF watched, movie, details
<1>9. ItemOf(id, wl) \in ItemSet
    BY <1>1, <1>3, <1>4, <1>6, <1>7, <1>8 DEF ItemSet
<1>10. /\ ItemOf(id, wl).watched = watched /\ ItemOf(id, wl).movie = movie
       /\ ItemOf(id, wl).id = id /\ ItemOf(id, wl).count = 1
       /\ ItemOf(id, wl).type = log[id].type /\ ItemOf(id, wl).to = log[id].to
       /\ ItemOf(id, wl).title = raw.title /\ ItemOf(id, wl).venue = raw.venue
    BY <1>8
<1> QED
    BY <1>2, <1>9, <1>10 DEF watched, movie

\* s has the items of the changes in S, each once; the k-th is of the change at[k].
ItemsOf(s, S, wl, at) ==
    /\ s \in Seq(ItemSet)
    /\ Onto(at, DOMAIN s, S)
    /\ \A k \in DOMAIN s : s[k] = ItemOf(at[k], wl)

\* NewsItems has an item for each of the listed changes that is news.
LEMMA NewsItemsAre ==
    ASSUME LogOK, NEW S \in SUBSET Ids, NEW s, ListOf(s, S), NEW wl
    PROVE  \E at : ItemsOf(NewsItems(s, log, stored, wl), S \cap News, wl, at)
<1> DEFINE I == {i \in DOMAIN s : s[i] \in News}
           J == {i \in DOMAIN s : IsNews(log[s[i]])}
           at == Picked(s, I)
           t == [k \in DOMAIN at |-> ItemOf(at[k], wl)]
<1>1. \A i \in DOMAIN s : s[i] \in Ids
    BY DEF ListOf, Onto
<1>2. I = J
    BY <1>1 DEF News
<1>3. NewsItems(s, log, stored, wl) = t
    BY <1>2 DEF NewsItems, Only, ItemOf
<1> HIDE DEF J
<1>4. ListOf(at, S \cap News)
    BY ListedOnly
<1> HIDE DEF at
<1>5. DOMAIN t = DOMAIN at /\ \A k \in DOMAIN at : t[k] = ItemOf(at[k], wl)
    OBVIOUS
<1>6. t \in Seq(ItemSet)
    <2>1. \A k \in DOMAIN at : at[k] \in Ids
        BY <1>4 DEF ListOf, Onto
    <2>2. \A k \in DOMAIN at : t[k] \in ItemSet
        BY <1>5, <2>1, ItemIs
    <2>3. PICK n \in Nat : DOMAIN at = 1..n
        BY <1>4 DEF ListOf
    <2> QED
        BY <2>2, <2>3
<1>7. ItemsOf(t, S \cap News, wl, at)
    BY <1>4, <1>5, <1>6 DEF ItemsOf, ListOf
<1> QED
    BY <1>3, <1>7

-----------------------------------------------------------------------------
(* Rows in sections.                                                       *)

\* What tells the rows of all sections of the news apart.
NewsTag ==
    [v \in ItemSet |->
        <<v.type, IF v.type = "added" THEN v.movie ELSE FALSE, v.title, v.venue,
          IF v.type = "ticket_status" THEN v.to ELSE None, IF v.type = "updated" THEN v.id ELSE 0>>]

\* Two items have one tag if they are of one type and the key of its section agrees.
LEMMA NewsTagIs ==
    ASSUME NEW v \in ItemSet, NEW w \in ItemSet
    PROVE  NewsTag[v] = NewsTag[w] <=>
              /\ v.type = w.type /\ v.title = w.title /\ v.venue = w.venue
              /\ v.type = "added" => v.movie = w.movie
              /\ v.type = "ticket_status" => v.to = w.to
              /\ v.type = "updated" => v.id = w.id
<1>1. v.type \in Types /\ v.movie \in BOOLEAN /\ w.movie \in BOOLEAN
    BY DEF ItemSet
<1>2. v.type = w.type /\ v.type = "added" => v.type # "ticket_status" /\ v.type # "updated"
    OBVIOUS
<1>3. v.type = w.type /\ v.type = "ticket_status" => v.type # "added" /\ v.type # "updated"
    OBVIOUS
<1>4. v.type = w.type /\ v.type = "updated" => v.type # "ticket_status" /\ v.type # "added"
    OBVIOUS
<1> QED
    BY <1>1, <1>2, <1>3, <1>4 DEF NewsTag

\* The tag does not tell how many an item stands for.
LEMMA NewsTagIsKey == IsGroupKey(NewsTag)
<1>1. ASSUME NEW v \in ItemSet, NEW c \in Nat
      PROVE  LET w == [v EXCEPT !.count = c]
             IN /\ w \in ItemSet /\ w.type = v.type /\ w.title = v.title /\ w.venue = v.venue
                /\ w.movie = v.movie /\ w.to = v.to /\ w.id = v.id
    BY DEF ItemSet
<1>2. ASSUME NEW v \in ItemSet, NEW c \in Nat
      PROVE  [v EXCEPT !.count = c] \in ItemSet /\ NewsTag[[v EXCEPT !.count = c]] = NewsTag[v]
    <2> DEFINE w == [v EXCEPT !.count = c]
    <2>1. /\ w \in ItemSet /\ w.type = v.type /\ w.title = v.title /\ w.venue = v.venue
          /\ w.movie = v.movie /\ w.to = v.to /\ w.id = v.id
        BY <1>1
    <2> HIDE DEF w
    <2>2. NewsTag[w] = NewsTag[v]
        BY <2>1, NewsTagIs
    <2> QED
        BY <2>1, <2>2 DEF w
<1> QED
    BY <1>2 DEF IsGroupKey

\* sub has the items at the places in K.
SubList(sub, items, K) ==
    /\ sub \in Seq(ItemSet)
    /\ \E at : Onto(at, DOMAIN sub, K) /\ \A k \in DOMAIN sub : sub[k] = items[at[k]]

\* The places of items in W.
In(items, K, W) == {i \in K : items[i] \in W}

\* All items are a part of them.
LEMMA SubListAll ==
    ASSUME NEW items \in Seq(ItemSet)
    PROVE  SubList(items, items, DOMAIN items)
<1> DEFINE at == [i \in DOMAIN items |-> i]
<1>1. Onto(at, DOMAIN items, DOMAIN items) /\ \A k \in DOMAIN items : items[k] = items[at[k]]
    BY DEF Onto
<1> QED
    BY <1>1 DEF SubList

\* Increasing places are a correspondence.
LEMMA PickedOnto ==
    ASSUME NEW V, NEW s \in Seq(V), NEW I, I \subseteq DOMAIN s
    PROVE  /\ Picked(s, I) \in Seq(V)
           /\ \E at : Onto(at, DOMAIN Picked(s, I), I) /\ \A k \in DOMAIN Picked(s, I) : Picked(s, I)[k] = s[at[k]]
<1> DEFINE t == Picked(s, I)
<1>1. t \in Seq(V) /\ \E at : IsPicked(t, s, I, at)
    BY PickedIs
<1> HIDE DEF t
<1>2. PICK at : IsPicked(t, s, I, at)
    BY <1>1
<1>3. DOMAIN t \subseteq Int /\ DOMAIN s \subseteq Int
    BY <1>1
<1>4. /\ at \in [DOMAIN t -> I]
      /\ \A k \in DOMAIN t : t[k] = s[at[k]]
      /\ \A k, l \in DOMAIN t : k < l => at[k] < at[l]
      /\ \A i \in I : \E k \in DOMAIN t : at[k] = i
    BY <1>2 DEF IsPicked
<1>5. ASSUME NEW k \in DOMAIN t, NEW l \in DOMAIN t, at[k] = at[l]
      PROVE  k = l
    <2>1. at[k] \in Int /\ at[l] \in Int
        BY <1>3, <1>4
    <2>2. ~(k < l) /\ ~(l < k)
        BY <1>4, <1>5, <2>1
    <2> QED
        BY <1>3, <2>2
<1>6. Onto(at, DOMAIN t, I)
    BY <1>4, <1>5 DEF Onto
<1> QED
    BY <1>1, <1>4, <1>6 DEF t

\* A part of a part.
LEMMA SubListOnly ==
    ASSUME NEW items, NEW K, NEW sub, SubList(sub, items, K), NEW W, NEW I, I = {k \in DOMAIN sub : sub[k] \in W}
    PROVE  SubList(Picked(sub, I), items, In(items, K, W))
<1> DEFINE t == Picked(sub, I)
           L == In(items, K, W)
<1>1. sub \in Seq(ItemSet) /\ I \subseteq DOMAIN sub
    BY DEF SubList
<1>2. t \in Seq(ItemSet) /\ \E p : Onto(p, DOMAIN t, I) /\ \A k \in DOMAIN t : t[k] = sub[p[k]]
    BY ONLY <1>1, PickedOnto
<1> HIDE DEF t
<1>3. PICK p : Onto(p, DOMAIN t, I) /\ \A k \in DOMAIN t : t[k] = sub[p[k]]
    BY <1>2
<1>4. PICK at : Onto(at, DOMAIN sub, K) /\ \A k \in DOMAIN sub : sub[k] = items[at[k]]
    BY DEF SubList
<1>5. \A i : i \in L <=> i \in K /\ items[i] \in W
    BY DEF In
<1> HIDE DEF L
<1> DEFINE new == [k \in DOMAIN t |-> at[p[k]]]
<1>6. \A k \in DOMAIN t : p[k] \in I /\ p[k] \in DOMAIN sub
    BY <1>3 DEF Onto
<1>7. \A k \in I : at[k] \in L
    BY <1>4, <1>5 DEF Onto
<1>8. new \in [DOMAIN t -> L]
    BY <1>6, <1>7
<1>9. \A k, l \in DOMAIN t : new[k] = new[l] => k = l
    BY <1>3, <1>4, <1>6 DEF Onto
<1>10. ASSUME NEW i \in L
       PROVE  \E k \in DOMAIN t : new[k] = i
    <2>1. i \in K /\ items[i] \in W
        BY <1>5
    <2>2. PICK j \in DOMAIN sub : at[j] = i
        BY <1>4, <2>1 DEF Onto
    <2>3. j \in I
        BY <1>4, <2>1, <2>2
    <2>4. PICK k \in DOMAIN t : p[k] = j
        BY <1>3, <2>3 DEF Onto
    <2> QED
        BY <2>2, <2>4
<1>11. \A k \in DOMAIN t : t[k] = items[new[k]]
    BY <1>3, <1>4, <1>6
<1> HIDE DEF new
<1>12. Onto(new, DOMAIN t, L)
    BY <1>8, <1>9, <1>10 DEF Onto
<1>13. SubList(t, items, L)
    BY <1>2, <1>11, <1>12 DEF SubList
<1> QED
    BY <1>13 DEF t, L

\* The rows of a part of the items.
LEMMA SubListGroups ==
    ASSUME NEW items \in Seq(ItemSet), NEW K \in SUBSET DOMAIN items, NEW sub, SubList(sub, items, K),
           NEW key, IsGroupKey(key), NEW rows, GroupsOf(rows, sub, DOMAIN sub, key),
           \A i, j \in K : key[items[i]] = key[items[j]] <=> NewsTag[items[i]] = NewsTag[items[j]]
    PROVE  GroupsOf(rows, items, K, NewsTag)
<1>1. PICK at : Onto(at, DOMAIN sub, K) /\ \A k \in DOMAIN sub : sub[k] = items[at[k]]
    BY DEF SubList
<1>2. IsFiniteSet(DOMAIN sub)
    <2>1. DOMAIN sub = 1..Len(sub) /\ Len(sub) \in Nat
        BY DEF SubList
    <2> QED
        BY <2>1, FS_Interval
<1>3. GroupsOf(rows, items, K, key)
    BY <1>1, <1>2, MapGroups
<1> QED
    BY <1>3, NewsTagIsKey, Retag

-----------------------------------------------------------------------------
(* Rows of several sections.                                               *)

\* The items at the places in each of K have no tag in common.
Apart(items, K, n, tag) ==
    \A a, b \in 1..n : a # b => \A i \in K[a], j \in K[b] : tag[items[i]] # tag[items[j]]

FirstOf(K, k) == UNION {K[a] : a \in 1..k}

\* The rows of all sections together, if these have no tag in common.
LEMMA JoinAll ==
    ASSUME NEW items \in Seq(ItemSet), NEW tag, IsGroupKey(tag), NEW n \in Nat \ {0},
           NEW ss \in Seq(Seq(ItemSet)), Len(ss) = n, NEW K,
           \A a \in 1..n : K[a] \in SUBSET DOMAIN items /\ GroupsOf(ss[a], items, K[a], tag),
           Apart(items, K, n, tag)
    PROVE  GroupsOf(FlattenSeq(ss), items, FirstOf(K, n), tag)
<1>1. PICK h : /\ h \in [1..n -> Seq(ItemSet)] /\ h[1] = ss[1]
               /\ \A k \in 2..n : h[k] = h[k - 1] \o ss[k]
               /\ FlattenSeq(ss) = h[n]
    <2>1. ss # << >>
        OBVIOUS
    <2> QED
        BY <2>1, FlattenIs
<1> DEFINE J == {k \in 0..n : k # 0 => GroupsOf(h[k], items, FirstOf(K, k), tag)}
<1>2. FirstOf(K, 1) = K[1]
    BY DEF FirstOf
<1>3. \A k \in 1..n : FirstOf(K, k) \in SUBSET DOMAIN items
    BY DEF FirstOf
<1>4. ASSUME NEW k \in 0..(n - 1), k \in J
      PROVE  k + 1 \in J
    <2>1. CASE k = 0
        BY <1>1, <1>2, <2>1
    <2>2. CASE k # 0
        <3>1. k \in 1..n /\ k + 1 \in 2..n /\ k + 1 \in 1..n /\ (k + 1) - 1 = k /\ k + 1 # 0 /\ k + 1 \in 0..n
            BY <2>2
        <3>2. h[k + 1] = h[k] \o ss[k + 1]
            BY <1>1, <3>1
        <3>3. FirstOf(K, k + 1) = FirstOf(K, k) \cup K[k + 1]
            <4>1. \A a : a \in 1..(k + 1) <=> a \in 1..k \/ a = k + 1
                BY <3>1
            <4> QED
                BY <4>1 DEF FirstOf
        <3>4. \A i \in FirstOf(K, k), j \in K[k + 1] : tag[items[i]] # tag[items[j]]
            <4>1. \A a \in 1..k : a \in 1..n /\ a # k + 1
                BY <3>1
            <4> QED
                BY <3>1, <4>1 DEF FirstOf, Apart
        <3>5. GroupsOf(h[k], items, FirstOf(K, k), tag) /\ GroupsOf(ss[k + 1], items, K[k + 1], tag)
            BY <1>4, <2>2, <3>1
        <3>6. FirstOf(K, k) \in SUBSET DOMAIN items /\ K[k + 1] \in SUBSET DOMAIN items
            BY <1>3, <3>1
        <3> DEFINE A == FirstOf(K, k)
                   B == K[k + 1]
                   u == h[k]
                   w == ss[k + 1]
        <3>7. GroupsOf(u \o w, items, A \cup B, tag)
            <4> HIDE DEF A, B, u, w
            <4>1. A \in SUBSET DOMAIN items /\ B \in SUBSET DOMAIN items
                  /\ GroupsOf(u, items, A, tag) /\ GroupsOf(w, items, B, tag)
                BY <3>5, <3>6 DEF A, B, u, w
            <4>2. \A i \in A, j \in B : tag[items[i]] # tag[items[j]]
                BY <3>4 DEF A, B
            <4> QED
                BY <4>1, <4>2, JoinGroups
        <3>8. GroupsOf(h[k + 1], items, FirstOf(K, k + 1), tag)
            BY <3>2, <3>3, <3>7
        <3> QED
            BY <3>1, <3>8
    <2> QED
        BY <2>1, <2>2
<1>5. n \in J
    <2>1. 0 \in J
        OBVIOUS
    <2> HIDE DEF J
    <2>2. 0..n \subseteq J
        BY <1>4, <2>1, UpTo
    <2> QED
        BY <2>2
<1> QED
    BY <1>1, <1>5

\* Each member of u is in c as well.
Covers(c, u) == \A m \in DOMAIN u : \E q \in DOMAIN c : c[q] = u[m]

\* A concatenation has the members of both.
LEMMA CoversBoth ==
    ASSUME NEW V, NEW u \in Seq(V), NEW w \in Seq(V)
    PROVE  Covers(u \o w, u) /\ Covers(u \o w, w)
<1>1. /\ \A k \in DOMAIN u : k \in DOMAIN (u \o w) /\ (u \o w)[k] = u[k]
      /\ \A k \in DOMAIN w : k + Len(u) \in DOMAIN (u \o w) /\ (u \o w)[k + Len(u)] = w[k]
    BY Concatenated
<1> QED
    BY <1>1 DEF Covers

\* Every row of a section is among those of all sections.
LEMMA FlattenHas ==
    ASSUME NEW V, NEW n \in Nat \ {0}, NEW ss \in Seq(Seq(V)), Len(ss) = n,
           NEW a \in 1..n, NEW l \in DOMAIN ss[a]
    PROVE  \E m \in DOMAIN FlattenSeq(ss) : FlattenSeq(ss)[m] = ss[a][l]
<1>1. PICK h : /\ h \in [1..n -> Seq(V)] /\ h[1] = ss[1]
               /\ \A k \in 2..n : h[k] = h[k - 1] \o ss[k]
               /\ FlattenSeq(ss) = h[n]
    <2>1. ss # << >>
        OBVIOUS
    <2> QED
        BY <2>1, FlattenIs
<1> DEFINE x == ss[a][l]
           J == {k \in 0..n : k >= a => \E m \in DOMAIN h[k] : h[k][m] = x}
<1>2. \A k \in 1..n : h[k] \in Seq(V) /\ ss[k] \in Seq(V)
    BY <1>1
<1>3. ASSUME NEW k \in 1..(n - 1), NEW m
      PROVE  /\ m \in DOMAIN h[k] => \E q \in DOMAIN h[k + 1] : h[k + 1][q] = h[k][m]
             /\ m \in DOMAIN ss[k + 1] => \E q \in DOMAIN h[k + 1] : h[k + 1][q] = ss[k + 1][m]
    <2>1. k \in 1..n /\ k + 1 \in 1..n /\ k + 1 \in 2..n /\ (k + 1) - 1 = k
        OBVIOUS
    <2> DEFINE u == h[k]
               w == ss[k + 1]
               c == h[k + 1]
    <2>2. u \in Seq(V)
        BY <1>2, <2>1
    <2>3. w \in Seq(V)
        BY <1>2, <2>1
    <2>4. c = u \o w
        BY <1>1, <2>1
    <2> HIDE DEF u, w, c
    <2>5. Covers(c, u) /\ Covers(c, w)
        BY ONLY <2>2, <2>3, <2>4, CoversBoth
    <2> QED
        BY <2>5 DEF Covers, u, w, c
<1> HIDE DEF x
<1>4. ASSUME NEW k \in 0..(n - 1), k \in J
      PROVE  k + 1 \in J
    <2>1. CASE k + 1 < a
        BY <2>1
    <2>2. CASE k + 1 = a
        <3>1. CASE k = 0
            <4>1. a = 1 /\ k + 1 = 1 /\ h[1] = ss[1] /\ 1 \in 0..n
                BY <1>1, <2>2, <3>1
            <4>2. l \in DOMAIN h[1] /\ h[1][l] = x
                BY <4>1 DEF x
            <4> QED
                BY <4>1, <4>2
        <3>2. CASE k # 0
            <4>1. k \in 1..(n - 1) /\ l \in DOMAIN ss[k + 1] /\ ss[k + 1][l] = x /\ k + 1 \in 0..n
                BY <2>2, <3>2 DEF x
            <4>2. \E q \in DOMAIN h[k + 1] : h[k + 1][q] = ss[k + 1][l]
                BY <1>3, <4>1
            <4>3. \E q \in DOMAIN h[k + 1] : h[k + 1][q] = x
                <5> HIDE DEF J
                <5> QED
                    BY ONLY <4>1, <4>2
            <4>4. k + 1 \in 0..n
                BY <4>1
            <4> QED
                BY <4>3, <4>4
        <3> QED
            BY <3>1, <3>2
    <2>3. CASE k + 1 > a
        <3>1. k >= a /\ k \in 1..(n - 1) /\ k + 1 \in 0..n
            BY <2>3
        <3>2. PICK m \in DOMAIN h[k] : h[k][m] = x
            BY <1>4, <3>1
        <3>3. \E q \in DOMAIN h[k + 1] : h[k + 1][q] = h[k][m]
            BY ONLY <1>3, <3>1, <3>2
        <3> QED
            BY <3>1, <3>2, <3>3
    <2> QED
        BY <2>1, <2>2, <2>3
<1>5. n \in J
    <2>1. 0 \in J
        OBVIOUS
    <2> HIDE DEF J
    <2>2. 0..n \subseteq J
        BY <1>4, <2>1, UpTo
    <2> QED
        BY <2>2
<1> QED
    BY <1>1, <1>5 DEF x

-----------------------------------------------------------------------------
(* The sections of a digest.                                               *)

\* Items of changes: each counts for one and has an id of its own.
Fresh(items) ==
    /\ items \in Seq(ItemSet)
    /\ \A i \in DOMAIN items : items[i].count = 1 /\ items[i].type # "baseline"
    /\ \A i, j \in DOMAIN items : items[i].id = items[j].id => i = j

\* The section that an item is listed in unless it is watched.
SectionFor(v) ==
    IF v.type = "added" THEN (IF v.movie THEN 1 ELSE 2)
    ELSE IF v.type = "ticket_status" THEN 3
    ELSE IF v.type = "updated" THEN 4 ELSE 5

Listed(items) == [a \in 1..5 |-> {i \in DOMAIN items : SectionFor(items[i]) = a}]

\* The sections before the watched rows are moved.
UsualOf(items) ==
    LET added == OfType(items, "added")
    IN <<GroupItems(Only(added, LAMBDA i : i.movie), ShowKey),
         GroupItems(Only(added, LAMBDA i : ~i.movie), ShowKey),
         GroupItems(OfType(items, "ticket_status"), ShowAndStatus),
         OfType(items, "updated"),
         GroupItems(OfType(items, "removed"), ShowKey)>>

\* The items of a type.
LEMMA OfTypeIs ==
    ASSUME NEW items \in Seq(ItemSet), NEW t
    PROVE  SubList(OfType(items, t), items, {i \in DOMAIN items : items[i].type = t})
<1> DEFINE W == {v \in ItemSet : v.type = t}
           I == {k \in DOMAIN items : items[k].type = t}
<1>1. I = {k \in DOMAIN items : items[k] \in W} /\ I = In(items, DOMAIN items, W)
    BY DEF In
<1>2. OfType(items, t) = Picked(items, I)
    BY DEF OfType, Only
<1> HIDE DEF I, W
<1>3. SubList(Picked(items, I), items, In(items, DOMAIN items, W))
    BY <1>1, SubListAll, SubListOnly
<1> QED
    BY <1>1, <1>2, <1>3 DEF I

\* Of the new events, the movies and the others.
LEMMA MoviesAre ==
    ASSUME NEW items \in Seq(ItemSet)
    PROVE  /\ SubList(Only(OfType(items, "added"), LAMBDA i : i.movie), items, Listed(items)[1])
           /\ SubList(Only(OfType(items, "added"), LAMBDA i : ~i.movie), items, Listed(items)[2])
<1> DEFINE added == OfType(items, "added")
           K == {i \in DOMAIN items : items[i].type = "added"}
           W == {v \in ItemSet : v.movie}
           X == {v \in ItemSet : ~v.movie}
           I == {k \in DOMAIN added : added[k].movie}
           J == {k \in DOMAIN added : ~added[k].movie}
<1>1. SubList(added, items, K)
    BY OfTypeIs
<1>2. Only(added, LAMBDA i : i.movie) = Picked(added, I)
    BY DEF Only
<1>3. Only(added, LAMBDA i : ~i.movie) = Picked(added, J)
    BY DEF Only
<1> HIDE DEF added
<1>4. \A k \in DOMAIN added : added[k] \in ItemSet
    BY <1>1 DEF SubList
<1>5. I = {k \in DOMAIN added : added[k] \in W} /\ J = {k \in DOMAIN added : added[k] \in X}
    BY <1>4
<1>6. In(items, K, W) = Listed(items)[1]
    <2>1. \A i : i \in In(items, K, W) <=> i \in Listed(items)[1]
        BY DEF In, Listed, SectionFor
    <2> HIDE DEF K, W
    <2> QED
        BY <2>1
<1>7. In(items, K, X) = Listed(items)[2]
    <2>1. \A i : i \in In(items, K, X) <=> i \in Listed(items)[2]
        BY DEF In, Listed, SectionFor
    <2> HIDE DEF K, X
    <2> QED
        BY <2>1
<1> HIDE DEF K, W, X, I, J
<1>8. SubList(Picked(added, I), items, In(items, K, W))
    BY <1>1, <1>5, SubListOnly
<1>9. SubList(Picked(added, J), items, In(items, K, X))
    BY <1>1, <1>5, SubListOnly
<1> QED
    BY <1>2, <1>3, <1>6, <1>7, <1>8, <1>9 DEF added

\* Items of a part count for one each as well.
LEMMA FreshParts ==
    ASSUME NEW items, Fresh(items), NEW K \in SUBSET DOMAIN items, NEW sub, SubList(sub, items, K)
    PROVE  Fresh(sub)
<1>1. PICK at : Onto(at, DOMAIN sub, K) /\ \A k \in DOMAIN sub : sub[k] = items[at[k]]
    BY DEF SubList
<1>2. \A k \in DOMAIN sub : at[k] \in DOMAIN items /\ sub[k] = items[at[k]]
    BY <1>1 DEF Onto
<1>3. \A k, l \in DOMAIN sub : at[k] = at[l] => k = l
    BY <1>1 DEF Onto
<1>4. sub \in Seq(ItemSet)
    BY DEF SubList
<1>5. \A i \in DOMAIN sub : sub[i].count = 1 /\ sub[i].type # "baseline"
    BY <1>2 DEF Fresh
<1>6. ASSUME NEW k \in DOMAIN sub, NEW l \in DOMAIN sub, sub[k].id = sub[l].id
      PROVE  k = l
    <2>1. at[k] = at[l]
        BY <1>2, <1>6 DEF Fresh
    <2> QED
        BY <1>3, <2>1
<1> QED
    BY <1>4, <1>5, <1>6 DEF Fresh

\* The sections that list one row for a show.
LEMMA ShowSection ==
    ASSUME NEW items, Fresh(items), NEW K \in SUBSET DOMAIN items, NEW sub, SubList(sub, items, K),
           \A i, j \in K : items[i].type = items[j].type /\ items[i].type \in {"added", "removed"}
                           /\ (items[i].type = "added" /\ items[i].title = items[j].title
                                  /\ items[i].venue = items[j].venue => items[i].movie = items[j].movie)
    PROVE  GroupsOf(GroupItems(sub, ShowKey), items, K, NewsTag)
<1>1. Fresh(sub) /\ items \in Seq(ItemSet)
    BY FreshParts DEF Fresh
<1>2. GroupsOf(GroupItems(sub, ShowKey), sub, DOMAIN sub, ByShow)
    BY <1>1, GroupItemsIs DEF Fresh
<1>3. ASSUME NEW i \in K, NEW j \in K
      PROVE  ByShow[items[i]] = ByShow[items[j]] <=> NewsTag[items[i]] = NewsTag[items[j]]
    <2> DEFINE v == items[i]
               w == items[j]
    <2>1. v \in ItemSet /\ w \in ItemSet
        <3>1. i \in DOMAIN items /\ j \in DOMAIN items
            OBVIOUS
        <3> QED
            BY <1>1, <3>1, SeqElements
    <2>2. /\ v.type = w.type /\ v.type \in {"added", "removed"}
          /\ v.type = "added" /\ v.title = w.title /\ v.venue = w.venue => v.movie = w.movie
        OBVIOUS
    <2> HIDE DEF v, w
    <2>3. ByShow[v] = ByShow[w] <=> v.title = w.title /\ v.venue = w.venue
        BY <2>1 DEF ByShow, ShowKey
    <2>4. v.type # "ticket_status" /\ v.type # "updated"
        BY <2>2
    <2>5. NewsTag[v] = NewsTag[w] <=> v.title = w.title /\ v.venue = w.venue
        BY <2>1, <2>2, <2>4, NewsTagIs
    <2> QED
        BY <2>3, <2>5 DEF v, w
<1> QED
    BY <1>1, <1>2, <1>3, GroupKeys, SubListGroups

\* The ticket changes have one row for a show and status.
LEMMA StatusSection ==
    ASSUME NEW items, Fresh(items), NEW K \in SUBSET DOMAIN items, NEW sub, SubList(sub, items, K),
           \A i \in K : items[i].type = "ticket_status"
    PROVE  GroupsOf(GroupItems(sub, ShowAndStatus), items, K, NewsTag)
<1>1. Fresh(sub) /\ items \in Seq(ItemSet)
    BY FreshParts DEF Fresh
<1>2. GroupsOf(GroupItems(sub, ShowAndStatus), sub, DOMAIN sub, ByStatus)
    BY <1>1, GroupItemsIs DEF Fresh
<1>3. ASSUME NEW i \in K, NEW j \in K
      PROVE  ByStatus[items[i]] = ByStatus[items[j]] <=> NewsTag[items[i]] = NewsTag[items[j]]
    <2> DEFINE v == items[i]
               w == items[j]
    <2>1. v \in ItemSet /\ w \in ItemSet
        <3>1. i \in DOMAIN items /\ j \in DOMAIN items
            OBVIOUS
        <3> QED
            BY <1>1, <3>1, SeqElements
    <2>2. v.type = "ticket_status" /\ w.type = "ticket_status"
        OBVIOUS
    <2> HIDE DEF v, w
    <2>3. ByStatus[v] = ByStatus[w] <=> v.title = w.title /\ v.venue = w.venue /\ v.to = w.to
        BY <2>1 DEF ByStatus, ShowAndStatus, ShowKey
    <2>4. v.type = w.type /\ v.type # "added" /\ v.type # "updated"
        BY <2>2
    <2>5. NewsTag[v] = NewsTag[w] <=> v.title = w.title /\ v.venue = w.venue /\ v.to = w.to
        BY <2>1, <2>2, <2>4, NewsTagIs
    <2> QED
        BY <2>3, <2>5 DEF v, w
<1> QED
    BY <1>1, <1>2, <1>3, GroupKeys, SubListGroups

\* The updated events have a row each.
LEMMA UpdatedSection ==
    ASSUME NEW items, Fresh(items), NEW K \in SUBSET DOMAIN items, NEW sub, SubList(sub, items, K),
           \A i \in K : items[i].type = "updated"
    PROVE  GroupsOf(sub, items, K, NewsTag)
<1>1. Fresh(sub) /\ items \in Seq(ItemSet)
    BY FreshParts DEF Fresh
<1>2. \A k \in DOMAIN sub : sub[k] \in ItemSet /\ sub[k].type = "updated"
    BY <1>1 DEF SubList, Onto
<1>3. ASSUME NEW k \in DOMAIN sub, NEW l \in DOMAIN sub, NewsTag[sub[k]] = NewsTag[sub[l]]
      PROVE  k = l
    <2>1. sub[k].id = sub[l].id
        BY <1>2, <1>3, NewsTagIs
    <2> QED
        BY <1>1, <2>1 DEF Fresh
<1>4. GroupsOf(sub, sub, DOMAIN sub, NewsTag)
    BY <1>1, <1>3, Singles DEF Fresh
<1> QED
    BY <1>1, <1>4, NewsTagIsKey, SubListGroups

\* Each section lists the rows of the items it is for.
LEMMA UsualGroups ==
    ASSUME NEW items, Fresh(items)
    PROVE  /\ UsualOf(items) \in Seq(Seq(ItemSet)) /\ Len(UsualOf(items)) = 5
           /\ \A a \in 1..5 : Listed(items)[a] \in SUBSET DOMAIN items
                              /\ GroupsOf(UsualOf(items)[a], items, Listed(items)[a], NewsTag)
<1> DEFINE K == Listed(items)
           movies == Only(OfType(items, "added"), LAMBDA i : i.movie)
           concerts == Only(OfType(items, "added"), LAMBDA i : ~i.movie)
           tickets == OfType(items, "ticket_status")
           updated == OfType(items, "updated")
           removed == OfType(items, "removed")
<1>0. UsualOf(items) = <<GroupItems(movies, ShowKey), GroupItems(concerts, ShowKey),
                         GroupItems(tickets, ShowAndStatus), updated, GroupItems(removed, ShowKey)>>
    BY DEF UsualOf
<1>1. items \in Seq(ItemSet) /\ \A i \in DOMAIN items : items[i] \in ItemSet /\ items[i].type \in Types \ {"baseline"}
    <2>1. items \in Seq(ItemSet)
        BY DEF Fresh
    <2>2. \A i \in DOMAIN items : items[i] \in ItemSet
        BY <2>1
    <2> QED
        BY <2>1, <2>2 DEF Fresh, ItemSet
<1>2. \A a \in 1..5 : K[a] = {i \in DOMAIN items : SectionFor(items[i]) = a}
    BY DEF Listed
<1>k. \A a \in 1..5 : K[a] \in SUBSET DOMAIN items
    BY <1>2
<1>3. K[3] = {i \in DOMAIN items : items[i].type = "ticket_status"}
    BY <1>2 DEF SectionFor
<1>4. K[4] = {i \in DOMAIN items : items[i].type = "updated"}
    BY <1>2 DEF SectionFor
<1>5. K[5] = {i \in DOMAIN items : items[i].type = "removed"}
    BY <1>1, <1>2 DEF SectionFor, Types
<1>6. SubList(movies, items, K[1]) /\ SubList(concerts, items, K[2])
    BY <1>1, MoviesAre
<1>7. SubList(tickets, items, K[3]) /\ SubList(updated, items, K[4]) /\ SubList(removed, items, K[5])
    BY <1>1, <1>3, <1>4, <1>5, OfTypeIs
<1> HIDE DEF movies, concerts, tickets, updated, removed
<1>8. GroupsOf(GroupItems(movies, ShowKey), items, K[1], NewsTag)
    <2>1. \A i \in K[1] : items[i].type = "added" /\ items[i].movie = TRUE
        BY <1>1, <1>2 DEF SectionFor, ItemSet
    <2>2. K[1] \in SUBSET DOMAIN items
        BY <1>k
    <2> HIDE DEF K
    <2> QED
        BY <1>6, <2>1, <2>2, ShowSection
<1>9. GroupsOf(GroupItems(concerts, ShowKey), items, K[2], NewsTag)
    <2>1. \A i \in K[2] : items[i].type = "added" /\ items[i].movie = FALSE
        BY <1>1, <1>2 DEF SectionFor, ItemSet
    <2>2. K[2] \in SUBSET DOMAIN items
        BY <1>k
    <2> HIDE DEF K
    <2> QED
        BY <1>6, <2>1, <2>2, ShowSection
<1>10. GroupsOf(GroupItems(tickets, ShowAndStatus), items, K[3], NewsTag)
    <2>1. \A i \in K[3] : items[i].type = "ticket_status"
        BY <1>3
    <2>2. K[3] \in SUBSET DOMAIN items
        BY <1>k
    <2> HIDE DEF K
    <2> QED
        BY <1>7, <2>1, <2>2, StatusSection
<1>11. GroupsOf(updated, items, K[4], NewsTag)
    <2>1. \A i \in K[4] : items[i].type = "updated"
        BY <1>4
    <2>2. K[4] \in SUBSET DOMAIN items
        BY <1>k
    <2> HIDE DEF K
    <2> QED
        BY <1>7, <2>1, <2>2, UpdatedSection
<1>12. GroupsOf(GroupItems(removed, ShowKey), items, K[5], NewsTag)
    <2>1. \A i \in K[5] : items[i].type = "removed"
        BY <1>5
    <2>2. K[5] \in SUBSET DOMAIN items
        BY <1>k
    <2> HIDE DEF K
    <2> QED
        BY <1>7, <2>1, <2>2, ShowSection
<1> HIDE DEF K
<1>13. \A a \in 1..5 : GroupsOf(UsualOf(items)[a], items, K[a], NewsTag)
    <2> DEFINE u1 == GroupItems(movies, ShowKey)
               u2 == GroupItems(concerts, ShowKey)
               u3 == GroupItems(tickets, ShowAndStatus)
               u5 == GroupItems(removed, ShowKey)
    <2>1. UsualOf(items) = <<u1, u2, u3, updated, u5>>
        BY <1>0
    <2> HIDE DEF u1, u2, u3, u5
    <2>2. /\ UsualOf(items)[1] = u1 /\ UsualOf(items)[2] = u2 /\ UsualOf(items)[3] = u3
          /\ UsualOf(items)[4] = updated /\ UsualOf(items)[5] = u5
        BY <2>1
    <2>3. \A a \in 1..5 : a = 1 \/ a = 2 \/ a = 3 \/ a = 4 \/ a = 5
        OBVIOUS
    <2>4. /\ GroupsOf(u1, items, K[1], NewsTag) /\ GroupsOf(u2, items, K[2], NewsTag)
          /\ GroupsOf(u3, items, K[3], NewsTag) /\ GroupsOf(u5, items, K[5], NewsTag)
        BY <1>8, <1>9, <1>10, <1>12 DEF u1, u2, u3, u5
    <2> QED
        BY <1>11, <2>2, <2>3, <2>4
<1>14. \A a \in 1..5 : UsualOf(items)[a] \in Seq(ItemSet)
    BY <1>13 DEF GroupsOf
<1>15. UsualOf(items) \in Seq(Seq(ItemSet)) /\ Len(UsualOf(items)) = 5
    <2>1. DOMAIN UsualOf(items) = 1..5 /\ Len(UsualOf(items)) = 5 /\ UsualOf(items) = [a \in 1..5 |-> UsualOf(items)[a]]
        BY <1>0
    <2> QED
        BY <1>14, <2>1
<1> QED
    BY <1>13, <1>15, <1>k DEF K

\* The items of changes are fresh.
LEMMA ItemsAreFresh ==
    ASSUME LogOK, NEW S \in SUBSET News, NEW s, NEW wl, NEW at, ItemsOf(s, S, wl, at)
    PROVE  /\ Fresh(s) /\ at \in [DOMAIN s -> S]
           /\ \A k \in DOMAIN s : s[k].id = at[k]
           /\ Cardinality(DOMAIN s) = Cardinality(S) /\ Len(s) = Cardinality(S)
<1>1. /\ s \in Seq(ItemSet) /\ Onto(at, DOMAIN s, S)
      /\ \A k \in DOMAIN s : s[k] = ItemOf(at[k], wl)
    BY DEF ItemsOf
<1>2. \A k \in DOMAIN s : at[k] \in S /\ at[k] \in Ids /\ IsNews(log[at[k]])
    BY <1>1 DEF Onto, News
<1>3. ASSUME NEW k \in DOMAIN s
      PROVE  s[k].id = at[k] /\ s[k].count = 1 /\ s[k].type # "baseline"
    <2>1. s[k].id = at[k] /\ s[k].count = 1 /\ s[k].type = log[at[k]].type
        BY <1>1, <1>2, ItemIs
    <2>2. log[at[k]].type # "baseline"
        BY <1>2 DEF IsNews
    <2> QED
        BY <2>1, <2>2
<1>4. \A k, l \in DOMAIN s : s[k].id = s[l].id => k = l
    BY <1>1, <1>3 DEF Onto
<1>5. Fresh(s)
    BY <1>1, <1>3, <1>4 DEF Fresh
<1>6. at \in [DOMAIN s -> S]
    BY <1>1 DEF Onto
<1>7. Cardinality(DOMAIN s) = Cardinality(S) /\ Len(s) = Cardinality(S)
    <2>1. DOMAIN s = 1..Len(s) /\ Len(s) \in Nat
        BY <1>1
    <2>2. IsFiniteSet(DOMAIN s) /\ Cardinality(DOMAIN s) = Len(s)
        <3> DEFINE n == Len(s)
        <3>1. n \in Nat
            BY <2>1
        <3> HIDE DEF n
        <3>2. IsFiniteSet(1..n) /\ Cardinality(1..n) = n
            BY <3>1, FS_Interval
        <3> QED
            BY <2>1, <3>2 DEF n
    <2>3. DOMAIN s \in SUBSET DOMAIN s /\ S \in SUBSET S /\ \A j \in DOMAIN s : j \in DOMAIN s <=> at[j] \in S
        BY <1>6
    <2>4. Cardinality(DOMAIN s) = Cardinality(S)
        BY <1>1, <2>2, <2>3, CountOnto
    <2> QED
        BY <2>2, <2>4
<1> QED
    BY <1>3, <1>5, <1>6, <1>7

\* Rows that are shown in the watched section.
WatchedIn(rows) == {k \in DOMAIN rows : rows[k].watched}

\* The sections with the watched rows at the top.
SectionsOf(items) ==
    LET usual == UsualOf(items)
    IN <<Only(FlattenSeq(usual), LAMBDA i : i.watched)>> \o [s \in DOMAIN usual |-> UsualSection(usual[s])]

\* Items of different sections have different tags.
LEMMA ListedApart ==
    ASSUME NEW items \in Seq(ItemSet)
    PROVE  Apart(items, Listed(items), 5, NewsTag) /\ FirstOf(Listed(items), 5) = DOMAIN items
<1>1. \A i \in DOMAIN items : items[i] \in ItemSet
    OBVIOUS
<1>2. ASSUME NEW v \in ItemSet, NEW w \in ItemSet, NewsTag[v] = NewsTag[w]
      PROVE  SectionFor(v) = SectionFor(w)
    <2>1. v.type = w.type /\ (v.type = "added" => v.movie = w.movie)
        BY <1>2, NewsTagIs
    <2> QED
        BY <2>1 DEF SectionFor
<1>3. \A v \in ItemSet : SectionFor(v) \in 1..5
    BY DEF SectionFor
<1>4. \A a \in 1..5 : Listed(items)[a] = {i \in DOMAIN items : SectionFor(items[i]) = a}
    BY DEF Listed
<1>5. Apart(items, Listed(items), 5, NewsTag)
    BY <1>1, <1>2, <1>4 DEF Apart
<1>6. FirstOf(Listed(items), 5) = DOMAIN items
    BY ZenonT(30), <1>1, <1>3, <1>4 DEF FirstOf
<1> QED
    BY <1>5, <1>6

\* The list t is x and then r.
Headed(t, x, r) == Len(t) = Len(r) + 1 /\ t[1] = x /\ \A a \in DOMAIN r : t[a + 1] = r[a]

\* A list with one member in front.
LEMMA InFront ==
    ASSUME NEW V, NEW x \in V, NEW r \in Seq(V)
    PROVE  <<x>> \o r \in Seq(V) /\ Headed(<<x>> \o r, x, r)
<1>1. ASSUME NEW h \in Seq(V), Len(h) = 1
      PROVE  /\ h \o r \in Seq(V) /\ Len(h \o r) = Len(r) + 1 /\ (h \o r)[1] = h[1]
             /\ \A a \in DOMAIN r : (h \o r)[a + 1] = r[a]
    <2> DEFINE c == h \o r
    <2>1. c \in Seq(V) /\ Len(c) = Len(h) + Len(r) /\ DOMAIN r = 1..Len(r) /\ Len(r) \in Nat
        OBVIOUS
    <2>2. \A k \in 1..(Len(h) + Len(r)) : c[k] = IF k <= Len(h) THEN h[k] ELSE r[k - Len(h)]
        OBVIOUS
    <2> HIDE DEF c
    <2>3. c[1] = h[1] /\ Len(c) = Len(r) + 1
        BY <1>1, <2>1, <2>2
    <2>4. ASSUME NEW a \in DOMAIN r
          PROVE  c[a + 1] = r[a]
        <3>1. a + 1 \in 1..(Len(h) + Len(r)) /\ ~(a + 1 <= Len(h)) /\ (a + 1) - Len(h) = a
            BY <1>1, <2>1
        <3> QED
            BY <2>2, <3>1
    <2> QED
        BY <2>1, <2>3, <2>4 DEF c
<1>2. <<x>> \in Seq(V) /\ Len(<<x>>) = 1 /\ <<x>>[1] = x
    OBVIOUS
<1> QED
    BY <1>1, <1>2 DEF Headed

\* The watched rows lead; the others stay in their sections.
LEMMA SectionGroups ==
    ASSUME NEW items, Fresh(items)
    PROVE  LET U == FlattenSeq(UsualOf(items))
               ss == SectionsOf(items)
           IN /\ GroupsOf(U, items, DOMAIN items, NewsTag)
              /\ GroupsOf(ss[1], items, Kept(items, DOMAIN items, U, WatchedIn(U), NewsTag), NewsTag)
              /\ GroupsOf(FlattenSeq(ss), items, DOMAIN items, NewsTag)
<1> DEFINE usual == UsualOf(items)
           U == FlattenSeq(usual)
           ss == SectionsOf(items)
           K == Listed(items)
           D == DOMAIN items
           Rest(a) == {k \in DOMAIN usual[a] : ~usual[a][k].watched}
           L == [a \in 1..6 |-> IF a = 1 THEN Kept(items, D, U, WatchedIn(U), NewsTag)
                                ELSE Kept(items, K[a - 1], usual[a - 1], Rest(a - 1), NewsTag)]
<1>0. items \in Seq(ItemSet) /\ IsGroupKey(NewsTag)
    BY NewsTagIsKey DEF Fresh
<1>1. /\ usual \in Seq(Seq(ItemSet)) /\ Len(usual) = 5
      /\ \A a \in 1..5 : K[a] \in SUBSET D /\ GroupsOf(usual[a], items, K[a], NewsTag)
    BY UsualGroups
<1>2. Apart(items, K, 5, NewsTag) /\ FirstOf(K, 5) = D
    BY <1>0, ListedApart
<1>3. DOMAIN usual = 1..5 /\ \A a \in 1..5 : usual[a] \in Seq(ItemSet)
    <2> HIDE DEF usual
    <2>1. DOMAIN usual = 1..5
        BY <1>1
    <2>2. \A a \in DOMAIN usual : usual[a] \in Seq(ItemSet)
        BY <1>1, SeqElements
    <2> QED
        BY <2>1, <2>2
<1>4. /\ ss = <<Only(U, LAMBDA i : i.watched)>> \o [a \in 1..5 |-> UsualSection(usual[a])]
    BY <1>3 DEF SectionsOf
<1> HIDE DEF ss, usual, K
<1>5. GroupsOf(U, items, D, NewsTag)
    <2>1. GroupsOf(FlattenSeq(usual), items, FirstOf(K, 5), NewsTag)
        <3> DEFINE n == 5
        <3>1. n \in Nat \ {0} /\ Len(usual) = n /\ Apart(items, K, n, NewsTag)
              /\ \A a \in 1..n : K[a] \in SUBSET DOMAIN items /\ GroupsOf(usual[a], items, K[a], NewsTag)
            BY <1>1, <1>2
        <3> HIDE DEF n
        <3>2. GroupsOf(FlattenSeq(usual), items, FirstOf(K, n), NewsTag)
            BY <1>0, <1>1, <3>1, JoinAll
        <3> QED
            BY <3>2 DEF n
    <2> QED
        BY <1>2, <2>1
<1>6. U \in Seq(ItemSet)
    BY <1>5 DEF GroupsOf
<1>7. \A a \in 1..5 : \A l \in DOMAIN usual[a] : \E m \in DOMAIN U : U[m] = usual[a][l]
    <2> DEFINE n == 5
    <2>1. n \in Nat \ {0} /\ Len(usual) = n
        BY <1>1
    <2> HIDE DEF n
    <2>2. ASSUME NEW a \in 1..n, NEW l \in DOMAIN usual[a]
          PROVE  \E m \in DOMAIN FlattenSeq(usual) : FlattenSeq(usual)[m] = usual[a][l]
        <3>1. usual \in Seq(Seq(ItemSet))
            BY <1>1
        <3> QED
            BY ONLY <2>1, <2>2, <3>1, FlattenHas
    <2> QED
        BY <2>2 DEF n
<1> HIDE DEF U
<1>8. ss \in Seq(Seq(ItemSet)) /\ Len(ss) = 6 /\ ss[1] = Picked(U, WatchedIn(U))
      /\ \A a \in 1..5 : ss[a + 1] = Picked(usual[a], Rest(a))
    <2> DEFINE first == Picked(U, WatchedIn(U))
               rest == [a \in 1..5 |-> Picked(usual[a], Rest(a))]
    <2>1. Only(U, LAMBDA i : i.watched) = first
        BY DEF Only, WatchedIn
    <2>2. \A a \in 1..5 : UsualSection(usual[a]) = Picked(usual[a], Rest(a))
        BY DEF UsualSection, Only
    <2>3. ss = <<first>> \o rest
        <3>1. rest = [a \in 1..5 |-> UsualSection(usual[a])]
            BY <2>2
        <3> HIDE DEF rest, first
        <3> QED
            BY <1>4, <2>1, <3>1
    <2>4. first \in Seq(ItemSet)
        <3>1. WatchedIn(U) \subseteq DOMAIN U
            BY DEF WatchedIn
        <3> QED
            BY <1>6, <3>1, PickedOnto
    <2>5. \A a \in 1..5 : Picked(usual[a], Rest(a)) \in Seq(ItemSet)
        <3>1. \A a \in 1..5 : Rest(a) \subseteq DOMAIN usual[a] /\ usual[a] \in Seq(ItemSet)
            BY <1>3
        <3> HIDE DEF Rest
        <3> QED
            BY <3>1, PickedOnto
    <2> HIDE DEF first
    <2>6. rest \in Seq(Seq(ItemSet)) /\ Len(rest) = 5 /\ DOMAIN rest = 1..5
        BY <2>5
    <2>7. \A a \in 1..5 : rest[a] = Picked(usual[a], Rest(a))
        OBVIOUS
    <2> HIDE DEF rest
    <2>8. <<first>> \o rest \in Seq(Seq(ItemSet)) /\ Headed(<<first>> \o rest, first, rest)
        BY <2>4, <2>6, InFront
    <2>9. ss \in Seq(Seq(ItemSet)) /\ Len(ss) = 6 /\ ss[1] = first /\ \A a \in 1..5 : ss[a + 1] = rest[a]
        <3>1. Len(rest) + 1 = 6
            BY <2>6
        <3> QED
            BY <2>3, <2>6, <2>8, <3>1 DEF Headed
    <2> QED
        BY <2>7, <2>9 DEF first
<1>9. L[1] = Kept(items, D, U, WatchedIn(U), NewsTag)
      /\ \A a \in 1..5 : L[a + 1] = Kept(items, K[a], usual[a], Rest(a), NewsTag)
    <2>1. \A a \in 1..5 : a + 1 \in 1..6 /\ a + 1 # 1 /\ (a + 1) - 1 = a
        OBVIOUS
    <2> QED
        BY <2>1
<1> HIDE DEF L
<1>10. GroupsOf(ss[1], items, L[1], NewsTag)
    <2>1. WatchedIn(U) \in SUBSET DOMAIN U /\ WatchedIn(U) \subseteq DOMAIN U /\ D \in SUBSET DOMAIN items
        BY DEF WatchedIn
    <2> DEFINE new == Picked(U, WatchedIn(U))
               I == WatchedIn(U)
    <2>2. new \in Seq(ItemSet) /\ \E at : Onto(at, DOMAIN new, I) /\ \A k \in DOMAIN new : new[k] = U[at[k]]
        BY <1>6, <2>1, PickedOnto
    <2> HIDE DEF new, I, D
    <2>3. PICK at : Onto(at, DOMAIN new, I) /\ \A k \in DOMAIN new : new[k] = U[at[k]]
        BY <2>2
    <2>4. I \in SUBSET DOMAIN U
        BY <2>1 DEF I
    <2>5. GroupsOf(new, items, Kept(items, D, U, I, NewsTag), NewsTag)
        BY ONLY <1>0, <1>5, <2>1, <2>2, <2>3, <2>4, RowsPicked
    <2> QED
        BY <1>8, <1>9, <2>5 DEF new, I
<1>11. ASSUME NEW a \in 1..5
       PROVE  GroupsOf(ss[a + 1], items, L[a + 1], NewsTag)
    <2> DEFINE u == usual[a]
               I == Rest(a)
               new == Picked(u, I)
               A == K[a]
    <2>1. I \in SUBSET DOMAIN u /\ I \subseteq DOMAIN u /\ u \in Seq(ItemSet)
        BY <1>3
    <2>2. A \in SUBSET DOMAIN items /\ GroupsOf(u, items, A, NewsTag)
        BY <1>1
    <2> HIDE DEF u, I, A
    <2>3. new \in Seq(ItemSet) /\ \E at : Onto(at, DOMAIN new, I) /\ \A k \in DOMAIN new : new[k] = u[at[k]]
        BY ONLY <2>1, PickedOnto
    <2> HIDE DEF new
    <2>4. PICK at : Onto(at, DOMAIN new, I) /\ \A k \in DOMAIN new : new[k] = u[at[k]]
        BY <2>3
    <2>5. GroupsOf(new, items, Kept(items, A, u, I, NewsTag), NewsTag)
        BY ONLY <1>0, <2>1, <2>2, <2>3, <2>4, RowsPicked
    <2> QED
        <3>1. ss[a + 1] = new /\ L[a + 1] = Kept(items, A, u, I, NewsTag)
            BY <1>8, <1>9 DEF new, I, u, A
        <3> QED
            BY <2>5, <3>1
<1>12. \A a \in 1..6 : a = 1 \/ (a - 1 \in 1..5 /\ a = (a - 1) + 1)
    OBVIOUS
<1>13. \A a \in 1..6 : L[a] \in SUBSET DOMAIN items /\ GroupsOf(ss[a], items, L[a], NewsTag)
    <2>1. \A a \in 1..5 : K[a] \in SUBSET D
        BY <1>1
    <2>2. L[1] \in SUBSET DOMAIN items /\ \A a \in 1..5 : L[a + 1] \in SUBSET DOMAIN items
        BY <1>9, <2>1 DEF Kept
    <2>3. ASSUME NEW a \in 1..6
          PROVE  L[a] \in SUBSET DOMAIN items /\ GroupsOf(ss[a], items, L[a], NewsTag)
        <3>1. CASE a = 1
            BY <1>10, <2>2, <3>1
        <3>2. CASE a # 1
            <4> DEFINE b == a - 1
            <4>1. b \in 1..5 /\ a = b + 1
                BY <1>12, <3>2
            <4> HIDE DEF b
            <4> QED
                BY <1>11, <2>2, <4>1
        <3> QED
            BY <3>1, <3>2
    <2> QED
        BY <2>3
<1>14. \A k, l \in DOMAIN U : NewsTag[U[k]] = NewsTag[U[l]] => k = l
    BY <1>5 DEF GroupsOf
<1>15. ASSUME NEW a \in 1..5, NEW i \in L[1], NEW j \in L[a + 1], NewsTag[items[i]] = NewsTag[items[j]]
       PROVE  FALSE
    <2>1. PICK k \in WatchedIn(U) : NewsTag[U[k]] = NewsTag[items[i]]
        BY <1>9 DEF Kept
    <2>2. PICK l \in Rest(a) : NewsTag[usual[a][l]] = NewsTag[items[j]]
        BY <1>9 DEF Kept
    <2>3. PICK m \in DOMAIN U : U[m] = usual[a][l]
        BY <1>7
    <2>4. k \in DOMAIN U /\ U[k].watched
        BY DEF WatchedIn
    <2>5. k = m
        BY <1>14, <1>15, <2>1, <2>2, <2>3, <2>4
    <2> QED
        BY <2>3, <2>4, <2>5
<1>16. ASSUME NEW a \in 1..5, NEW b \in 1..5, a # b, NEW i \in L[a + 1], NEW j \in L[b + 1]
       PROVE  NewsTag[items[i]] # NewsTag[items[j]]
    <2>1. i \in K[a] /\ j \in K[b]
        BY <1>9 DEF Kept
    <2> QED
        BY <1>2, <1>16, <2>1 DEF Apart
<1>17. Apart(items, L, 6, NewsTag)
    <2>1. ASSUME NEW a \in 1..6, NEW b \in 1..6, a # b, NEW i \in L[a], NEW j \in L[b]
          PROVE  NewsTag[items[i]] # NewsTag[items[j]]
        <3> DEFINE c == a - 1
                   d == b - 1
        <3>1. (a = 1 \/ (c \in 1..5 /\ a = c + 1)) /\ (b = 1 \/ (d \in 1..5 /\ b = d + 1))
            BY <1>12
        <3> HIDE DEF c, d
        <3>2. CASE a = 1
            BY <1>15, <2>1, <3>1, <3>2
        <3>3. CASE b = 1
            BY <1>15, <2>1, <3>1, <3>3
        <3>4. CASE a # 1 /\ b # 1
            <4>1. c \in 1..5 /\ a = c + 1 /\ d \in 1..5 /\ b = d + 1 /\ c # d
                BY <2>1, <3>1, <3>4
            <4>2. i \in L[c + 1] /\ j \in L[d + 1]
                BY <4>1
            <4> QED
                BY <1>16, <4>1, <4>2
        <3> QED
            BY <3>2, <3>3, <3>4
    <2> QED
        BY <2>1 DEF Apart
<1>18. FirstOf(L, 6) = D
    <2>1. FirstOf(L, 6) \subseteq D
        BY <1>13 DEF FirstOf
    <2>2. ASSUME NEW i \in D
          PROVE  \E a \in 1..6 : i \in L[a]
        <3>1. PICK a \in 1..5 : i \in K[a]
            BY <1>2 DEF FirstOf
        <3>2. PICK l \in DOMAIN usual[a] : NewsTag[usual[a][l]] = NewsTag[items[i]]
            <4> DEFINE u == usual[a]
                       A == K[a]
            <4>1. GroupsOf(u, items, A, NewsTag) /\ i \in A
                BY <1>1, <3>1
            <4> HIDE DEF u, A
            <4>2. \E l \in DOMAIN u : NewsTag[u[l]] = NewsTag[items[i]]
                BY <4>1 DEF GroupsOf
            <4> QED
                BY <4>2 DEF u
        <3>3. PICK m \in DOMAIN U : U[m] = usual[a][l]
            BY <1>7
        <3>4. CASE U[m].watched
            <4>1. m \in WatchedIn(U)
                BY <3>4 DEF WatchedIn
            <4>2. i \in L[1]
                BY <1>9, <3>2, <3>3, <4>1 DEF Kept
            <4> QED
                BY <4>2
        <3>5. CASE ~U[m].watched
            <4>1. l \in Rest(a)
                BY <3>3, <3>5
            <4>2. i \in L[a + 1]
                BY <1>9, <3>1, <3>2, <4>1 DEF Kept
            <4>3. a + 1 \in 1..6
                OBVIOUS
            <4> QED
                BY <4>2, <4>3
        <3> QED
            BY <3>4, <3>5
    <2> QED
        BY <2>1, <2>2 DEF FirstOf
<1>19. GroupsOf(FlattenSeq(ss), items, D, NewsTag)
    <2> DEFINE n == 6
    <2>1. n \in Nat \ {0} /\ Len(ss) = n /\ Apart(items, L, n, NewsTag)
          /\ \A a \in 1..n : L[a] \in SUBSET DOMAIN items /\ GroupsOf(ss[a], items, L[a], NewsTag)
        BY <1>8, <1>13, <1>17
    <2> HIDE DEF n
    <2>2. GroupsOf(FlattenSeq(ss), items, FirstOf(L, n), NewsTag)
        BY <1>0, <1>8, <2>1, JoinAll
    <2> QED
        BY <1>18, <2>2 DEF n
<1> QED
    BY <1>5, <1>9, <1>10, <1>19 DEF ss, U, usual

-----------------------------------------------------------------------------
(* Digests.                                                                *)

\* The digest d of changes, with these items.
DigestOf(d, items) ==
    /\ d.sections = SectionsOf(items)
    /\ Len(d.change_ids) = Len(items) + d.minor_updates

\* A digest lists the items of its changes that are news.
LEMMA DigestIs ==
    ASSUME LogOK, NEW ids \in SUBSET Ids, NEW wl
    PROVE  \E items, at : ItemsOf(items, ids \cap News, wl, at) /\ DigestOf(BuildDigest(ids, log, stored, wl), items)
<1> DEFINE chosen == Chosen(ids, log)
           T == {id \in Ids : log[id].type # "baseline"}
           I == {i \in DOMAIN chosen : log[chosen[i]].type # "baseline"}
           changes == Picked(chosen, I)
           items == NewsItems(changes, log, stored, wl)
           d == BuildDigest(ids, log, stored, wl)
<1>1. ListOf(chosen, ids)
    BY ChosenIs
<1>2. Only(chosen, LAMBDA id : log[id].type # "baseline") = changes
    BY DEF Only
<1>3. d.sections = SectionsOf(items) /\ d.change_ids = changes /\ d.minor_updates = Len(changes) - Len(items)
    BY <1>2 DEF BuildDigest, SectionsOf, UsualOf
<1> HIDE DEF chosen, d
<1>4. \A i \in DOMAIN chosen : chosen[i] \in Ids
    BY <1>1 DEF ListOf, Onto
<1>5. I = {i \in DOMAIN chosen : chosen[i] \in T}
    BY <1>4
<1> DEFINE S == ids \cap T
<1>6. S \in SUBSET Ids /\ S \cap News = ids \cap News
    BY DEF News, IsNews
<1> HIDE DEF I, T
<1>7. ListOf(changes, S)
    BY <1>1, <1>5, ListedOnly
<1> HIDE DEF changes, S
<1>8. PICK at : ItemsOf(items, S \cap News, wl, at)
    BY <1>6, <1>7, NewsItemsAre
<1> HIDE DEF items
<1>9. Len(items) \in Nat /\ Len(changes) \in Nat
    <2>1. items \in Seq(ItemSet) /\ changes \in Seq(Nat)
        BY <1>7, <1>8 DEF ItemsOf, ListOf
    <2> QED
        BY <2>1
<1>10. DigestOf(d, items)
    BY <1>3, <1>9 DEF DigestOf
<1> QED
    BY <1>6, <1>8, <1>10 DEF d

\* Each of the rows stands for an item with its tag.
StandFor(rows, items, K, tag) ==
    \A k \in DOMAIN rows : \E i \in K : Stands(rows[k], items[i]) /\ tag[rows[k]] = tag[items[i]]

\* Rows stand for items.
LEMMA RowStands ==
    ASSUME NEW items \in Seq(ItemSet), NEW K \in SUBSET DOMAIN items, NEW tag, IsGroupKey(tag),
           NEW rows, GroupsOf(rows, items, K, tag)
    PROVE  StandFor(rows, items, K, tag)
<1>1. ASSUME NEW k \in DOMAIN rows
      PROVE  \E i \in K : Stands(rows[k], items[i]) /\ tag[rows[k]] = tag[items[i]]
    <2>1. PICK i \in K : Stands(rows[k], items[i])
        BY <1>1 DEF GroupsOf
    <2>2. rows \in Seq(ItemSet)
        BY DEF GroupsOf
    <2>3. rows[k] \in ItemSet /\ items[i] \in ItemSet
        BY <1>1, <2>2
    <2>4. rows[k].count \in Nat /\ rows[k] = [items[i] EXCEPT !.count = rows[k].count]
        BY <2>1, <2>3 DEF Stands, ItemSet
    <2>5. tag[rows[k]] = tag[items[i]]
        BY <2>3, <2>4 DEF IsGroupKey
    <2> QED
        BY <2>1, <2>5
<1> QED
    BY <1>1 DEF StandFor

\* A row has what its item has, except for the number.
LEMMA StandsHas ==
    ASSUME NEW v, NEW x \in ItemSet, Stands(v, x)
    PROVE  /\ v.id = x.id /\ v.type = x.type /\ v.title = x.title /\ v.venue = x.venue
           /\ v.to = x.to /\ v.start = x.start /\ v.watched = x.watched /\ v.movie = x.movie
BY DEF Stands, ItemSet

\* All news is in one row of the digest, which lists no other change.
LEMMA NewsListed ==
    ASSUME LogOK, NEW wl
    PROVE  LET digest == BuildDigest(Ids, log, stored, wl)
               rows == RowsOf(digest)
           IN /\ Counted(rows) = Cardinality(News)
              /\ \A r \in DOMAIN rows : rows[r].id \in News /\ \A q \in 1..(r - 1) : rows[q].id # rows[r].id
              /\ Len(digest.change_ids) = Counted(rows) + digest.minor_updates
<1> DEFINE d == BuildDigest(Ids, log, stored, wl)
           rows == RowsOf(d)
<1>1. News \in SUBSET News /\ News \subseteq Ids /\ Ids \cap News = News /\ Ids \in SUBSET Ids
    BY DEF News
<1>2. PICK items, at : ItemsOf(items, News, wl, at) /\ DigestOf(d, items)
    <2>1. \E items, at : ItemsOf(items, Ids \cap News, wl, at) /\ DigestOf(d, items)
        BY <1>1, DigestIs
    <2> QED
        BY <1>1, <2>1
<1>3. rows = FlattenSeq(SectionsOf(items)) /\ Len(d.change_ids) = Len(items) + d.minor_updates
    BY <1>2 DEF RowsOf, DigestOf
<1> HIDE DEF d, rows
<1>4. /\ Fresh(items) /\ at \in [DOMAIN items -> News]
      /\ \A k \in DOMAIN items : items[k].id = at[k]
      /\ Cardinality(DOMAIN items) = Cardinality(News) /\ Len(items) = Cardinality(News)
    BY <1>1, <1>2, ItemsAreFresh
<1>5. items \in Seq(ItemSet) /\ DOMAIN items \in SUBSET DOMAIN items /\ IsGroupKey(NewsTag)
    BY <1>4, NewsTagIsKey DEF Fresh
<1>6. GroupsOf(rows, items, DOMAIN items, NewsTag)
    BY <1>3, <1>4, SectionGroups
<1>7. Counted(rows) = Cardinality(News)
    BY <1>4, <1>5, <1>6, CountedIs
<1>8. ASSUME NEW r \in DOMAIN rows
      PROVE  \E i \in DOMAIN items : rows[r].id = items[i].id /\ NewsTag[rows[r]] = NewsTag[items[i]]
    <2>1. PICK i \in DOMAIN items : Stands(rows[r], items[i]) /\ NewsTag[rows[r]] = NewsTag[items[i]]
        <3>1. StandFor(rows, items, DOMAIN items, NewsTag)
            BY <1>5, <1>6, RowStands
        <3> QED
            BY <1>8, <3>1 DEF StandFor
    <2>2. items[i] \in ItemSet
        BY <1>5
    <2> QED
        BY <2>1, <2>2, StandsHas
<1>9. \A r \in DOMAIN rows : rows[r].id \in News
    BY <1>4, <1>8
<1>10. ASSUME NEW r \in DOMAIN rows, NEW q \in DOMAIN rows, rows[q].id = rows[r].id
       PROVE  q = r
    <2>1. PICK i \in DOMAIN items : rows[r].id = items[i].id /\ NewsTag[rows[r]] = NewsTag[items[i]]
        BY <1>8
    <2>2. PICK j \in DOMAIN items : rows[q].id = items[j].id /\ NewsTag[rows[q]] = NewsTag[items[j]]
        BY <1>8
    <2>3. i = j
        BY <1>4, <1>10, <2>1, <2>2 DEF Fresh
    <2>4. NewsTag[rows[q]] = NewsTag[rows[r]]
        BY <2>1, <2>2, <2>3
    <2> QED
        BY <1>6, <2>4 DEF GroupsOf
<1>11. \A r \in DOMAIN rows : \A q \in 1..(r - 1) : q \in DOMAIN rows /\ q # r
    <2>1. rows \in Seq(ItemSet)
        BY <1>6 DEF GroupsOf
    <2> QED
        BY <2>1
<1> QED
    BY <1>3, <1>4, <1>7, <1>9, <1>10, <1>11 DEF d, rows

\* The first section stands for all news that is watched.
LEMMA WatchedLed ==
    ASSUME LogOK, NEW wl, \A i \in DOMAIN stored : stored[i].raw.lineup \notin wl.keywords
    PROVE  Counted(BuildDigest(Ids, log, stored, wl).sections[1])
               = Cardinality({id \in News : Watched(stored[log[id].event].raw, wl)})
<1> DEFINE d == BuildDigest(Ids, log, stored, wl)
           N == {id \in News : Watched(stored[log[id].event].raw, wl)}
<1>1. News \in SUBSET News /\ News \subseteq Ids /\ Ids \cap News = News /\ Ids \in SUBSET Ids
    BY DEF News
<1>2. PICK items, at : ItemsOf(items, News, wl, at) /\ DigestOf(d, items)
    <2>1. \E items, at : ItemsOf(items, Ids \cap News, wl, at) /\ DigestOf(d, items)
        BY <1>1, DigestIs
    <2> QED
        BY <1>1, <2>1
<1>3. Fresh(items) /\ items \in Seq(ItemSet) /\ IsGroupKey(NewsTag)
    BY <1>1, <1>2, ItemsAreFresh, NewsTagIsKey DEF Fresh
<1> DEFINE U == FlattenSeq(UsualOf(items))
           first == SectionsOf(items)[1]
           D == DOMAIN items
           K == Kept(items, D, U, WatchedIn(U), NewsTag)
           W == {i \in D : items[i].watched}
<1>4. GroupsOf(U, items, D, NewsTag) /\ GroupsOf(first, items, K, NewsTag)
    BY <1>3, SectionGroups
<1>5. \A i : i \in K <=> i \in D /\ \E k \in DOMAIN U : U[k].watched /\ NewsTag[U[k]] = NewsTag[items[i]]
    BY DEF Kept, WatchedIn
<1> HIDE DEF U, K, d, first, N
<1>6. \A i \in D : items[i] \in ItemSet
    BY <1>3
<1>7. ASSUME NEW i \in D
      PROVE  /\ at[i] \in News /\ at[i] \in Ids
             /\ items[i].watched <=> items[i].venue \in wl.venues \/ items[i].title \in wl.keywords
             /\ items[i].watched = Watched(SubjectOf(at[i]), wl)
    <2>1. at[i] \in News /\ items[i] = ItemOf(at[i], wl)
        BY <1>2, <1>7 DEF ItemsOf, Onto
    <2>2. at[i] \in Ids
        BY <1>1, <2>1
    <2>3. /\ items[i].watched = Watched(SubjectOf(at[i]), wl)
          /\ items[i].title = SubjectOf(at[i]).title /\ items[i].venue = SubjectOf(at[i]).venue
        BY <2>1, <2>2, ItemIs
    <2>4. log[at[i]].event \in DOMAIN stored
        BY <2>2 DEF LogOK, Ids
    <2>5. SubjectOf(at[i]).lineup \notin wl.keywords
        BY <2>4 DEF SubjectOf
    <2>6. Watched(SubjectOf(at[i]), wl) <=> SubjectOf(at[i]).venue \in wl.venues \/ SubjectOf(at[i]).title \in wl.keywords
        BY <2>5 DEF Watched
    <2> QED
        BY <2>1, <2>2, <2>3, <2>6
<1>8. ASSUME NEW k \in DOMAIN U, NEW i \in D, NewsTag[U[k]] = NewsTag[items[i]]
      PROVE  U[k].watched = items[i].watched
    <2>1. PICK j \in D : Stands(U[k], items[j]) /\ NewsTag[U[k]] = NewsTag[items[j]]
        <3>1. D \in SUBSET DOMAIN items
            OBVIOUS
        <3> HIDE DEF D
        <3> QED
            BY <1>3, <1>4, <1>8, <3>1, RowStands DEF StandFor
    <2>2. items[i] \in ItemSet /\ items[j] \in ItemSet
        BY <1>6
    <2>3. U[k].watched = items[j].watched
        BY <2>1, <2>2, StandsHas
    <2>4. items[j].title = items[i].title /\ items[j].venue = items[i].venue
        <3> DEFINE v == items[j]
                   w == items[i]
        <3>1. v \in ItemSet /\ w \in ItemSet /\ NewsTag[v] = NewsTag[w]
            BY <1>8, <2>1, <2>2
        <3> HIDE DEF v, w
        <3>2. v.title = w.title /\ v.venue = w.venue
            BY <3>1, NewsTagIs
        <3> QED
            BY <3>2 DEF v, w
    <2>5. items[i].watched <=> items[j].watched
        BY <1>7, <2>4
    <2>6. items[i].watched \in BOOLEAN /\ items[j].watched \in BOOLEAN
        BY <2>2 DEF ItemSet
    <2> QED
        BY <2>3, <2>5, <2>6
<1>9. K = W
    <2>1. ASSUME NEW i \in D
          PROVE  \E k \in DOMAIN U : NewsTag[U[k]] = NewsTag[items[i]]
        BY <1>4, <2>1 DEF GroupsOf
    <2>2. \A i : i \in K <=> i \in W
        BY <1>5, <1>8, <2>1
    <2> HIDE DEF W
    <2> QED
        BY <2>2
<1>10. Counted(first) = Cardinality(K)
    <2>1. K \in SUBSET DOMAIN items
        BY <1>5
    <2> QED
        BY <1>3, <1>4, <2>1, CountedIs
<1>11. Cardinality(W) = Cardinality(N)
    <2>1. \A i \in D : i \in W <=> at[i] \in N
        BY <1>7 DEF N, SubjectOf
    <2>2. W \in SUBSET D /\ N \in SUBSET News
        BY DEF N
    <2>3. IsFiniteSet(D)
        <3> DEFINE n == Len(items)
        <3>1. n \in Nat /\ D = 1..n
            BY <1>3
        <3> HIDE DEF n, D
        <3> QED
            BY <3>1, FS_Interval
    <2>4. Onto(at, D, News)
        BY <1>2 DEF ItemsOf
    <2> HIDE DEF W, D
    <2> QED
        BY <2>1, <2>2, <2>3, <2>4, CountOnto
<1>12. d.sections[1] = first
    BY <1>2 DEF DigestOf, first
<1> QED
    BY <1>9, <1>10, <1>11, <1>12 DEF d, N

\* Every change that is news is in exactly one row of the digest; all others but the
\* baseline are the minor updates (notify/digest.py:62-135).
THEOREM NewsHasOneRow == Spec => []NewsIsListedOnce
<1>1. ViewsInv => NewsIsListedOnce
    BY NewsListed DEF ViewsInv, NewsIsListedOnce
<1> QED
    BY <1>1, ViewsInductive, PTL

\* News of what is watched leads the digest in a section of its own, also where
\* performances merge into one row (notify/digest.py:106-117).
THEOREM WatchedNewsLeads == Spec => []WatchedLeads
<1>1. ViewsInv => WatchedLeads
    BY WatchedLed DEF ViewsInv, WatchedLeads
<1> QED
    BY <1>1, ViewsInductive, PTL

-----------------------------------------------------------------------------
(* The feed.                                                               *)

\* The places of the items of a type.
TypeAt(items, t) == {i \in DOMAIN items : items[i].type = t}

\* The sections of the feed, which does not list the movies apart.
FeedRows(items) ==
    GroupItems(OfType(items, "added"), ShowKey)
    \o GroupItems(OfType(items, "ticket_status"), ShowAndStatus)
    \o OfType(items, "updated")
    \o GroupItems(OfType(items, "removed"), ShowKey)

\* No two new events of a show are a movie and something else.
OneKind(items) ==
    \A i, j \in TypeAt(items, "added") :
        items[i].title = items[j].title /\ items[i].venue = items[j].venue => items[i].movie = items[j].movie

\* The rows of the feed have one tag each, too.
LEMMA FeedGroups ==
    ASSUME NEW items, Fresh(items), OneKind(items)
    PROVE  GroupsOf(FeedRows(items), items, DOMAIN items, NewsTag)
<1> DEFINE A == TypeAt(items, "added")
           T == TypeAt(items, "ticket_status")
           U == TypeAt(items, "updated")
           R == TypeAt(items, "removed")
           a == GroupItems(OfType(items, "added"), ShowKey)
           t == GroupItems(OfType(items, "ticket_status"), ShowAndStatus)
           u == OfType(items, "updated")
           r == GroupItems(OfType(items, "removed"), ShowKey)
<1>0. items \in Seq(ItemSet) /\ IsGroupKey(NewsTag)
    BY NewsTagIsKey DEF Fresh
<1>1. \A i \in DOMAIN items : items[i] \in ItemSet /\ items[i].type \in Types \ {"baseline"}
    <2>1. \A i \in DOMAIN items : items[i] \in ItemSet
        BY <1>0
    <2> QED
        BY <2>1 DEF Fresh, ItemSet
<1>2. /\ A \in SUBSET DOMAIN items /\ T \in SUBSET DOMAIN items
      /\ U \in SUBSET DOMAIN items /\ R \in SUBSET DOMAIN items
    BY DEF TypeAt
<1>3. /\ \A i \in A : items[i].type = "added"
      /\ \A i \in T : items[i].type = "ticket_status"
      /\ \A i \in U : items[i].type = "updated"
      /\ \A i \in R : items[i].type = "removed"
    BY DEF TypeAt
<1>4. DOMAIN items = ((A \cup T) \cup U) \cup R
    <2>1. \A i : i \in DOMAIN items <=> i \in ((A \cup T) \cup U) \cup R
        BY <1>1 DEF TypeAt, Types
    <2> HIDE DEF A, T, U, R
    <2> QED
        BY <2>1
<1>5. /\ SubList(OfType(items, "added"), items, A) /\ SubList(OfType(items, "ticket_status"), items, T)
      /\ SubList(u, items, U) /\ SubList(OfType(items, "removed"), items, R)
    BY <1>0, OfTypeIs DEF TypeAt
<1>6. GroupsOf(a, items, A, NewsTag)
    <2>1. \A i, j \in A : items[i].type = items[j].type /\ items[i].type \in {"added", "removed"}
                          /\ (items[i].type = "added" /\ items[i].title = items[j].title
                                  /\ items[i].venue = items[j].venue => items[i].movie = items[j].movie)
        BY <1>3 DEF OneKind
    <2> DEFINE sub == OfType(items, "added")
    <2> HIDE DEF sub, A
    <2>2. GroupsOf(GroupItems(sub, ShowKey), items, A, NewsTag)
        BY <1>2, <1>5, <2>1, ShowSection DEF sub
    <2> QED
        BY <2>2 DEF sub
<1>7. GroupsOf(t, items, T, NewsTag)
    <2> DEFINE sub == OfType(items, "ticket_status")
    <2> HIDE DEF sub, T
    <2>1. GroupsOf(GroupItems(sub, ShowAndStatus), items, T, NewsTag)
        BY <1>2, <1>3, <1>5, StatusSection DEF sub
    <2> QED
        BY <2>1 DEF sub
<1>8. GroupsOf(u, items, U, NewsTag)
    <2> HIDE DEF u, U
    <2> QED
        BY <1>2, <1>3, <1>5, UpdatedSection
<1>9. GroupsOf(r, items, R, NewsTag)
    <2> DEFINE sub == OfType(items, "removed")
    <2>1. \A i, j \in R : items[i].type = items[j].type /\ items[i].type \in {"added", "removed"}
                          /\ (items[i].type = "added" /\ items[i].title = items[j].title
                                  /\ items[i].venue = items[j].venue => items[i].movie = items[j].movie)
        BY <1>3
    <2> HIDE DEF sub, R
    <2>2. GroupsOf(GroupItems(sub, ShowKey), items, R, NewsTag)
        BY <1>2, <1>5, <2>1, ShowSection DEF sub
    <2> QED
        BY <2>2 DEF sub
<1>10. ASSUME NEW i \in DOMAIN items, NEW j \in DOMAIN items, NewsTag[items[i]] = NewsTag[items[j]]
       PROVE  items[i].type = items[j].type
    <2>1. items[i] \in ItemSet /\ items[j] \in ItemSet
        BY <1>1
    <2> QED
        BY <1>10, <2>1, NewsTagIs
<1> DEFINE AT == A \cup T
           ATU == AT \cup U
<1>11. /\ \A i \in A, j \in T : NewsTag[items[i]] # NewsTag[items[j]]
       /\ \A i \in AT, j \in U : NewsTag[items[i]] # NewsTag[items[j]]
       /\ \A i \in ATU, j \in R : NewsTag[items[i]] # NewsTag[items[j]]
       /\ AT \in SUBSET DOMAIN items /\ ATU \in SUBSET DOMAIN items
    BY <1>2, <1>3, <1>10
<1> HIDE DEF A, T, U, R, a, t, u, r, AT, ATU
<1>12. GroupsOf(a \o t, items, AT, NewsTag)
    BY <1>0, <1>2, <1>6, <1>7, <1>11, JoinGroups DEF AT
<1>13. GroupsOf((a \o t) \o u, items, ATU, NewsTag)
    <2> DEFINE at == a \o t
    <2> HIDE DEF at
    <2>1. GroupsOf(at, items, AT, NewsTag)
        BY <1>12 DEF at
    <2>2. GroupsOf(at \o u, items, AT \cup U, NewsTag)
        BY ONLY <1>0, <1>2, <1>8, <1>11, <2>1, JoinGroups
    <2> QED
        BY <2>2 DEF at, ATU
<1>14. GroupsOf(((a \o t) \o u) \o r, items, ATU \cup R, NewsTag)
    <2> DEFINE atu == (a \o t) \o u
    <2> HIDE DEF atu
    <2>1. GroupsOf(atu, items, ATU, NewsTag)
        BY <1>13 DEF atu
    <2>2. GroupsOf(atu \o r, items, ATU \cup R, NewsTag)
        BY ONLY <1>0, <1>2, <1>9, <1>11, <2>1, JoinGroups
    <2> QED
        BY <2>2 DEF atu
<1> QED
    BY <1>4, <1>14 DEF FeedRows, a, t, u, r, ATU, AT

\* Two lists of the items of the same changes have the same rows.
LEMMA SameItems ==
    ASSUME LogOK, NEW S \in SUBSET News, NEW wl, NEW a, NEW p, ItemsOf(a, S, wl, p), NEW b, NEW q, ItemsOf(b, S, wl, q),
           NEW rows, GroupsOf(rows, a, DOMAIN a, NewsTag)
    PROVE  GroupsOf(rows, b, DOMAIN b, NewsTag)
<1>1. /\ a \in Seq(ItemSet) /\ Onto(p, DOMAIN a, S) /\ \A k \in DOMAIN a : a[k] = ItemOf(p[k], wl)
      /\ b \in Seq(ItemSet) /\ Onto(q, DOMAIN b, S) /\ \A k \in DOMAIN b : b[k] = ItemOf(q[k], wl)
    BY DEF ItemsOf
<1> DEFINE at == [k \in DOMAIN a |-> CHOOSE l \in DOMAIN b : q[l] = p[k]]
<1>2. ASSUME NEW k \in DOMAIN a
      PROVE  at[k] \in DOMAIN b /\ q[at[k]] = p[k]
    <2>1. \E l \in DOMAIN b : q[l] = p[k]
        BY <1>1 DEF Onto
    <2> QED
        BY <2>1
<1>3. at \in [DOMAIN a -> DOMAIN b]
    <2>1. \A k \in DOMAIN a : (CHOOSE l \in DOMAIN b : q[l] = p[k]) \in DOMAIN b
        BY <1>2
    <2> QED
        BY <2>1
<1> HIDE DEF at
<1>4. \A k, l \in DOMAIN a : at[k] = at[l] => k = l
    BY SMTT(30), <1>1, <1>2 DEF Onto
<1>5. ASSUME NEW l \in DOMAIN b
      PROVE  \E k \in DOMAIN a : at[k] = l
    <2>1. PICK k \in DOMAIN a : p[k] = q[l]
        BY <1>1 DEF Onto
    <2>2. at[k] \in DOMAIN b /\ q[at[k]] = q[l]
        BY <1>2, <2>1
    <2>3. at[k] = l
        BY <1>1, <2>2 DEF Onto
    <2> QED
        BY <2>3
<1>6. Onto(at, DOMAIN a, DOMAIN b)
    BY <1>3, <1>4, <1>5 DEF Onto
<1>7. \A k \in DOMAIN a : a[k] = b[at[k]]
    BY <1>1, <1>2
<1>8. IsFiniteSet(DOMAIN a)
    <2> DEFINE n == Len(a)
    <2>1. n \in Nat /\ DOMAIN a = 1..n
        BY <1>1
    <2> HIDE DEF n
    <2> QED
        BY <2>1, FS_Interval
<1> DEFINE K == DOMAIN b
<1>9. Onto(at, DOMAIN a, K)
    BY <1>6
<1> HIDE DEF K
<1>10. GroupsOf(rows, b, K, NewsTag)
    BY <1>7, <1>8, <1>9, MapGroups
<1> QED
    BY <1>10 DEF K

\* Rows for the same items tell a reader the same.
ToldOf(rows) == {Told(row) : row \in ToSet(rows)}

\* The rows of one list tell nothing that those of the other do not.
LEMMA ToldSame ==
    ASSUME LogOK, NEW S \in SUBSET News, NEW wl, NEW items, NEW at, ItemsOf(items, S, wl, at),
           NEW a, GroupsOf(a, items, DOMAIN items, NewsTag), NEW b, GroupsOf(b, items, DOMAIN items, NewsTag)
    PROVE  ToldOf(a) \subseteq ToldOf(b)
<1>1. /\ Fresh(items) /\ at \in [DOMAIN items -> S]
      /\ items \in Seq(ItemSet) /\ IsGroupKey(NewsTag)
    BY ItemsAreFresh, NewsTagIsKey DEF Fresh
<1>2. ASSUME NEW i \in DOMAIN items
      PROVE  /\ items[i] \in ItemSet /\ items[i].type \in Types \ {"baseline"}
             /\ items[i].type \in {"added", "removed"} => items[i].to = None
    <2>1. items[i] \in ItemSet
        BY <1>1
    <2>2. items[i].type \in Types \ {"baseline"}
        BY <1>1, <2>1 DEF Fresh, ItemSet
    <2>3. at[i] \in Ids /\ items[i] = ItemOf(at[i], wl)
        BY <1>1 DEF ItemsOf, News
    <2>4. items[i].type = log[at[i]].type /\ items[i].to = log[at[i]].to
        BY <2>3, ItemIs
    <2>5. EntryOK(log[at[i]])
        BY <2>3 DEF LogOK, Ids
    <2> QED
        BY <2>1, <2>2, <2>4, <2>5 DEF EntryOK
<1>3. \A k, l : (k \in DOMAIN a => a[k] \in ItemSet) /\ (l \in DOMAIN b => b[l] \in ItemSet)
    <2>1. a \in Seq(ItemSet) /\ b \in Seq(ItemSet)
        BY DEF GroupsOf
    <2> QED
        BY <2>1
<1>4. ASSUME NEW k \in DOMAIN a
      PROVE  \E l \in DOMAIN b : Told(a[k]) = Told(b[l])
    <2> DEFINE K == DOMAIN items
    <2>k. K \in SUBSET DOMAIN items
        OBVIOUS
    <2> HIDE DEF K
    <2>1. SameTold(a, b, items, K, NewsTag)
        <3>1. GroupsOf(a, items, K, NewsTag) /\ GroupsOf(b, items, K, NewsTag)
            BY DEF K
        <3> QED
            BY <1>1, <2>k, <3>1, SameGroups
    <2>2. PICK l \in DOMAIN b, i \in K, j \in K :
              /\ Stands(a[k], items[i]) /\ Stands(b[l], items[j]) /\ NewsTag[items[i]] = NewsTag[items[j]]
              /\ a[k].count = b[l].count /\ StartOrFirst(a[k]) = StartOrFirst(b[l])
        BY <1>4, <2>1 DEF SameTold
    <2> DEFINE v == items[i]
               w == items[j]
               x == a[k]
               y == b[l]
    <2>3. v \in ItemSet /\ w \in ItemSet /\ x \in ItemSet /\ y \in ItemSet
        BY <1>2, <1>3, <1>4 DEF K
    <2>4. /\ v.type \in Types \ {"baseline"}
          /\ v.type \in {"added", "removed"} => v.to = None
          /\ w.type \in {"added", "removed"} => w.to = None
        BY <1>2 DEF K
    <2>5. Stands(x, v) /\ Stands(y, w) /\ NewsTag[v] = NewsTag[w] /\ x.count = y.count /\ StartOrFirst(x) = StartOrFirst(y)
        BY <2>2
    <2>6. v.id = w.id => v = w
        BY <1>1 DEF Fresh, K
    <2> HIDE DEF v, w, x, y
    <2>7. /\ v.type = w.type /\ v.title = w.title /\ v.venue = w.venue
          /\ v.type = "ticket_status" => v.to = w.to
          /\ v.type = "updated" => v.id = w.id
        BY <2>3, <2>5, NewsTagIs
    <2>8. v.to = w.to
        BY <2>4, <2>6, <2>7 DEF Types
    <2>9. /\ x.id = v.id /\ x.type = v.type /\ x.title = v.title /\ x.venue = v.venue /\ x.to = v.to
        BY <2>3, <2>5, StandsHas
    <2>10. /\ y.id = w.id /\ y.type = w.type /\ y.title = w.title /\ y.venue = w.venue /\ y.to = w.to
        BY <2>3, <2>5, StandsHas
    <2>11. x.start = y.start
        <3>1. x.start \in Nat \cup {None} /\ y.start \in Nat \cup {None} /\ NoDate = None /\ NoDate \notin Int
            BY <2>3, ViewsAssumption, ListingAssumption DEF ItemSet
        <3>2. \A n \in Nat : n # -1 /\ n # NoDate
            BY <3>1
        <3> QED
            BY <2>5, <3>1, <3>2 DEF StartOrFirst
    <2>12. ShowKey(x) = ShowKey(y) /\ x.type = y.type /\ x.to = y.to /\ x.count = y.count
           /\ (x.type = "updated" => x.id = y.id)
        BY <2>5, <2>7, <2>8, <2>9, <2>10 DEF ShowKey
    <2>13. Told(x) = Told(y)
        BY <2>11, <2>12 DEF Told
    <2> QED
        BY <2>13 DEF x, y
<1>5. ASSUME NEW m \in ToldOf(a)
      PROVE  m \in ToldOf(b)
    <2>1. PICK k \in DOMAIN a : m = Told(a[k])
        BY DEF ToldOf, ToSet
    <2>2. PICK l \in DOMAIN b : Told(a[k]) = Told(b[l])
        BY <1>4
    <2> QED
        BY <2>1, <2>2 DEF ToldOf, ToSet
<1> QED
    BY <1>5

\* A day of the feed and the digest of that day.
LEMMA FeedTells ==
    ASSUME LogOK, NEW ids \in SUBSET Ids,
           \A i, j \in DOMAIN stored :
                /\ stored[i].raw.title = stored[j].raw.title
                /\ stored[i].raw.venue = stored[j].raw.venue
                => (stored[i].raw.kind = "movie" <=> stored[j].raw.kind = "movie")
    PROVE  ToldOf(FeedOf(ids, log, stored)) = ToldOf(RowsOf(BuildDigest(ids, log, stored, NoWatchlist)))
<1> DEFINE wl == NoWatchlist
           S == ids \cap News
           back == Reverse(Chosen(ids, log))
           items == NewsItems(back, log, stored, wl)
           feed == FeedOf(ids, log, stored)
           d == BuildDigest(ids, log, stored, wl)
           rows == RowsOf(d)
<1>1. feed = FeedRows(items)
    BY DEF FeedOf, FeedRows
<1> HIDE DEF wl
<1>2. PICK told, q : ItemsOf(told, S, wl, q) /\ DigestOf(d, told)
    BY DigestIs
<1>3. rows = FlattenSeq(SectionsOf(told))
    BY <1>2 DEF RowsOf, DigestOf
<1>4. ListOf(back, ids)
    BY ChosenIs, ListedReverse
<1> HIDE DEF back, feed, d, rows
<1>5. PICK p : ItemsOf(items, S, wl, p)
    BY <1>4, NewsItemsAre
<1> HIDE DEF items
<1>6. S \in SUBSET News /\ S \subseteq Ids
    BY DEF News
<1> HIDE DEF S
<1>7. Fresh(items) /\ Fresh(told)
    BY <1>2, <1>5, <1>6, ItemsAreFresh
<1>8. OneKind(items)
    <2>1. ASSUME NEW i \in DOMAIN items
          PROVE  \E e \in DOMAIN stored : /\ items[i].title = stored[e].raw.title /\ items[i].venue = stored[e].raw.venue
                                          /\ items[i].movie = (stored[e].raw.kind = "movie")
        <3>1. p[i] \in S /\ items[i] = ItemOf(p[i], wl)
            BY <1>5, <2>1 DEF ItemsOf, Onto
        <3>2. p[i] \in Ids
            BY <1>6, <3>1
        <3>3. log[p[i]].event \in DOMAIN stored
            BY <3>2 DEF LogOK, Ids
        <3>4. /\ items[i].title = SubjectOf(p[i]).title /\ items[i].venue = SubjectOf(p[i]).venue
              /\ items[i].movie = (SubjectOf(p[i]).kind = "movie")
            BY <3>1, <3>2, ItemIs
        <3> QED
            BY <3>3, <3>4 DEF SubjectOf
    <2>2. ASSUME NEW i \in DOMAIN items, NEW j \in DOMAIN items,
                 items[i].title = items[j].title, items[i].venue = items[j].venue
          PROVE  items[i].movie = items[j].movie
        <3>1. PICK e \in DOMAIN stored : /\ items[i].title = stored[e].raw.title /\ items[i].venue = stored[e].raw.venue
                                         /\ items[i].movie = (stored[e].raw.kind = "movie")
            BY <2>1
        <3>2. PICK f \in DOMAIN stored : /\ items[j].title = stored[f].raw.title /\ items[j].venue = stored[f].raw.venue
                                         /\ items[j].movie = (stored[f].raw.kind = "movie")
            BY <2>1
        <3>3. stored[e].raw.kind = "movie" <=> stored[f].raw.kind = "movie"
            BY <2>2, <3>1, <3>2
        <3> QED
            BY <3>1, <3>2, <3>3
    <2> QED
        BY <2>2 DEF OneKind, TypeAt
<1>9. GroupsOf(feed, told, DOMAIN told, NewsTag)
    <2>1. GroupsOf(feed, items, DOMAIN items, NewsTag)
        BY <1>1, <1>7, <1>8, FeedGroups
    <2> QED
        BY <1>2, <1>5, <1>6, <2>1, SameItems
<1>10. GroupsOf(rows, told, DOMAIN told, NewsTag)
    BY <1>3, <1>7, SectionGroups
<1>11. ToldOf(feed) \subseteq ToldOf(rows) /\ ToldOf(rows) \subseteq ToldOf(feed)
    BY <1>2, <1>6, <1>9, <1>10, ToldSame
<1> QED
    BY <1>11 DEF feed, rows, d, wl

\* The feed tells a day as a digest of that day would, though it reads the log backwards
\* (changes.py:3-5), as long as no show is a movie and a concert at once.
THEOREM FeedAgreesWithDigest == Spec => []FeedMatchesDigest
<1>1. ViewsInv => FeedMatchesDigest
    <2> SUFFICES ASSUME LogOK,
                        \A i, j \in DOMAIN stored :
                            /\ stored[i].raw.title = stored[j].raw.title
                            /\ stored[i].raw.venue = stored[j].raw.venue
                            => (stored[i].raw.kind = "movie" <=> stored[j].raw.kind = "movie")
                 PROVE  LET feed == Feed(log, stored)
                            told(rows) == {Told(row) : row \in ToSet(rows)}
                        IN /\ \A day \in DOMAIN feed :
                                LET ids == {id \in Ids : Today(log[id].at) = day}
                                IN told(feed[day]) = told(RowsOf(BuildDigest(ids, log, stored, NoWatchlist)))
                           /\ \A id \in News : Today(log[id].at) \in DOMAIN feed
        BY DEF ViewsInv, FeedMatchesDigest
    <2> DEFINE feed == Feed(log, stored)
               on(day) == {id \in Ids : Today(log[id].at) = day}
    <2>1. /\ DOMAIN feed = {Today(log[id].at) : id \in News}
          /\ \A day \in DOMAIN feed : feed[day] = FeedOf(on(day), log, stored)
        BY DEF Feed, DetectedOn, Ids, News
    <2> HIDE DEF feed
    <2>2. ASSUME NEW day \in DOMAIN feed
          PROVE  ToldOf(feed[day]) = ToldOf(RowsOf(BuildDigest(on(day), log, stored, NoWatchlist)))
        <3> DEFINE ids == on(day)
        <3>1. ids \in SUBSET Ids /\ feed[day] = FeedOf(ids, log, stored)
            BY <2>1
        <3> HIDE DEF ids
        <3>2. ToldOf(FeedOf(ids, log, stored)) = ToldOf(RowsOf(BuildDigest(ids, log, stored, NoWatchlist)))
            BY <3>1, FeedTells
        <3> QED
            BY <3>1, <3>2 DEF ids
    <2>3. \A id \in News : Today(log[id].at) \in DOMAIN feed
        BY <2>1
    <2> QED
        BY <2>2, <2>3 DEF ToldOf, feed
<1> QED
    BY <1>1, ViewsInductive, PTL

-----------------------------------------------------------------------------
(* Pages.                                                                  *)

\* The entries of a section.
Entries(sec) == [i \in DOMAIN sec.rows |-> [label |-> sec.label, row |-> sec.rows[i]]]

EntryLists(secs) == [s \in DOMAIN secs |-> Entries(secs[s])]

EntryOf(L, R) == [label : L, row : R]

WithEntry(sec, entry) == [sec EXCEPT !.rows = Append(@, entry.row)]

SectionWith(entry) == [label |-> entry.label, rows |-> <<entry.row>>]

\* A section has the entries that it is made of.
LEMMA EntriesAre ==
    ASSUME NEW L, NEW R, NEW sec \in SectionOf(L, R)
    PROVE  /\ Entries(sec) \in Seq(EntryOf(L, R)) /\ Len(Entries(sec)) = Len(sec.rows)
           /\ \A i \in 1..Len(sec.rows) : Entries(sec)[i] = [label |-> sec.label, row |-> sec.rows[i]]
<1> DEFINE rows == sec.rows
           n == Len(rows)
<1>1. sec.label \in L /\ rows \in Seq(R)
    BY DEF SectionOf
<1>2. n \in Nat /\ DOMAIN rows = 1..n /\ \A i \in 1..n : rows[i] \in R
    BY <1>1
<1>3. Entries(sec) = [i \in 1..n |-> [label |-> sec.label, row |-> rows[i]]]
    BY <1>2 DEF Entries
<1> HIDE DEF n, rows
<1>4. \A i \in 1..n : [label |-> sec.label, row |-> rows[i]] \in EntryOf(L, R)
    BY <1>1, <1>2 DEF EntryOf
<1>5. Entries(sec) \in Seq(EntryOf(L, R)) /\ Len(Entries(sec)) = n
    BY <1>2, <1>3, <1>4
<1> QED
    BY <1>3, <1>5 DEF n, rows

\* The entries of a new section,
LEMMA EntriesOfOne ==
    ASSUME NEW L, NEW R, NEW entry \in EntryOf(L, R)
    PROVE  Entries(SectionWith(entry)) = <<entry>>
<1>1. entry = [label |-> entry.label, row |-> entry.row]
    BY DEF EntryOf
<1>2. DOMAIN <<entry.row>> = 1..1 /\ <<entry.row>>[1] = entry.row
    OBVIOUS
<1>3. Entries(SectionWith(entry)) = [i \in 1..1 |-> entry]
    BY <1>1, <1>2 DEF Entries, SectionWith
<1>4. [i \in 1..1 |-> entry] = <<entry>>
    OBVIOUS
<1> QED
    BY <1>3, <1>4

\* and of one that has an entry more.
LEMMA EntriesMore ==
    ASSUME NEW L, NEW R, NEW sec \in SectionOf(L, R), NEW entry \in EntryOf(L, R), sec.label = entry.label
    PROVE  Entries(WithEntry(sec, entry)) = Append(Entries(sec), entry)
<1> DEFINE rows == sec.rows
           n == Len(rows)
           more == Append(rows, entry.row)
           new == WithEntry(sec, entry)
           old == Entries(sec)
           E == EntryOf(L, R)
<1>1. entry.row \in R /\ entry = [label |-> entry.label, row |-> entry.row]
    BY DEF EntryOf
<1>2. rows \in Seq(R) /\ sec = [label |-> sec.label, rows |-> rows]
    BY DEF SectionOf
<1>3. new.label = entry.label /\ new.rows = more /\ new \in SectionOf(L, R)
    <2>1. sec.label \in L /\ more \in Seq(R) /\ new = [label |-> sec.label, rows |-> more]
        BY SMTT(30), <1>1, <1>2 DEF WithEntry, SectionOf
    <2> HIDE DEF more, new
    <2> QED
        BY <2>1 DEF SectionOf
<1>4. n \in Nat /\ Len(more) = n + 1 /\ more[n + 1] = entry.row /\ \A i \in 1..n : more[i] = rows[i]
    BY <1>1, <1>2
<1>5. /\ old \in Seq(E) /\ Len(old) = n
      /\ \A i \in 1..n : old[i] = [label |-> entry.label, row |-> rows[i]]
    BY EntriesAre
<1> DEFINE w == Entries(new)
           x == Append(old, entry)
<1>6. /\ w \in Seq(E) /\ Len(w) = Len(new.rows)
      /\ \A i \in 1..Len(new.rows) : w[i] = [label |-> new.label, row |-> new.rows[i]]
    <2> HIDE DEF new
    <2> QED
        BY ZenonT(30), <1>3, EntriesAre
<1> HIDE DEF more, new, old, w, rows, n, E
<1>7. /\ x \in Seq(E) /\ Len(x) = n + 1 /\ x[n + 1] = entry /\ \A i \in 1..n : x[i] = old[i]
    <2>1. entry \in E
        BY DEF E
    <2> QED
        BY <1>5, <2>1
<1> HIDE DEF x
<1>8. \A i \in 1..(n + 1) : x[i] = w[i]
    <2>1. \A i \in 1..(n + 1) : i \in 1..n \/ i = n + 1
        BY <1>4
    <2>2. \A i \in 1..(n + 1) : w[i] = [label |-> entry.label, row |-> more[i]]
        BY <1>3, <1>4, <1>6
    <2> QED
        <3>1. ASSUME NEW i \in 1..n PROVE x[i] = w[i]
            <4>1. i \in 1..(n + 1)
                BY <1>4
            <4>2. x[i] = [label |-> entry.label, row |-> rows[i]] /\ more[i] = rows[i]
                BY <1>4, <1>5, <1>7
            <4> QED
                BY <2>2, <4>1, <4>2
        <3>2. x[n + 1] = w[n + 1]
            <4>1. n + 1 \in 1..(n + 1)
                BY <1>4
            <4>2. w[n + 1] = [label |-> entry.label, row |-> more[n + 1]]
                BY <2>2, <4>1
            <4> QED
                BY <1>1, <1>4, <1>7, <4>2
        <3> QED
            BY <2>1, <3>1, <3>2
<1>9. Len(w) = n + 1
    BY <1>3, <1>4, <1>6
<1>10. x = w
    BY <1>6, <1>7, <1>8, <1>9
<1> QED
    BY <1>10 DEF x, w, new, old

\* One entry more comes last.
LEMMA JoinedEntries ==
    ASSUME NEW L, NEW R, NEW u \in Seq(SectionOf(L, R)), NEW entry \in EntryOf(L, R)
    PROVE  /\ EntryLists(u) \in Seq(Seq(EntryOf(L, R)))
           /\ FlattenSeq(EntryLists(Joined(u, entry))) = Append(FlattenSeq(EntryLists(u)), entry)
<1> DEFINE ss == EntryLists(u)
           v == Joined(u, entry)
           E == EntryOf(L, R)
<1>2. \A s \in DOMAIN u : u[s] \in SectionOf(L, R)
    BY SeqElements
<1>3. ss \in Seq(Seq(E)) /\ DOMAIN ss = DOMAIN u /\ Len(ss) = Len(u) /\ \A s \in DOMAIN u : ss[s] = Entries(u[s])
    <2>1. \A s \in 1..Len(u) : Entries(u[s]) \in Seq(E)
        BY <1>2, EntriesAre
    <2> HIDE DEF E
    <2> QED
        BY <2>1 DEF EntryLists
<1>4. CASE u # << >> /\ Last(u).label = entry.label
    <2>1. Len(u) \in DOMAIN u
        BY <1>4
    <2>2. v = [u EXCEPT ![Len(u)].rows = Append(@, entry.row)] /\ u[Len(u)].label = entry.label
        BY <1>4 DEF Joined, Last
    <2>3. v = [u EXCEPT ![Len(u)] = [u[Len(u)] EXCEPT !.rows = Append(@, entry.row)]]
        BY <2>2
    <2>4. DOMAIN v = DOMAIN u /\ (\A s \in DOMAIN u : s # Len(u) => v[s] = u[s])
          /\ v[Len(u)] = WithEntry(u[Len(u)], entry)
        BY <2>1, <2>3 DEF WithEntry
    <2>5. Entries(v[Len(u)]) = Append(Entries(u[Len(u)]), entry)
        <3> DEFINE sec == u[Len(u)]
        <3>1. sec \in SectionOf(L, R) /\ sec.label = entry.label
            BY <1>2, <2>1, <2>2
        <3> HIDE DEF sec
        <3>2. Entries(WithEntry(sec, entry)) = Append(Entries(sec), entry)
            BY <3>1, EntriesMore
        <3> QED
            BY <2>4, <3>2 DEF sec
    <2> HIDE DEF v, ss, E
    <2>6. EntryLists(v) = [ss EXCEPT ![Len(ss)] = Append(@, entry)]
        BY <1>3, <2>1, <2>4, <2>5 DEF EntryLists
    <2>7. ss # << >> /\ entry \in E
        BY <1>3, <2>1 DEF E
    <2>8. FlattenSeq([ss EXCEPT ![Len(ss)] = Append(@, entry)]) = Append(FlattenSeq(ss), entry)
        BY <1>3, <2>7, FlattenMore
    <2> QED
        BY <1>3, <2>6, <2>8 DEF v, ss, E
<1>5. CASE ~(u # << >> /\ Last(u).label = entry.label)
    <2> DEFINE sec == [label |-> entry.label, rows |-> <<entry.row>>]
    <2>1. v = Append(u, sec)
        BY <1>5 DEF Joined
    <2>2. Len(v) = Len(u) + 1 /\ DOMAIN v = 1..(Len(u) + 1) /\ v[Len(u) + 1] = sec
          /\ \A s \in 1..Len(u) : v[s] = u[s]
        BY <2>1
    <2>3. Entries(sec) = <<entry>>
        BY EntriesOfOne DEF SectionWith
    <2> HIDE DEF v, ss, sec, E
    <2>4. EntryLists(v) = Append(ss, <<entry>>)
        <3> DEFINE tt == Append(ss, <<entry>>)
        <3>1. DOMAIN tt = 1..(Len(u) + 1) /\ tt[Len(u) + 1] = <<entry>> /\ \A s \in 1..Len(u) : tt[s] = ss[s]
            BY <1>3
        <3>2. tt = [s \in DOMAIN tt |-> tt[s]]
            OBVIOUS
        <3> HIDE DEF tt
        <3>3. \A s \in 1..(Len(u) + 1) : tt[s] = Entries(v[s])
            <4>1. \A s \in 1..(Len(u) + 1) : s \in 1..Len(u) \/ s = Len(u) + 1
                OBVIOUS
            <4>2. \A s \in 1..Len(u) : s \in DOMAIN u /\ tt[s] = Entries(v[s])
                BY <1>3, <2>2, <3>1
            <4>3. tt[Len(u) + 1] = Entries(v[Len(u) + 1])
                BY <2>2, <2>3, <3>1
            <4> QED
                BY <4>1, <4>2, <4>3
        <3>4. EntryLists(v) = tt
            BY <2>2, <3>1, <3>2, <3>3 DEF EntryLists
        <3> QED
            BY <3>4 DEF tt
    <2>5. FlattenSeq(Append(ss, <<entry>>)) = Append(FlattenSeq(ss), entry)
        <3>1. entry \in E
            BY DEF E
        <3> QED
            BY <1>3, <3>1, FlattenMore
    <2> QED
        BY <1>3, <2>4, <2>5 DEF v, ss, E
<1> QED
    BY <1>4, <1>5

\* Entries that were grouped are found again by the pages.
LEMMA FlatGrouped ==
    ASSUME NEW L, NEW R, NEW e \in Seq(EntryOf(L, R))
    PROVE  Flat(Grouped(e)) = e
<1> DEFINE n == Len(e)
           E == EntryOf(L, R)
           upTo(k) == [i \in 1..k |-> e[i]]
<1>1. n \in Nat /\ e = [i \in 1..n |-> e[i]] /\ \A k \in 1..n : e[k] \in E
    <2>1. \A k \in DOMAIN e : e[k] \in E
        BY SeqElements
    <2> QED
        BY <2>1
<1>2. PICK h : /\ h \in [0..n -> Seq(SectionOf(L, R))]
               /\ h[0] = << >>
               /\ \A k \in 1..n : h[k] = Joined(h[k - 1], e[k])
               /\ h[n] = Grouped(e)
    BY GroupedRun DEF EntryOf
<1> HIDE DEF n
<1> DEFINE J == {k \in 0..n : FlattenSeq(EntryLists(h[k])) = upTo(k)}
<1>3. 0 \in J
    <2>1. EntryLists(h[0]) = << >>
        BY <1>2 DEF EntryLists
    <2>2. FlattenSeq(<< >>) = << >>
        BY DEF FlattenSeq
    <2> QED
        BY <1>1, <2>1, <2>2
<1>4. ASSUME NEW k \in 0..(n - 1), k \in J
      PROVE  k + 1 \in J
    <2>1. k + 1 \in 1..n /\ (k + 1) - 1 = k /\ k \in 0..n /\ k + 1 \in 0..n /\ k \in Nat
        BY <1>1
    <2>2. h[k + 1] = Joined(h[k], e[k + 1]) /\ h[k] \in Seq(SectionOf(L, R)) /\ e[k + 1] \in E
        BY <1>1, <1>2, <2>1
    <2>3. FlattenSeq(EntryLists(h[k + 1])) = Append(upTo(k), e[k + 1])
        <3>1. FlattenSeq(EntryLists(h[k])) = upTo(k)
            BY <1>4
        <3> HIDE DEF upTo
        <3> QED
            BY <2>2, <3>1, JoinedEntries
    <2>4. \A i \in 1..(k + 1) : e[i] \in E
        BY <1>1, <2>1
    <2>5. Append(upTo(k), e[k + 1]) = upTo(k + 1)
        <3> HIDE DEF E
        <3> QED
            BY <2>1, <2>4
    <2> QED
        BY <2>1, <2>3, <2>5
<1>5. n \in J
    <2> HIDE DEF J
    <2>1. 0..n \subseteq J
        BY <1>1, <1>3, <1>4, UpTo
    <2> QED
        BY <1>1, <2>1
<1>6. Flat(Grouped(e)) = FlattenSeq(EntryLists(Grouped(e)))
    BY DEF Flat, EntryLists, Labelled, Entries
<1> QED
    BY <1>1, <1>2, <1>5, <1>6 DEF n

\* Whether an entry continues the last section.
Continues(u, entry) == u # << >> /\ u[Len(u)].label = entry.label

\* The section that an entry is put into comes last.
GetsEntry(v, u, entry) ==
    /\ v # << >> /\ v[Len(v)].label = entry.label
    /\ Continues(u, entry) => /\ Len(v) = Len(u) /\ v[Len(u)] = WithEntry(u[Len(u)], entry)
                              /\ \A s \in 1..(Len(u) - 1) : v[s] = u[s]
    /\ ~Continues(u, entry) => /\ Len(v) = Len(u) + 1 /\ v[Len(u) + 1] = SectionWith(entry)
                               /\ \A s \in 1..Len(u) : v[s] = u[s]

\* Which section an entry is put into.
LEMMA JoinedIs ==
    ASSUME NEW L, NEW R, NEW u \in Seq(SectionOf(L, R)), NEW entry \in EntryOf(L, R)
    PROVE  Joined(u, entry) \in Seq(SectionOf(L, R)) /\ GetsEntry(Joined(u, entry), u, entry)
<1> DEFINE v == Joined(u, entry)
<1>1. v \in Seq(SectionOf(L, R))
    BY JoinedKind DEF EntryOf
<1>2. CASE Continues(u, entry)
    <2>1. Len(u) \in DOMAIN u /\ u[Len(u)].label = entry.label /\ Len(u) \in Nat \ {0}
        BY <1>2 DEF Continues
    <2>2. v = [u EXCEPT ![Len(u)] = WithEntry(u[Len(u)], entry)]
        BY <1>2 DEF Joined, Last, Continues, WithEntry
    <2> DEFINE sec == u[Len(u)]
    <2>3. sec \in [label : L, rows : Seq(R)]
        BY <2>1, SeqElements DEF SectionOf
    <2>4. WithEntry(sec, entry).label = sec.label
        <3> HIDE DEF sec
        <3> QED
            BY <2>3 DEF WithEntry
    <2>5. Len(v) = Len(u) /\ v[Len(u)] = WithEntry(sec, entry) /\ \A s \in 1..(Len(u) - 1) : v[s] = u[s]
        <3>1. \A s \in 1..(Len(u) - 1) : s \in DOMAIN u /\ s # Len(u)
            OBVIOUS
        <3> QED
            BY <2>1, <2>2, <3>1
    <2>6. v # << >>
        BY <2>1, <2>5
    <2> QED
        BY <1>1, <1>2, <2>1, <2>4, <2>5, <2>6 DEF GetsEntry
<1>3. CASE ~Continues(u, entry)
    <2>1. v = Append(u, SectionWith(entry))
        BY <1>3 DEF Joined, Last, Continues, SectionWith
    <2>2. Len(v) = Len(u) + 1 /\ v[Len(u) + 1] = SectionWith(entry) /\ \A s \in 1..Len(u) : v[s] = u[s]
        BY <2>1
    <2>3. SectionWith(entry).label = entry.label
        BY DEF SectionWith
    <2>4. v # << >>
        BY <2>1
    <2> QED
        BY <1>1, <1>3, <2>2, <2>3, <2>4 DEF GetsEntry
<1> QED
    BY <1>2, <1>3

\* The sections j are those of all and then of g; where c = 1, the first section of g
\* continues the last one of all.
LongerBy(sec, more) == [sec EXCEPT !.rows = @ \o more.rows]

Stuck(j, all, g, c) ==
    /\ Len(j) = (Len(all) + Len(g)) - c
    /\ \A i \in 1..(Len(all) - c) : j[i] = all[i]
    /\ c = 1 => j[Len(all)] = LongerBy(all[Len(all)], g[1])
    /\ \A i \in (1 + c)..Len(g) : j[(Len(all) - c) + i] = g[i]

CanStick(all, g, c) ==
    /\ c \in {0, 1} /\ g # << >>
    /\ c = 1 => all # << >> /\ all[Len(all)].label = g[1].label

\* Only one list is such a join.
LEMMA StuckOnce ==
    ASSUME NEW L, NEW R, NEW all \in Seq(SectionOf(L, R)), NEW g \in Seq(SectionOf(L, R)), NEW c, CanStick(all, g, c),
           NEW j \in Seq(SectionOf(L, R)), NEW k \in Seq(SectionOf(L, R)), Stuck(j, all, g, c), Stuck(k, all, g, c)
    PROVE  j = k
<1> DEFINE A == Len(all)
           G == Len(g)
           n == Len(j)
<1>1. A \in Nat /\ G \in Nat /\ n \in Nat /\ c \in {0, 1} /\ n = (A + G) - c /\ Len(k) = n
    BY DEF Stuck, CanStick
<1>2. /\ \A i \in 1..(A - c) : j[i] = all[i] /\ k[i] = all[i]
      /\ c = 1 => j[A] = k[A]
      /\ \A i \in (1 + c)..G : j[(A - c) + i] = k[(A - c) + i]
    BY DEF Stuck
<1> HIDE DEF A, G
<1>3. ASSUME NEW i \in 1..n
      PROVE  j[i] = k[i]
    <2> HIDE DEF n
    <2>1. CASE i <= A - c
        BY <1>1, <1>2, <2>1
    <2>2. CASE i > A - c /\ (c = 0 \/ i > A)
        <3> DEFINE m == i - (A - c)
        <3>1. m \in (1 + c)..G /\ (A - c) + m = i
            BY <1>1, <2>2
        <3> HIDE DEF m
        <3> QED
            BY <1>2, <3>1
    <2>3. CASE c = 1 /\ i = A
        BY <1>2, <2>3
    <2>4. i \in Nat /\ (i <= A - c \/ (i > A - c /\ (c = 0 \/ i > A)) \/ (c = 1 /\ i = A))
        BY <1>1
    <2> QED
        BY <2>1, <2>2, <2>3, <2>4
<1> QED
    BY <1>1, <1>3

\* The last section of a join.
LEMMA StuckLast ==
    ASSUME NEW L, NEW R, NEW all \in Seq(SectionOf(L, R)), NEW g \in Seq(SectionOf(L, R)), NEW c, CanStick(all, g, c),
           NEW j \in Seq(SectionOf(L, R)), Stuck(j, all, g, c)
    PROVE  /\ j # << >> /\ Len(j) \in Nat \ {0} /\ Len(g) \in Nat \ {0} /\ j[Len(j)].label = g[Len(g)].label
           /\ ~(c = 1 /\ Len(g) = 1) => j[Len(j)] = g[Len(g)]
           /\ c = 1 /\ Len(g) = 1 => Len(j) = Len(all)
<1>1. /\ Len(all) \in Nat /\ Len(g) \in Nat \ {0} /\ c \in {0, 1} /\ Len(j) = (Len(all) + Len(g)) - c
      /\ c = 1 => Len(all) \in Nat \ {0} /\ Len(all) \in DOMAIN all
    BY DEF Stuck, CanStick
<1>2. Len(j) \in Nat \ {0}
    BY <1>1
<1>3. CASE c = 1 /\ Len(g) = 1
    <2> DEFINE sec == all[Len(all)]
    <2>1. sec \in [label : L, rows : Seq(R)]
        BY <1>1, <1>3, SeqElements DEF SectionOf
    <2>2. Len(j) = Len(all) /\ j[Len(all)] = LongerBy(sec, g[1]) /\ sec.label = g[1].label
        BY <1>1, <1>3 DEF Stuck, CanStick
    <2> HIDE DEF sec
    <2>3. LongerBy(sec, g[1]).label = sec.label
        BY <2>1 DEF LongerBy
    <2> QED
        BY <1>1, <1>2, <1>3, <2>2, <2>3
<1>4. CASE ~(c = 1 /\ Len(g) = 1)
    <2>1. Len(g) \in (1 + c)..Len(g) /\ (Len(all) - c) + Len(g) = Len(j)
        <3> DEFINE A == Len(all)
                   G == Len(g)
                   n == Len(j)
        <3>1. A \in Nat /\ G \in Nat \ {0} /\ c \in {0, 1} /\ n = (A + G) - c /\ ~(c = 1 /\ G = 1)
            BY <1>1, <1>4
        <3> HIDE DEF A, G, n
        <3>2. G \in (1 + c)..G /\ (A - c) + G = n
            BY <3>1
        <3> QED
            BY <3>2 DEF A, G, n
    <2>2. j[(Len(all) - c) + Len(g)] = g[Len(g)]
        BY <2>1 DEF Stuck
    <2> QED
        BY <1>1, <1>2, <1>4, <2>1, <2>2
<1> QED
    BY <1>3, <1>4

\* A section with other rows.
LEMMA NewRows ==
    ASSUME NEW L, NEW R, NEW sec \in SectionOf(L, R), NEW rows
    PROVE  [sec EXCEPT !.rows = rows] = [label |-> sec.label, rows |-> rows]
BY DEF SectionOf

\* A section with one entry more,
LEMMA WithEntryIs ==
    ASSUME NEW L, NEW R, NEW sec \in SectionOf(L, R), NEW entry
    PROVE  WithEntry(sec, entry) = [label |-> sec.label, rows |-> Append(sec.rows, entry.row)]
<1> DEFINE rows == Append(sec.rows, entry.row)
<1>1. WithEntry(sec, entry) = [sec EXCEPT !.rows = rows]
    BY DEF WithEntry
<1> HIDE DEF rows
<1>2. WithEntry(sec, entry) = [label |-> sec.label, rows |-> rows]
    BY <1>1, NewRows
<1> QED
    BY <1>2 DEF rows

\* and one with the rows of another.
LEMMA LongerByIs ==
    ASSUME NEW L, NEW R, NEW sec \in SectionOf(L, R), NEW more
    PROVE  LongerBy(sec, more) = [label |-> sec.label, rows |-> sec.rows \o more.rows]
<1> DEFINE rows == sec.rows \o more.rows
<1>1. LongerBy(sec, more) = [sec EXCEPT !.rows = rows]
    BY DEF LongerBy
<1> HIDE DEF rows
<1>2. LongerBy(sec, more) = [label |-> sec.label, rows |-> rows]
    BY <1>1, NewRows
<1> QED
    BY <1>2 DEF rows

\* A row more at the end of the second part.
LEMMA LongerByMore ==
    ASSUME NEW L, NEW R, NEW a \in SectionOf(L, R), NEW b \in SectionOf(L, R), NEW entry \in EntryOf(L, R)
    PROVE  /\ WithEntry(LongerBy(a, b), entry) = LongerBy(a, WithEntry(b, entry))
           /\ LongerBy(a, b) \in SectionOf(L, R)
<1> DEFINE p == a.rows
           q == b.rows
           x == entry.row
           m == LongerBy(a, b)
           w == WithEntry(b, entry)
<1>1. p \in Seq(R) /\ q \in Seq(R) /\ x \in R /\ a.label \in L
    BY DEF SectionOf, EntryOf
<1>2. m = [label |-> a.label, rows |-> p \o q] /\ w = [label |-> b.label, rows |-> Append(q, x)]
    BY LongerByIs, WithEntryIs
<1>3. LongerBy(a, w) = [label |-> a.label, rows |-> p \o w.rows]
    BY LongerByIs
<1> HIDE DEF p, q, x, m, w
<1>4. p \o Append(q, x) = Append(p \o q, x) /\ p \o q \in Seq(R)
    BY <1>1
<1>5. m \in SectionOf(L, R)
    BY <1>1, <1>2, <1>4 DEF SectionOf
<1>6. WithEntry(m, entry) = [label |-> m.label, rows |-> Append(m.rows, x)]
    BY <1>5, WithEntryIs DEF x
<1>7. WithEntry(m, entry) = LongerBy(a, w)
    BY <1>2, <1>3, <1>4, <1>6
<1> QED
    BY <1>5, <1>7 DEF m, w

\* One entry more for the second part.
LEMMA StuckMore ==
    ASSUME NEW L, NEW R, NEW all \in Seq(SectionOf(L, R)), NEW g \in Seq(SectionOf(L, R)), NEW c, CanStick(all, g, c),
           NEW j \in Seq(SectionOf(L, R)), Stuck(j, all, g, c), NEW entry \in EntryOf(L, R)
    PROVE  CanStick(all, Joined(g, entry), c) /\ Stuck(Joined(j, entry), all, Joined(g, entry), c)
<1> DEFINE A == Len(all)
           G == Len(g)
           n == Len(j)
           j2 == Joined(j, entry)
           g2 == Joined(g, entry)
<1>1. /\ A \in Nat /\ G \in Nat \ {0} /\ c \in {0, 1} /\ n \in Nat \ {0} /\ n = (A + G) - c
      /\ j # << >> /\ g # << >> /\ j[n].label = g[G].label
      /\ c = 1 => A \in Nat \ {0} /\ all # << >> /\ all[A].label = g[1].label /\ j[A] = LongerBy(all[A], g[1])
                  /\ A \in DOMAIN all
      /\ ~(c = 1 /\ G = 1) => j[n] = g[G]
    <2>1. /\ j # << >> /\ Len(j) \in Nat \ {0} /\ Len(g) \in Nat \ {0} /\ j[Len(j)].label = g[Len(g)].label
          /\ ~(c = 1 /\ Len(g) = 1) => j[Len(j)] = g[Len(g)]
        BY StuckLast
    <2>2. A \in Nat /\ c \in {0, 1} /\ n = (A + G) - c /\ g # << >>
        BY DEF Stuck, CanStick
    <2>3. c = 1 => all # << >> /\ all[A].label = g[1].label /\ j[A] = LongerBy(all[A], g[1])
        BY DEF Stuck, CanStick
    <2>4. all # << >> => A \in Nat \ {0} /\ A \in DOMAIN all
        OBVIOUS
    <2> HIDE DEF A
    <2> QED
        BY <2>1, <2>2, <2>3, <2>4
<1>2. /\ \A i \in 1..(A - c) : j[i] = all[i]
      /\ \A i \in (1 + c)..G : j[(A - c) + i] = g[i]
    BY DEF Stuck
<1>3. Continues(j, entry) <=> Continues(g, entry)
    BY <1>1 DEF Continues
<1>4. /\ j2 \in Seq(SectionOf(L, R)) /\ j2 # << >>
      /\ Continues(j, entry) => /\ Len(j2) = n /\ j2[n] = WithEntry(j[n], entry)
                                /\ \A s \in 1..(n - 1) : j2[s] = j[s]
      /\ ~Continues(j, entry) => /\ Len(j2) = n + 1 /\ j2[n + 1] = SectionWith(entry)
                                 /\ \A s \in 1..n : j2[s] = j[s]
    BY ONLY SMTT(30), JoinedIs DEF GetsEntry
<1>5. /\ g2 \in Seq(SectionOf(L, R)) /\ g2 # << >>
      /\ Continues(g, entry) => /\ Len(g2) = G /\ g2[G] = WithEntry(g[G], entry)
                                /\ \A s \in 1..(G - 1) : g2[s] = g[s]
      /\ ~Continues(g, entry) => /\ Len(g2) = G + 1 /\ g2[G + 1] = SectionWith(entry)
                                 /\ \A s \in 1..G : g2[s] = g[s]
    BY ONLY JoinedIs DEF GetsEntry
<1>6. c = 1 => all[A] \in SectionOf(L, R)
    BY <1>1, SeqElements
<1>7. g[1] \in SectionOf(L, R) /\ g[G] \in SectionOf(L, R)
    <2>1. 1 \in DOMAIN g /\ G \in DOMAIN g
        BY <1>1
    <2> QED
        BY <2>1, SeqElements
<1>8. \A sec \in SectionOf(L, R) : WithEntry(sec, entry).label = sec.label
    BY DEF SectionOf, WithEntry
<1> HIDE DEF A, G, n, j2, g2
<1>9. CASE Continues(g, entry) /\ c = 1 /\ G = 1
    <2>1. n = A /\ j2[A] = WithEntry(LongerBy(all[A], g[1]), entry) /\ g2[1] = WithEntry(g[1], entry)
          /\ Len(j2) = A /\ Len(g2) = 1
        BY <1>1, <1>3, <1>4, <1>5, <1>9
    <2>2. j2[A] = LongerBy(all[A], g2[1])
        BY <1>6, <1>7, <1>9, <2>1, LongerByMore
    <2>3. g2[1].label = g[1].label
        BY <1>7, <1>8, <2>1
    <2>4. \A i \in 1..(A - 1) : j2[i] = all[i]
        BY <1>1, <1>2, <1>3, <1>4, <1>9, <2>1
    <2>5. Len(j2) = (Len(all) + Len(g2)) - c
        BY <1>1, <1>9, <2>1 DEF A
    <2>6. \A i \in (1 + c)..Len(g2) : FALSE
        BY <1>9, <2>1
    <2>7. Stuck(j2, all, g2, c)
        BY <1>9, <2>2, <2>4, <2>5, <2>6 DEF Stuck, A
    <2> QED
        BY <1>1, <1>5, <2>3, <2>7 DEF CanStick, j2, g2, A
<1>10. CASE Continues(g, entry) /\ ~(c = 1 /\ G = 1)
    <2>1. /\ Len(j2) = n /\ j2[n] = WithEntry(j[n], entry) /\ \A s \in 1..(n - 1) : j2[s] = j[s]
          /\ Len(g2) = G /\ g2[G] = WithEntry(g[G], entry) /\ \A s \in 1..(G - 1) : g2[s] = g[s]
        BY <1>3, <1>4, <1>5, <1>10
    <2>2. j2[n] = g2[G]
        BY <1>1, <1>10, <2>1
    <2>3. A - c \in Int /\ A - c <= n - 1 /\ (c = 1 => A \in 1..(n - 1) /\ 1 \in 1..(G - 1))
        BY <1>1, <1>10
    <2>4. \A i \in 1..(A - c) : j2[i] = all[i]
        BY <1>1, <1>2, <2>1, <2>3
    <2>5. c = 1 => j2[A] = LongerBy(all[A], g2[1]) /\ g2[1] = g[1]
        BY <1>1, <2>1, <2>3
    <2>6. ASSUME NEW i \in (1 + c)..G
          PROVE  j2[(A - c) + i] = g2[i]
        <3>1. CASE i = G
            BY <1>1, <2>2, <3>1
        <3>2. CASE i # G
            <4>1. i \in 1..(G - 1) /\ (A - c) + i \in 1..(n - 1)
                BY <1>1, <2>6, <3>2
            <4>2. j2[(A - c) + i] = j[(A - c) + i] /\ g2[i] = g[i]
                BY <2>1, <4>1
            <4> QED
                BY <1>2, <4>2
        <3> QED
            BY <3>1, <3>2
    <2>7. Stuck(j2, all, g2, c)
        BY <1>1, <2>1, <2>4, <2>5, <2>6 DEF Stuck, A
    <2> QED
        BY <1>1, <1>5, <2>5, <2>7 DEF CanStick, j2, g2, A
<1>11. CASE ~Continues(g, entry)
    <2>1. /\ Len(j2) = n + 1 /\ j2[n + 1] = SectionWith(entry) /\ \A s \in 1..n : j2[s] = j[s]
          /\ Len(g2) = G + 1 /\ g2[G + 1] = SectionWith(entry) /\ \A s \in 1..G : g2[s] = g[s]
        BY <1>3, <1>4, <1>5, <1>11
    <2>2. A - c \in Int /\ A - c <= n /\ (c = 1 => A \in 1..n) /\ 1 \in 1..G
        BY <1>1
    <2>3. \A i \in 1..(A - c) : j2[i] = all[i]
        BY <1>1, <1>2, <2>1, <2>2
    <2>4. c = 1 => j2[A] = LongerBy(all[A], g2[1])
        BY <1>1, <2>1, <2>2
    <2>5. ASSUME NEW i \in (1 + c)..(G + 1)
          PROVE  j2[(A - c) + i] = g2[i]
        <3>1. CASE i = G + 1
            <4>1. (A - c) + i = n + 1
                BY <1>1, <3>1
            <4> QED
                BY <2>1, <3>1, <4>1
        <3>2. CASE i # G + 1
            <4>1. i \in 1..G /\ i \in (1 + c)..G /\ (A - c) + i \in 1..n
                BY <1>1, <2>5, <3>2
            <4>2. j2[(A - c) + i] = j[(A - c) + i] /\ g2[i] = g[i]
                BY <2>1, <4>1
            <4> QED
                BY <1>2, <4>1, <4>2
        <3> QED
            BY <3>1, <3>2
    <2>6. Len(j2) = (A + Len(g2)) - c
        BY <1>1, <2>1
    <2>7. Stuck(j2, all, g2, c)
        BY <2>1, <2>3, <2>4, <2>5, <2>6 DEF Stuck, A
    <2>8. g2[1] = g[1]
        BY <2>1, <2>2
    <2> QED
        BY <1>1, <1>5, <2>7, <2>8 DEF CanStick, j2, g2, A
<1> QED
    BY <1>9, <1>10, <1>11

\* The first entry of the second part.
LEMMA StuckStart ==
    ASSUME NEW L, NEW R, NEW all \in Seq(SectionOf(L, R)), NEW entry \in EntryOf(L, R),
           NEW c, c = IF Continues(all, entry) THEN 1 ELSE 0
    PROVE  CanStick(all, Joined(<< >>, entry), c) /\ Stuck(Joined(all, entry), all, Joined(<< >>, entry), c)
<1> DEFINE A == Len(all)
           j == Joined(all, entry)
           g == Joined(<< >>, entry)
           s == SectionWith(entry)
<1>1. g = <<s>>
    BY DEF Joined, SectionWith
<1>2. Len(g) = 1 /\ g[1] = s /\ g # << >> /\ s.label = entry.label /\ s.rows = <<entry.row>>
    BY <1>1 DEF SectionWith
<1>3. /\ Continues(all, entry) => /\ Len(j) = A /\ j[A] = WithEntry(all[A], entry)
                                  /\ \A i \in 1..(A - 1) : j[i] = all[i]
      /\ ~Continues(all, entry) => /\ Len(j) = A + 1 /\ j[A + 1] = s
                                   /\ \A i \in 1..A : j[i] = all[i]
    BY JoinedIs DEF GetsEntry
<1>4. A \in Nat
    OBVIOUS
<1> HIDE DEF g, j, s
<1>5. CASE Continues(all, entry)
    <2>1. all # << >> /\ all[A].label = entry.label /\ A \in DOMAIN all /\ A \in Nat \ {0} /\ c = 1
        BY <1>5 DEF Continues
    <2>2. all[A] \in SectionOf(L, R)
        BY <2>1, SeqElements
    <2>3. WithEntry(all[A], entry) = LongerBy(all[A], s)
        <3> DEFINE sec == all[A]
                   x == entry.row
        <3>1. sec \in SectionOf(L, R) /\ s.rows = <<x>>
            BY <1>2, <2>2
        <3> HIDE DEF sec, x
        <3>2. WithEntry(sec, entry) = [label |-> sec.label, rows |-> Append(sec.rows, x)]
            BY <3>1, WithEntryIs DEF x
        <3>3. LongerBy(sec, s) = [label |-> sec.label, rows |-> sec.rows \o <<x>>]
            BY <3>1, LongerByIs
        <3>4. Append(sec.rows, x) = sec.rows \o <<x>>
            <4>1. sec.rows \in Seq(R) /\ x \in R
                BY <3>1 DEF SectionOf, EntryOf, x
            <4> QED
                BY <4>1
        <3> QED
            BY <3>2, <3>3, <3>4 DEF sec
    <2>4. \A i \in (1 + c)..Len(g) : FALSE
        BY <1>2, <2>1
    <2>5. Len(j) = (Len(all) + Len(g)) - c
        BY <1>2, <1>3, <1>5, <2>1
    <2>6. Stuck(j, all, g, c)
        BY <1>2, <1>3, <1>5, <2>1, <2>3, <2>4, <2>5 DEF Stuck
    <2> QED
        BY <1>2, <2>1, <2>6 DEF CanStick, j, g
<1>6. CASE ~Continues(all, entry)
    <2>1. c = 0 /\ Len(j) = A + 1 /\ j[A + 1] = s /\ \A i \in 1..A : j[i] = all[i]
        BY <1>3, <1>6
    <2>2. \A i \in (1 + c)..Len(g) : j[(A - c) + i] = g[i]
        <3>1. \A i \in (1 + c)..Len(g) : i = 1 /\ (A - c) + i = A + 1
            BY <1>2, <1>4, <2>1
        <3> QED
            BY <1>2, <2>1, <3>1
    <2>3. Len(j) = (A + Len(g)) - c /\ A - c = A
        BY <1>2, <1>4, <2>1
    <2>4. Stuck(j, all, g, c)
        BY <2>1, <2>2, <2>3 DEF Stuck
    <2> QED
        BY <1>2, <2>1, <2>4 DEF CanStick, j, g
<1> QED
    BY <1>5, <1>6

\* The latter is a section again.
LEMMA LongerByKind ==
    ASSUME NEW L, NEW R, NEW a \in SectionOf(L, R), NEW b \in SectionOf(L, R)
    PROVE  LongerBy(a, b) \in SectionOf(L, R)
<1>1. LongerBy(a, b) = [label |-> a.label, rows |-> a.rows \o b.rows]
    BY LongerByIs
<1>2. a.label \in L /\ a.rows \in Seq(R) /\ b.rows \in Seq(R)
    BY DEF SectionOf
<1>3. a.rows \o b.rows \in Seq(R)
    BY <1>2
<1> QED
    BY <1>1, <1>2, <1>3 DEF SectionOf

\* A page is put there with its sections.
LEMMA PageKind ==
    ASSUME NEW L, NEW R, NEW all \in Seq(SectionOf(L, R)), NEW g \in Seq(SectionOf(L, R)),
           NEW continued \in BOOLEAN, continued => g # << >>
    PROVE  JoinedPage(all, g, continued) \in Seq(SectionOf(L, R))
<1>1. CASE ~continued
    BY <1>1 DEF JoinedPage
<1>2. CASE continued
    <2> DEFINE x == [all EXCEPT ![Len(all)].rows = @ \o Head(g).rows]
    <2>1. Tail(g) \in Seq(SectionOf(L, R)) /\ Head(g) = g[1] /\ g[1] \in SectionOf(L, R)
        <3>1. 1 \in DOMAIN g
            BY <1>2
        <3> QED
            BY <1>2, <3>1, SeqElements
    <2>2. x \in Seq(SectionOf(L, R))
        <3>1. CASE all = << >>
            <4>1. Len(all) \notin DOMAIN all
                BY <3>1
            <4>2. x = [i \in DOMAIN all |-> all[i]]
                BY <4>1
            <4>3. all = [i \in DOMAIN all |-> all[i]]
                OBVIOUS
            <4> QED
                BY <4>2, <4>3
        <3>2. CASE all # << >>
            <4>1. Len(all) \in DOMAIN all
                BY <3>2
            <4>2. all[Len(all)] \in SectionOf(L, R)
                BY <4>1, SeqElements
            <4>3. LongerBy(all[Len(all)], g[1]) \in SectionOf(L, R)
                BY <2>1, <4>2, LongerByKind
            <4>4. x = [all EXCEPT ![Len(all)] = LongerBy(all[Len(all)], g[1])]
                BY <2>1 DEF LongerBy
            <4> HIDE DEF x
            <4> QED
                BY <4>1, <4>3, <4>4
        <3> QED
            BY <3>1, <3>2
    <2>3. JoinedPage(all, g, continued) = x \o Tail(g)
        BY <1>2 DEF JoinedPage
    <2> HIDE DEF x
    <2> QED
        BY <2>1, <2>2, <2>3
<1> QED
    BY <1>1, <1>2

\* A page that is put after others continues their last section where it says so.
LEMMA PageIs ==
    ASSUME NEW L, NEW R, NEW all \in Seq(SectionOf(L, R)), NEW g \in Seq(SectionOf(L, R)),
           NEW continued \in BOOLEAN, NEW c, c = IF continued THEN 1 ELSE 0, CanStick(all, g, c)
    PROVE  Stuck(JoinedPage(all, g, continued), all, g, c)
<1> DEFINE A == Len(all)
           G == Len(g)
           j == JoinedPage(all, g, continued)
<1>1. A \in Nat /\ G \in Nat \ {0} /\ DOMAIN all = 1..A /\ DOMAIN g = 1..G
    BY DEF CanStick
<1>2. CASE ~continued
    <2>1. j = all \o g /\ c = 0
        BY <1>2 DEF JoinedPage
    <2>2. /\ Len(all \o g) = A + G /\ \A i \in 1..A : (all \o g)[i] = all[i]
          /\ \A i \in 1..G : (all \o g)[A + i] = g[i]
        <3>1. /\ \A k \in DOMAIN all : k \in DOMAIN (all \o g) /\ (all \o g)[k] = all[k]
              /\ \A k \in DOMAIN g : k + Len(all) \in DOMAIN (all \o g) /\ (all \o g)[k + Len(all)] = g[k]
            BY Concatenated
        <3>2. Len(all \o g) = A + G
            OBVIOUS
        <3>3. \A i \in 1..G : i + A = A + i
            BY <1>1
        <3> QED
            BY <1>1, <3>1, <3>2, <3>3
    <2> HIDE DEF j
    <2>3. Len(j) = (A + G) - c /\ A - c = A /\ 1 + c = 1 /\ c # 1
        BY <1>1, <2>1, <2>2
    <2>4. \A i \in 1..(A - c) : j[i] = all[i]
        BY <2>1, <2>2, <2>3
    <2>5. \A i \in (1 + c)..G : j[(A - c) + i] = g[i]
        BY <2>1, <2>2, <2>3
    <2> QED
        BY <2>3, <2>4, <2>5 DEF Stuck, j
<1>3. CASE continued
    <2> DEFINE x == [all EXCEPT ![A].rows = @ \o Head(g).rows]
               t == Tail(g)
    <2>1. c = 1 /\ all # << >> /\ A \in DOMAIN all /\ A \in Nat \ {0}
        BY <1>3 DEF CanStick
    <2>2. j = x \o t
        BY <1>3 DEF JoinedPage
    <2>3. Head(g) = g[1] /\ t \in Seq(SectionOf(L, R)) /\ Len(t) = G - 1 /\ \A i \in 1..(G - 1) : t[i] = g[i + 1]
        BY <1>1
    <2>4. x = [all EXCEPT ![A] = LongerBy(all[A], g[1])]
        BY <2>3 DEF LongerBy
    <2>5. all[A] \in SectionOf(L, R) /\ g[1] \in SectionOf(L, R)
        <3>1. 1 \in DOMAIN g
            BY <1>1
        <3> QED
            BY <2>1, <3>1, SeqElements
    <2>6. LongerBy(all[A], g[1]) \in SectionOf(L, R)
        BY <2>5, LongerByKind
    <2> HIDE DEF x, t, j
    <2>7. /\ x \in Seq(SectionOf(L, R)) /\ Len(x) = A /\ x[A] = LongerBy(all[A], g[1])
          /\ \A i \in 1..(A - 1) : x[i] = all[i]
        <3> HIDE DEF A
        <3>1. \A i \in 1..(A - 1) : i \in DOMAIN all /\ i # A
            BY <1>1
        <3>2. x \in Seq(SectionOf(L, R)) /\ DOMAIN x = DOMAIN all /\ x[A] = LongerBy(all[A], g[1])
              /\ \A i \in DOMAIN all : i # A => x[i] = all[i]
            BY <2>1, <2>4, <2>6
        <3>3. Len(x) = A
            BY <1>1, <3>2
        <3> QED
            BY <3>1, <3>2, <3>3
    <2>8. /\ \A k \in DOMAIN x : k \in DOMAIN (x \o t) /\ (x \o t)[k] = x[k]
          /\ \A k \in DOMAIN t : k + Len(x) \in DOMAIN (x \o t) /\ (x \o t)[k + Len(x)] = t[k]
        BY SMTT(30), <2>3, <2>7, Concatenated
    <2>9. Len(j) = A + (G - 1)
        <3>1. Len(x \o t) = Len(x) + Len(t)
            <4>1. ASSUME NEW y \in Seq(SectionOf(L, R)), NEW z \in Seq(SectionOf(L, R))
                  PROVE  Len(y \o z) = Len(y) + Len(z)
                OBVIOUS
            <4> QED
                BY <2>3, <2>7, <4>1
        <3> QED
            BY <2>2, <2>3, <2>7, <3>1
    <2>10. DOMAIN x = 1..A /\ DOMAIN t = 1..(G - 1)
        BY <2>3, <2>7
    <2> HIDE DEF A, G
    <2>11. \A i \in 1..(A - 1) : j[i] = all[i]
        <3>1. \A i \in 1..(A - 1) : i \in 1..A
            BY <1>1
        <3> QED
            BY <2>2, <2>7, <2>8, <2>10, <3>1
    <2>12. j[A] = LongerBy(all[A], g[1])
        <3>1. A \in 1..A
            BY <2>1
        <3> QED
            BY <2>2, <2>7, <2>8, <2>10, <3>1
    <2>13. ASSUME NEW i \in 2..G
           PROVE  j[(A - 1) + i] = g[i]
        <3> DEFINE k == i - 1
        <3>1. k \in 1..(G - 1) /\ k + A = (A - 1) + i /\ k + 1 = i
            BY <1>1
        <3> HIDE DEF k
        <3>2. (x \o t)[k + A] = t[k] /\ t[k] = g[k + 1]
            BY <2>3, <2>7, <2>8, <2>10, <3>1
        <3> QED
            BY <2>2, <3>1, <3>2
    <2>14. Len(j) = (A + G) - 1 /\ 1 + 1 = 2
        BY <1>1, <2>9
    <2>15. Len(j) = (A + G) - c /\ 1 + c = 2 /\ A - c = A - 1
        BY <2>1, <2>14
    <2> QED
        BY <2>11, <2>12, <2>13, <2>15 DEF Stuck, A, G, j
<1> QED
    BY <1>2, <1>3

\* The sections of the first entries of e, for each number of them.
IsGrouping(h, e, S) ==
    /\ h \in [0..Len(e) -> S]
    /\ h[0] = << >>
    /\ \A k \in 1..Len(e) : h[k] = Joined(h[k - 1], e[k])

\* Sections are grouped from their entries one by one.
LEMMA GroupedSteps ==
    ASSUME NEW L, NEW R, NEW e \in Seq(EntryOf(L, R))
    PROVE  \E h : IsGrouping(h, e, Seq(SectionOf(L, R))) /\ h[Len(e)] = Grouped(e)
<1>1. PICK h : /\ h \in [0..Len(e) -> Seq(SectionOf(L, R))]
               /\ h[0] = << >>
               /\ \A k \in 1..Len(e) : h[k] = Joined(h[k - 1], e[k])
               /\ h[Len(e)] = Grouped(e)
    BY GroupedRun DEF EntryOf
<1> QED
    BY <1>1 DEF IsGrouping

\* The page with entries a + 1 to b continues what the entries before it make.
LEMMA PageContinues ==
    ASSUME NEW L, NEW R, NEW e \in Seq(EntryOf(L, R)), NEW h, IsGrouping(h, e, Seq(SectionOf(L, R))),
           NEW a \in 0..(Len(e) - 1), NEW b \in (a + 1)..Len(e),
           NEW continued, continued = (a > 0 /\ e[a].label = SubSeq(e, a + 1, b)[1].label)
    PROVE  JoinedPage(h[a], Grouped(SubSeq(e, a + 1, b)), continued) = h[b]
<1> DEFINE n == Len(e)
           x == SubSeq(e, a + 1, b)
           m == b - a
           V == Seq(SectionOf(L, R))
<1>1. n \in Nat /\ DOMAIN e = 1..n /\ \A k \in 1..n : e[k] \in EntryOf(L, R)
    <2>1. \A k \in DOMAIN e : e[k] \in EntryOf(L, R)
        BY SeqElements
    <2> QED
        BY <2>1
<1>2. /\ m \in 1..n /\ a \in Nat /\ b = a + m /\ b \in 1..n /\ a \in 0..(n - 1) /\ a + 1 \in 1..n
      /\ n \in Nat /\ m \in Nat /\ a + m <= n
    BY <1>1
<1>3. x \in Seq(EntryOf(L, R)) /\ Len(x) = m /\ \A i \in 1..m : x[i] = e[a + i]
    <2>1. x = [i \in 1..m |-> e[a + i]]
        <3>1. x = [i \in 1..((b - (a + 1)) + 1) |-> e[((a + 1) + i) - 1]]
            OBVIOUS
        <3>2. (b - (a + 1)) + 1 = m
            BY <1>1
        <3> HIDE DEF x, m, n
        <3>3. \A i \in 1..m : ((a + 1) + i) - 1 = a + i
            BY <1>1, <1>2
        <3> QED
            BY <3>1, <3>2, <3>3
    <2>2. \A i \in 1..m : a + i \in 1..n
        BY <1>1
    <2> HIDE DEF x, m, n
    <2>3. \A i \in 1..m : e[a + i] \in EntryOf(L, R)
        BY <1>1, <2>2
    <2> QED
        BY <1>1, <1>2, <2>1, <2>3
<1>4. /\ h \in [0..n -> V] /\ h[0] = << >>
      /\ \A k \in 1..n : h[k] = Joined(h[k - 1], e[k])
    BY DEF IsGrouping
<1> HIDE DEF n, x
<1>5. PICK g : /\ g \in [0..m -> V] /\ g[0] = << >>
               /\ \A k \in 1..m : g[k] = Joined(g[k - 1], x[k])
               /\ g[m] = Grouped(x)
    <2>1. PICK g : IsGrouping(g, x, Seq(SectionOf(L, R))) /\ g[Len(x)] = Grouped(x)
        BY <1>3, GroupedSteps
    <2> QED
        BY <1>3, <2>1 DEF IsGrouping
<1> HIDE DEF m
<1>6. a + 1 \in 1..n /\ x[1] = e[a + 1] /\ a \in 0..n
    <2>1. a + 1 \in 1..n /\ 1 \in 1..m /\ a \in 0..n
        BY <1>1, <1>2
    <2> QED
        BY <1>3, <2>1
<1>7. Continues(h[a], e[a + 1]) <=> a > 0 /\ e[a].label = e[a + 1].label
    <2>1. CASE a = 0
        BY <1>4, <2>1 DEF Continues
    <2>2. CASE a # 0
        <3>1. a \in 1..n /\ a - 1 \in 0..n /\ a > 0
            BY <1>1, <1>2, <1>6, <2>2
        <3>2. h[a] = Joined(h[a - 1], e[a]) /\ h[a - 1] \in V /\ e[a] \in EntryOf(L, R)
            BY <1>1, <1>4, <3>1
        <3>3. h[a] # << >> /\ h[a][Len(h[a])].label = e[a].label
            <4> DEFINE u == h[a - 1]
                       w == e[a]
                       v == h[a]
            <4>1. v = Joined(u, w) /\ u \in Seq(SectionOf(L, R)) /\ w \in EntryOf(L, R)
                BY <3>2
            <4> HIDE DEF u, w, v
            <4>2. GetsEntry(Joined(u, w), u, w)
                BY <4>1, JoinedIs
            <4>3. v # << >> /\ v[Len(v)].label = w.label
                BY <4>1, <4>2 DEF GetsEntry
            <4> QED
                BY <4>3 DEF v, w
        <3> QED
            BY <3>1, <3>3 DEF Continues
    <2> QED
        BY <2>1, <2>2
<1> DEFINE c == IF continued THEN 1 ELSE 0
<1>8. continued \in BOOLEAN /\ c = IF Continues(h[a], e[a + 1]) THEN 1 ELSE 0
    BY <1>6, <1>7 DEF x
<1>9. h[a] \in V /\ h[b] \in V
    <2>1. b \in 0..n
        BY <1>1, <1>2
    <2> QED
        BY <1>4, <1>6, <2>1
<1> DEFINE J == {i \in 0..m : i # 0 => CanStick(h[a], g[i], c) /\ Stuck(h[a + i], h[a], g[i], c)}
<1> HIDE DEF c
<1>10. ASSUME NEW i \in 0..(m - 1), i \in J
       PROVE  i + 1 \in J
    <2>1. /\ i + 1 \in 0..m /\ i + 1 \in 1..m /\ (i + 1) - 1 = i /\ i \in 0..m
          /\ a + (i + 1) \in 1..n /\ (a + (i + 1)) - 1 = a + i /\ a + i \in 0..n
        <3>1. i \in Nat /\ i + 1 <= m /\ a + (i + 1) <= n
            BY <1>2
        <3> QED
            BY ONLY <1>2, <3>1
    <2> DEFINE y == e[a + (i + 1)]
    <2>2. y \in EntryOf(L, R) /\ x[i + 1] = y
        BY <1>1, <1>3, <2>1
    <2>3. g[i + 1] = Joined(g[i], y) /\ h[a + (i + 1)] = Joined(h[a + i], y)
        BY <1>4, <1>5, <2>1, <2>2
    <2>4. g[i] \in V /\ h[a + i] \in V
        BY <1>4, <1>5, <2>1
    <2> HIDE DEF y
    <2>5. CASE i = 0
        <3>1. y = e[a + 1] /\ a + i = a /\ g[i] = << >>
            BY <1>2, <1>5, <2>5 DEF y
        <3> DEFINE all == h[a]
        <3>2. all \in Seq(SectionOf(L, R)) /\ c = IF Continues(all, y) THEN 1 ELSE 0
            BY <1>8, <1>9, <3>1
        <3> HIDE DEF all
        <3>3. CanStick(all, Joined(<< >>, y), c) /\ Stuck(Joined(all, y), all, Joined(<< >>, y), c)
            BY <2>2, <3>2, StuckStart
        <3> QED
            BY <2>1, <2>3, <3>1, <3>3 DEF all
    <2>6. CASE i # 0
        <3> DEFINE all == h[a]
                   u == g[i]
                   j == h[a + i]
        <3>1. all \in Seq(SectionOf(L, R)) /\ u \in Seq(SectionOf(L, R)) /\ j \in Seq(SectionOf(L, R))
              /\ CanStick(all, u, c) /\ Stuck(j, all, u, c)
            BY <1>9, <1>10, <2>4, <2>6
        <3> HIDE DEF all, u, j
        <3>2. CanStick(all, Joined(u, y), c) /\ Stuck(Joined(j, y), all, Joined(u, y), c)
            BY <2>2, <3>1, StuckMore
        <3> QED
            BY <2>1, <2>3, <3>2 DEF all, u, j
    <2> QED
        BY <2>5, <2>6
<1>11. CanStick(h[a], g[m], c) /\ Stuck(h[b], h[a], g[m], c) /\ g[m] \in V
    <2>1. 0 \in J /\ m \in Nat \ {0} /\ m \in 0..m
        BY <1>2
    <2>2. m \in J
        <3> HIDE DEF J
        <3>1. 0..m \subseteq J
            BY <1>10, <2>1, UpTo
        <3> QED
            BY <2>1, <3>1
    <2> QED
        BY <1>2, <1>5, <2>1, <2>2
<1> DEFINE all == h[a]
           u == g[m]
           j == h[b]
           p == JoinedPage(all, u, continued)
<1>12. all \in Seq(SectionOf(L, R)) /\ u \in Seq(SectionOf(L, R)) /\ j \in Seq(SectionOf(L, R))
       /\ CanStick(all, u, c) /\ Stuck(j, all, u, c)
    BY <1>9, <1>11
<1> HIDE DEF all, u, j
<1>13. p \in Seq(SectionOf(L, R))
    <2>1. u # << >>
        BY <1>12 DEF CanStick
    <2> QED
        BY <1>8, <1>12, <2>1, PageKind
<1>14. Stuck(p, all, u, c)
    <2>1. c = IF continued THEN 1 ELSE 0
        BY DEF c
    <2> QED
        BY <1>8, <1>12, <2>1, PageIs
<1> HIDE DEF p
<1>15. p = j
    BY <1>12, <1>13, <1>14, StuckOnce
<1> QED
    BY <1>5, <1>15 DEF p, all, u, j, x

\* Each of n pages can be put after what V has, and h is what the first pages make.
Joinable(secs, n, V) ==
    << >> \in V /\ \A p \in 1..n, u \in V : JoinPage(u, Paginate(secs, p, PageSize)) \in V

IsJoining(h, secs, n, V) ==
    /\ h \in [0..n -> V]
    /\ h[0] = << >>
    /\ \A k \in 1..n : h[k] = JoinPage(h[k - 1], Paginate(secs, k, PageSize))
    /\ h[n] = JoinedPages(secs, n)

\* They are joined page by page.
LEMMA PagesRun ==
    ASSUME NEW V, NEW secs, NEW n \in Nat, Joinable(secs, n, V)
    PROVE  \E h : IsJoining(h, secs, n, V)
<1> USE DEF Joinable
<1> DEFINE s == [p \in 1..n |-> p]
           Put(u, p) == JoinPage(u, Paginate(secs, p, PageSize))
           F == [k \in 1..n |-> [u \in V |-> Put(u, k)]]
           Body(f, S) == IF S = {} THEN << >> ELSE Put(f[S \ {Max(S)}], s[Max(S)])
           iter == CHOOSE f : f = [S \in SUBSET (1..n) |-> Body(f, S)]
<1>1. DOMAIN s = 1..n /\ \A k \in 1..n : s[k] = k
    OBVIOUS
<1>2. JoinedPages(secs, n) = iter[1..n]
    BY <1>1 DEF JoinedPages, FoldLeft, MapThenFoldSet
<1>3. IsLoop(F, n, V)
    <2>1. \A k \in 1..n, u \in V : Put(u, k) \in V
        OBVIOUS
    <2> HIDE DEF Put
    <2> QED
        BY <2>1 DEF IsLoop
<1> HIDE DEF s, Put
<1>4. ASSUME NEW f, NEW S \in SUBSET (1..n), S # {}, f[S \ {Max(S)}] \in V
      PROVE  Body(f, S) = F[Max(S)][f[S \ {Max(S)}]]
    <2>1. Max(S) \in 1..n /\ s[Max(S)] = Max(S)
        BY <1>1, <1>4, MaxIsIn
    <2>2. F[Max(S)][f[S \ {Max(S)}]] = Put(f[S \ {Max(S)}], Max(S))
        BY <1>4, <2>1
    <2> QED
        BY <1>4, <2>1, <2>2
<1> HIDE DEF F
<1>5. PICK g : IsFold(g, F, n, V, << >>)
    <2> HIDE DEF iter, Body
    <2> QED
        BY <1>1, <1>3, FoldExists
<1>6. g = [S \in SUBSET (1..n) |-> Body(g, S)]
    <2>1. ASSUME NEW S \in SUBSET (1..n)
          PROVE  g[S] = Body(g, S)
        <3>1. CASE S = {}
            BY <1>5, <3>1 DEF IsFold
        <3>2. CASE S # {}
            <4> HIDE DEF Body
            <4> QED
                BY <1>4, <1>5, <3>2 DEF IsFold
        <3> QED
            BY <3>1, <3>2
    <2> HIDE DEF Body
    <2>2. DOMAIN g = SUBSET (1..n) /\ g = [S \in DOMAIN g |-> g[S]]
        BY <1>5 DEF IsFold
    <2> QED
        BY <2>1, <2>2
<1>7. iter = [S \in SUBSET (1..n) |-> Body(iter, S)]
    <2> HIDE DEF Body
    <2> QED
        BY <1>6
<1> HIDE DEF iter
<1>8. Folds(iter, F, n, V, << >>)
    <2>1. \A S \in SUBSET (1..n) : iter[S] = Body(iter, S)
        <3> HIDE DEF Body
        <3> QED
            BY <1>7
    <2>2. \A S \in SUBSET (1..n) : S = {} => iter[S] = << >>
        BY <2>1
    <2> HIDE DEF Body
    <2> QED
        BY <1>4, <2>1, <2>2 DEF Folds
<1>9. PICK h : IsRun(h, F, n, V, << >>) /\ h[n] = iter[1..n]
    <2> HIDE DEF Body
    <2> QED
        BY <1>1, <1>3, <1>8, FoldSteps
<1>10. \A k \in 1..n : h[k] = Put(h[k - 1], k)
    <2>1. \A k \in 1..n : k - 1 \in 0..n
        OBVIOUS
    <2>2. \A k \in 1..n, u \in V : F[k][u] = Put(u, k)
        BY DEF F
    <2> QED
        BY <1>9, <2>1, <2>2 DEF IsRun
<1> QED
    BY <1>2, <1>9, <1>10 DEF IsRun, Put, IsJoining

\* Products grow with a factor.
LEMMA TimesGrows ==
    ASSUME NEW a \in Int, NEW b \in Int, NEW m \in Nat, a <= b
    PROVE  a * m <= b * m
<1>1. b - a \in Nat /\ (b - a) * m >= 0
    OBVIOUS
<1>2. (b - a) * m = b * m - a * m /\ b * m \in Int /\ a * m \in Int
    OBVIOUS
<1> QED
    BY <1>1, <1>2

\* Where the pages of n rows begin and which is the last.
LEMMA PageStarts ==
    ASSUME NEW n \in Nat, NEW m \in Nat \ {0}, NEW q, q = (n + m - 1) \div m
    PROVE  /\ q \in Nat
           /\ q = 0 <=> n = 0
           /\ \A p \in 1..q : /\ (p - 1) * m \in 0..(n - 1)
                              /\ (p - 1) * m + m = p * m
                              /\ p * m < n <=> p < q
<1> DEFINE a == n + m - 1
<1>1. a \in Nat /\ a = n + (m - 1)
    OBVIOUS
<1>2. q \in Int /\ a % m \in 0..(m - 1) /\ a = m * q + (a % m)
    BY <1>1, Divided
<1> HIDE DEF a
<1>3. m * q \in Int /\ m * q <= a /\ a < m * q + m
    BY <1>1, <1>2
<1>4. m * q = q * m /\ (q - 1) * m = q * m - m
    BY <1>2
<1>5. n <= q * m /\ (q - 1) * m < n /\ q * m \in Int
    BY <1>1, <1>3, <1>4
<1>6. q \in Nat
    <2>1. CASE q < 0
        <3>1. q * m <= (-1) * m
            BY <1>2, <2>1, TimesGrows
        <3>2. (-1) * m = -m
            OBVIOUS
        <3> QED
            BY <1>3, <1>4, <1>1, <3>1, <3>2
    <2> QED
        BY <1>2, <2>1
<1>7. q = 0 <=> n = 0
    <2>1. CASE q = 0
        <3>1. q * m = 0
            BY <2>1
        <3> QED
            BY <1>5, <2>1, <3>1
    <2>2. CASE q # 0
        <3>1. 0 * m <= (q - 1) * m /\ 0 * m = 0
            BY <1>6, <2>2, TimesGrows
        <3> QED
            BY <1>5, <2>2, <3>1
    <2> QED
        BY <2>1, <2>2
<1>8. ASSUME NEW p \in 1..q
      PROVE  (p - 1) * m \in 0..(n - 1) /\ (p - 1) * m + m = p * m /\ (p * m < n <=> p < q)
    <2>1. p \in Int /\ p - 1 \in Int /\ q - 1 \in Int /\ p - 1 <= q - 1 /\ 0 <= p - 1 /\ p - 1 \in Nat
        BY <1>6
    <2>2. (p - 1) * m <= (q - 1) * m
        BY <2>1, TimesGrows
    <2>3. (p - 1) * m \in Nat /\ (p - 1) * m + m = p * m /\ p * m \in Int
        BY <2>1
    <2>4. (q - 1) * m \in Int
        BY <2>1
    <2>5. (p - 1) * m \in 0..(n - 1)
        BY <1>5, <2>2, <2>3, <2>4
    <2>6. ASSUME p < q PROVE p * m < n
        <3>1. p * m <= (q - 1) * m
            BY <2>1, <2>6, TimesGrows
        <3> QED
            BY <1>5, <2>3, <2>4, <3>1
    <2>7. ASSUME ~(p < q) PROVE ~(p * m < n)
        <3>1. p = q
            BY <2>1, <2>7, <1>6
        <3> QED
            BY <1>5, <3>1
    <2> QED
        BY <2>3, <2>5, <2>6, <2>7
<1> QED
    BY <1>6, <1>7, <1>8

-----------------------------------------------------------------------------
(* The pages of a list.                                                    *)

\* No entries make no sections, and some make some.
LEMMA GroupedSome ==
    ASSUME NEW L, NEW R, NEW e \in Seq(EntryOf(L, R))
    PROVE  /\ Grouped(e) \in Seq(SectionOf(L, R))
           /\ Grouped(e) = << >> <=> e = << >>
<1>1. Grouped(e) \in Seq(SectionOf(L, R))
    BY GroupedRows DEF EntryOf
<1>2. Grouped(<< >>) = << >>
    <2> DEFINE x == << >>
    <2>1. x \in Seq(EntryOf(L, R)) /\ Len(x) = 0 /\ x = << >>
        OBVIOUS
    <2> HIDE DEF x
    <2>2. PICK h : IsGrouping(h, x, Seq(SectionOf(L, R))) /\ h[Len(x)] = Grouped(x)
        BY <2>1, GroupedSteps
    <2> QED
        BY <2>1, <2>2 DEF IsGrouping
<1>3. Flat(<< >>) = << >>
    <2> DEFINE x == << >>
    <2>1. x \in Seq(EntryOf(L, R))
        OBVIOUS
    <2> HIDE DEF x
    <2>2. Flat(Grouped(x)) = x
        BY <2>1, FlatGrouped
    <2> QED
        BY <1>2, <2>2 DEF x
<1>4. Flat(Grouped(e)) = e
    BY FlatGrouped
<1> QED
    BY <1>1, <1>2, <1>3, <1>4

\* Where a page ends.
EndAt(p, q, m, n) == IF p < q THEN p * m ELSE n

\* What is on page p of q: the entries from one page's end to its own.
PageHas(got, e, a, b, more) ==
    /\ got.sections = Grouped(SubSeq(e, a + 1, b))
    /\ got.continued = (a > 0 /\ e[a].label = SubSeq(e, a + 1, b)[1].label)
    /\ got.hasMore = more

\* The entries on a page, whether it continues a section and whether it is the last.
LEMMA PaginateIs ==
    ASSUME NEW L, NEW R, NEW e \in Seq(EntryOf(L, R)), NEW secs, Flat(secs) = e,
           NEW m \in Nat \ {0}, NEW q, q = (Len(e) + m - 1) \div m, NEW p \in 1..q
    PROVE  LET a == (p - 1) * m
               b == EndAt(p, q, m, Len(e))
           IN a \in 0..(Len(e) - 1) /\ b \in (a + 1)..Len(e) /\ PageHas(Paginate(secs, p, m), e, a, b, p < q)
<1> DEFINE n == Len(e)
           a == (p - 1) * m
           b == EndAt(p, q, m, n)
<1>1. n \in Nat
    OBVIOUS
<1>2. /\ q \in Nat /\ a \in 0..(n - 1) /\ a + m = p * m /\ (p * m < n <=> p < q)
    <2>1. /\ q \in Nat
          /\ \A k \in 1..q : /\ (k - 1) * m \in 0..(n - 1)
                             /\ (k - 1) * m + m = k * m
                             /\ k * m < n <=> k < q
        <3> HIDE DEF n
        <3>1. q = (n + m - 1) \div m
            BY DEF n
        <3> QED
            BY <1>1, <3>1, PageStarts
    <2> QED
        BY <2>1
<1>3. b = IF a + m < n THEN a + m ELSE n
    BY <1>2 DEF EndAt
<1>4. (a + m < n) = (p < q)
    BY <1>2
<1> DEFINE x == SubSeq(e, a + 1, b)
           got == Paginate(secs, p, m)
<1>5. got = [sections |-> Grouped(x), continued |-> x # << >> /\ a > 0 /\ e[a].label = x[1].label, hasMore |-> a + m < n]
    BY <1>3 DEF Paginate
<1> HIDE DEF a, b, n
<1>6. b \in (a + 1)..n
    BY <1>1, <1>2, <1>3
<1>7. x # << >>
    <2>1. Len(x) = b - a
        <3>1. a + 1 \in 1..(n + 1) /\ b \in 0..n /\ (b - (a + 1)) + 1 = b - a
            BY <1>1, <1>2, <1>6
        <3> QED
            BY <1>1, <1>2, <1>6, <3>1 DEF n
    <2>2. b - a > 0
        BY <1>1, <1>2, <1>6
    <2>3. Len(<< >>) = 0
        OBVIOUS
    <2> HIDE DEF x
    <2> QED
        BY <2>1, <2>2, <2>3
<1> HIDE DEF x, got
<1>8. PageHas(got, e, a, b, p < q)
    <2>1. got.hasMore = (p < q)
        BY <1>4, <1>5
    <2>2. got.continued = (a > 0 /\ e[a].label = x[1].label)
        BY <1>5, <1>7
    <2>3. got.sections = Grouped(x)
        BY <1>5
    <2> QED
        BY <2>1, <2>2, <2>3 DEF PageHas, x
<1> QED
    BY <1>2, <1>6, <1>8 DEF a, b, n, got

\* The pages of a list, joined, are the list again.
LEMMA PagesJoinUp ==
    ASSUME NEW L, NEW R, NEW e \in Seq(EntryOf(L, R)),
           NEW q, q = (Len(e) + PageSize - 1) \div PageSize
    PROVE  /\ JoinedPages(Grouped(e), q) = Grouped(e)
           /\ \A p \in 1..q : Paginate(Grouped(e), p, PageSize).hasMore <=> p < q
<1> DEFINE n == Len(e)
           m == PageSize
           secs == Grouped(e)
           V == Seq(SectionOf(L, R))
           from(p) == (p - 1) * m
           upto(p) == EndAt(p, q, m, n)
           page(p) == Paginate(secs, p, m)
<1>1. m \in Nat \ {0} /\ n \in Nat
    BY ViewsAssumption
<1>2. Flat(secs) = e
    BY FlatGrouped
<1>3. ASSUME NEW p \in 1..q
      PROVE  from(p) \in 0..(n - 1) /\ upto(p) \in (from(p) + 1)..n /\ PageHas(page(p), e, from(p), upto(p), p < q)
    <2> HIDE DEF secs, m
    <2>1. q = (Len(e) + m - 1) \div m
        BY DEF m
    <2> QED
        BY <1>1, <1>2, <2>1, PaginateIs
<1>4. q \in Nat /\ (q = 0 <=> n = 0) /\ \A p \in 1..q : from(p) + m = p * m
    <2> HIDE DEF n, m
    <2>1. q = (n + m - 1) \div m
        BY DEF n, m
    <2> QED
        BY <1>1, <2>1, PageStarts
<1> HIDE DEF n, m, secs
<1>5. PICK h : IsGrouping(h, e, V) /\ h[n] = secs
    BY GroupedSteps DEF n, secs
<1>6. h \in [0..n -> V] /\ h[0] = << >>
    BY <1>5 DEF IsGrouping, n
<1>7. ASSUME NEW p \in 1..q
      PROVE  /\ JoinPage(h[from(p)], page(p)) = h[upto(p)]
             /\ \A u \in V : JoinPage(u, page(p)) \in V
    <2> DEFINE a == from(p)
               b == upto(p)
               got == page(p)
               x == SubSeq(e, a + 1, b)
    <2>1. a \in 0..(n - 1) /\ b \in (a + 1)..n /\ PageHas(got, e, a, b, p < q)
        BY <1>3
    <2> HIDE DEF a, b, got
    <2>2. got.sections = Grouped(x) /\ got.continued = (a > 0 /\ e[a].label = x[1].label) /\ got.continued \in BOOLEAN
        BY <2>1 DEF PageHas
    <2>3. JoinedPage(h[a], Grouped(x), got.continued) = h[b]
        BY <1>5, <2>1, <2>2, PageContinues DEF n
    <2>4. Grouped(x) \in V /\ Grouped(x) # << >>
        <3>1. x \in Seq(EntryOf(L, R)) /\ x # << >>
            <4>1. \A k \in 1..n : e[k] \in EntryOf(L, R)
                <5>1. \A k \in DOMAIN e : e[k] \in EntryOf(L, R)
                    BY SeqElements
                <5>2. DOMAIN e = 1..n
                    BY DEF n
                <5> QED
                    BY <5>1, <5>2
            <4>2. a + 1 \in 1..n /\ b \in 1..n /\ (b - (a + 1)) + 1 = b - a /\ b - a \in Nat \ {0}
                BY <1>1, <2>1
            <4>3. x = [i \in 1..(b - a) |-> e[((a + 1) + i) - 1]]
                BY SMTT(30), <1>1, <4>2
            <4>4. \A i \in 1..(b - a) : ((a + 1) + i) - 1 \in 1..n
                BY <1>1, <2>1, <4>2
            <4> HIDE DEF x
            <4>5. \A i \in 1..(b - a) : x[i] \in EntryOf(L, R)
                BY <4>1, <4>3, <4>4
            <4>6. x \in Seq(EntryOf(L, R)) /\ Len(x) = b - a
                <5>1. x = [i \in 1..(b - a) |-> x[i]]
                    BY <4>3
                <5> QED
                    BY <4>2, <4>5, <5>1, SeqIs
            <4> QED
                BY <4>2, <4>6
        <3> HIDE DEF x
        <3> QED
            BY <3>1, GroupedSome
    <2>5. ASSUME NEW u \in V
          PROVE  JoinPage(u, got) \in V
        <3> DEFINE g == Grouped(x)
        <3>1. g \in V /\ g # << >> /\ JoinPage(u, got) = JoinedPage(u, g, got.continued)
            BY <2>2, <2>4 DEF JoinPage
        <3> HIDE DEF g
        <3> QED
            BY <2>2, <3>1, PageKind
    <2>6. JoinPage(h[a], got) = h[b]
        BY <2>2, <2>3 DEF JoinPage
    <2> QED
        BY <2>5, <2>6 DEF a, b, got
<1>8. PICK r : /\ r \in [0..q -> V]
               /\ r[0] = << >>
               /\ \A k \in 1..q : r[k] = JoinPage(r[k - 1], page(k))
               /\ r[q] = JoinedPages(secs, q)
    <2>1. << >> \in V
        OBVIOUS
    <2>2. Joinable(secs, q, V)
        BY <1>7, <2>1 DEF m, Joinable
    <2>3. \E r : IsJoining(r, secs, q, V)
        <3> HIDE DEF V
        <3> QED
            BY <1>4, <2>2, PagesRun
    <2> QED
        BY <2>3 DEF m, IsJoining
\* What is joined after p pages.
<1> DEFINE till(p) == IF p = 0 THEN 0 ELSE upto(p)
           J == {p \in 0..q : r[p] = h[till(p)]}
<1>9. ASSUME NEW p \in 0..(q - 1), p \in J
      PROVE  p + 1 \in J
    <2>1. p + 1 \in 1..q /\ (p + 1) - 1 = p /\ p + 1 # 0 /\ p + 1 \in 0..q /\ p \in Nat /\ p < q
        BY <1>4
    <2>2. r[p + 1] = JoinPage(r[p], page(p + 1)) /\ r[p] = h[till(p)]
        BY <1>8, <1>9, <2>1
    <2>3. from(p + 1) = till(p)
        <3>1. from(p + 1) = p * m
            BY <2>1
        <3>2. CASE p = 0
            <4>1. 0 * m = 0
                BY <1>1
            <4> QED
                BY <3>1, <3>2, <4>1
        <3>3. CASE p # 0
            BY <2>1, <3>1, <3>3 DEF EndAt
        <3> QED
            BY <3>2, <3>3
    <2>4. JoinPage(h[from(p + 1)], page(p + 1)) = h[upto(p + 1)]
        BY <1>7, <2>1
    <2> HIDE DEF from, upto, page
    <2> QED
        BY <2>1, <2>2, <2>3, <2>4
<1>10. r[q] = h[n]
    <2>1. 0 \in J
        BY <1>4, <1>6, <1>8
    <2>2. q \in J
        <3> HIDE DEF J
        <3>1. 0..q \subseteq J
            BY <1>4, <1>9, <2>1, UpTo
        <3>2. q \in 0..q
            BY <1>4
        <3> QED
            BY <3>1, <3>2
    <2>3. till(q) = n
        <3>1. ~(q < q)
            BY <1>4
        <3> QED
            BY <1>4, <3>1 DEF EndAt
    <2> QED
        BY <2>2, <2>3
<1>11. \A p \in 1..q : page(p).hasMore <=> p < q
    BY <1>3 DEF PageHas
<1> QED
    BY <1>5, <1>8, <1>10, <1>11 DEF secs, m

\* The sections of the events page hold its rows, labelled.
LEMMA PagesOfRows ==
    ASSUME NEW rows \in Seq(Row), Different(rows, Len(rows)), NEW d \in Int, NEW secs, secs = Sections(rows, d),
           NEW q, q = (Len(RowsIn(secs)) + PageSize - 1) \div PageSize
    PROVE  /\ JoinedPages(secs, q) = secs
           /\ \A p \in 1..q : Paginate(secs, p, PageSize).hasMore <=> p < q
<1> DEFINE m == MergePerformances(rows)
           s == RunsLast(m, d)
           e == [i \in DOMAIN s |-> [label |-> SectionLabel(s[i].day, d), row |-> s[i]]]
           L == {SectionLabel(r.day, d) : r \in Row}
<1>1. Sections(rows, d) = Grouped(e)
    BY DEF Sections, Labelled
<1>2. m \in Seq(Row)
    BY MergedIs DEF Merged
<1> HIDE DEF m
<1>3. s \in Seq(Row)
    BY <1>2, RunsLastIs
<1> HIDE DEF s
<1>4. \A i \in DOMAIN s : s[i] \in Row
    BY <1>3
<1>5. e \in Seq(EntryOf(L, Row))
    <2>1. \A i \in DOMAIN s : e[i] \in EntryOf(L, Row)
        BY <1>4 DEF EntryOf
    <2>2. DOMAIN e = DOMAIN s /\ DOMAIN s = 1..Len(s) /\ Len(s) \in Nat
        BY <1>3
    <2>3. e = [i \in 1..Len(s) |-> e[i]]
        BY <2>2
    <2> HIDE DEF e, L
    <2> QED
        BY <2>1, <2>2, <2>3, SeqIs
<1> HIDE DEF e, L
<1>6. Len(RowsIn(secs)) = Len(e)
    <2>1. RowsIn(Grouped(e)) = EntryRows(e)
        BY <1>5, GroupedRows DEF EntryOf
    <2>2. Len(EntryRows(e)) = Len(e)
        BY <1>5 DEF EntryRows
    <2> QED
        BY <1>1, <2>1, <2>2
<1>7. q = (Len(e) + PageSize - 1) \div PageSize
    BY <1>6
<1>8. /\ JoinedPages(Grouped(e), q) = Grouped(e)
      /\ \A p \in 1..q : Paginate(Grouped(e), p, PageSize).hasMore <=> p < q
    BY <1>5, <1>7, PagesJoinUp
<1> QED
    BY <1>1, <1>8

\* The pages of "Show more" join to the list, with no section split or headed twice, and
\* the last one is the first that has no more (web/listing.py:301-318).
THEOREM PagesJoinAgain == Spec => []PagesJoin
<1>1. TypeOK => PagesJoin
    <2> SUFFICES ASSUME TypeOK PROVE PagesJoin
        OBVIOUS
    <2> DEFINE secs == Sections(CurrentRows, today)
               q == (Len(RowsIn(secs)) + PageSize - 1) \div PageSize
    <2>1. today \in Int /\ CurrentRows \in Seq(Row) /\ Different(CurrentRows, Len(CurrentRows))
        BY TodayIs, CurrentRowsDiffer DEF CurrentRows
    <2>2. /\ JoinedPages(secs, q) = secs
          /\ \A p \in 1..q : Paginate(secs, p, PageSize).hasMore <=> p < q
        <3> HIDE DEF secs, q
        <3>1. secs = Sections(CurrentRows, today) /\ q = (Len(RowsIn(secs)) + PageSize - 1) \div PageSize
            BY DEF secs, q
        <3> QED
            BY <2>1, <3>1, PagesOfRows
    <2> QED
        BY <2>2 DEF PagesJoin
<1> QED
    BY <1>1, ViewsTypeCorrect, PTL
=============================================================================
