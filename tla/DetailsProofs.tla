--------------------------- MODULE DetailsProofs ----------------------------
(***************************************************************************)
(* Proofs about Details: its types, and that a validator only ever stands  *)
(* for a feed whose items are all stored.                                  *)
(***************************************************************************)
EXTENDS Details, TLAPS

\* An active row has been missed fewer than Threshold times: this is what keeps
\* the counter in its range when an absent row is counted once more.
Counted == \A k \in Key : Active(k) => events[k].missing < Threshold

CoreInv == TypeOK /\ Counted

-----------------------------------------------------------------------------
(* The rows that a poll writes.                                            *)

LEMMA ThresholdPositive == Threshold \in Nat /\ 0 < Threshold /\ 0 \in 0..Threshold
<1>1. Threshold \in Nat \ {0}
    BY DetailsAssumption
<1> QED
    BY <1>1

\* A 304 leaves a row that is active and was not missed.
LEMMA ResetRow ==
    ASSUME NEW row \in Event
    PROVE  /\ [row EXCEPT !.missing = 0] \in Event
           /\ [row EXCEPT !.missing = 0].missing = 0
BY ThresholdPositive DEF Event

\* A listed item is stored as an active row that was not missed, whether or not
\* its detail page could be read.
LEMMA UpsertedRow ==
    ASSUME TypeOK, NEW k \in Key, NEW read
    PROVE  /\ Upserted(k, k \in read) \in Event
           /\ Upserted(k, k \in read) # None
           /\ Upserted(k, k \in read).missing = 0
<1>1. page[k] \in Sale \cup {None} /\ events[k] \in Event \cup {None}
    BY DEF TypeOK
<1> DEFINE got == k \in read
           old == IF events[k] = None THEN [ticket |-> "unknown", checked |-> FALSE]
                  ELSE [ticket |-> events[k].ticket, checked |-> events[k].checked]
           t == IF got /\ page[k] # None THEN page[k] ELSE old.ticket
           ch == got \/ old.checked
<1>2. old.ticket \in Sale \cup {"unknown"} /\ old.checked \in BOOLEAN
    BY <1>1 DEF Event
<1>3. t \in Sale \cup {"unknown"}
    BY <1>1, <1>2
<1>4. ch \in BOOLEAN
    BY <1>2
<1>5. Upserted(k, k \in read) = [ticket |-> t, checked |-> ch, status |-> "active", missing |-> 0]
    BY DEF Upserted
<1> HIDE DEF old, t, ch
<1>6. 0 \in 0..Threshold
    BY DetailsAssumption
<1>7. Upserted(k, k \in read) \in Event
    BY <1>3, <1>4, <1>5, <1>6 DEF Event
<1> QED
    BY <1>5, <1>7, DetailsAssumption

\* An absent row stays a row, and is removed before its counter leaves the range.
LEMMA AbsentRow ==
    ASSUME CoreInv, NEW k \in Key
    PROVE  /\ Absent(k) \in Event \cup {None}
           /\ events[k] # None => Absent(k) # None
           /\ Absent(k) # None /\ Absent(k).status = "active" => Absent(k).missing < Threshold
<1>1. events[k] \in Event \cup {None}
    BY DEF CoreInv, TypeOK
<1>2. CASE ~Active(k) \/ Past(k)
    <2>1. Absent(k) = events[k]
        BY <1>2 DEF Absent
    <2> QED
        BY <1>1, <2>1 DEF CoreInv, Counted, Active
<1>3. CASE ~(~Active(k) \/ Past(k))
    <2>1. events[k] \in Event /\ events[k].missing < Threshold
        BY <1>1, <1>3 DEF CoreInv, Counted, Active
    <2> DEFINE m == events[k].missing + 1
               s == IF m >= Threshold THEN "removed" ELSE "active"
    <2>2. Absent(k) = [events[k] EXCEPT !.missing = m, !.status = s]
        BY <1>3 DEF Absent
    <2>3. events[k].missing \in 0..Threshold /\ Threshold \in Nat
        BY <2>1, DetailsAssumption DEF Event
    <2>4. m \in 0..Threshold /\ s \in {"active", "removed"} /\ (s = "active" => m < Threshold)
        BY <2>1, <2>3
    <2> HIDE DEF m, s
    <2>5. Absent(k) \in Event /\ Absent(k).missing = m /\ Absent(k).status = s
        BY <2>1, <2>2, <2>4 DEF Event
    <2> QED
        BY <2>4, <2>5, DetailsAssumption
<1> QED
    BY <1>2, <1>3

-----------------------------------------------------------------------------
(* Types.                                                                  *)

LEMMA CoreInit == Init => CoreInv
<1> SUFFICES ASSUME Init PROVE CoreInv
    OBVIOUS
<1>1. TypeOK
    BY DetailsAssumption DEF Init, TypeOK
<1>2. Counted
    BY DEF Init, Counted, Active
<1> QED
    BY <1>1, <1>2 DEF CoreInv

LEMMA CoreStep == CoreInv /\ [Next]_vars => CoreInv'
<1> SUFFICES ASSUME CoreInv, [Next]_vars PROVE CoreInv'
    OBVIOUS
<1> USE DEF CoreInv
<1>1. ASSUME NEW failed \in SUBSET Fetched, FullPoll(failed)
      PROVE  CoreInv'
    <2>1. \A k \in Key : events'[k] = IF k \in Listed THEN Upserted(k, k \in Fetched \ failed)
                                                      ELSE Absent(k)
        BY <1>1 DEF FullPoll
    <2>2. \A k \in Key : /\ events'[k] \in Event \cup {None}
                         /\ events'[k] # None /\ events'[k].status = "active"
                            => events'[k].missing < Threshold
        <3> TAKE k \in Key
        <3>1. CASE k \in Listed
            <4>1. events'[k] = Upserted(k, k \in Fetched \ failed)
                BY <2>1, <3>1
            <4>2. events'[k] \in Event /\ events'[k].missing = 0
                BY <4>1, UpsertedRow
            <4> QED
                BY <4>2, ThresholdPositive
        <3>2. CASE k \notin Listed
            BY <2>1, <3>2, AbsentRow
        <3> QED
            BY <3>1, <3>2
    <2>3. events' \in [Key -> Event \cup {None}]
        BY <1>1, <2>2 DEF FullPoll
    <2>4. cache' \in Feeds \cup {None}
        BY <1>1 DEF FullPoll, TypeOK
    <2> QED
        BY <1>1, <2>2, <2>3, <2>4 DEF FullPoll, TypeOK, Counted, Active
<1>2. CASE NotModified
    <2>1. \A k \in Key : events'[k] = IF Active(k) THEN [events[k] EXCEPT !.missing = 0]
                                                   ELSE events[k]
        BY <1>2 DEF NotModified
    <2>2. \A k \in Key : /\ events'[k] \in Event \cup {None}
                         /\ events'[k] # None /\ events'[k].status = "active"
                            => events'[k].missing < Threshold
        <3> TAKE k \in Key
        <3>1. CASE Active(k)
            <4>1. events[k] \in Event
                BY <3>1 DEF TypeOK, Active
            <4> QED
                BY <2>1, <3>1, <4>1, ResetRow, ThresholdPositive
        <3>2. CASE ~Active(k)
            BY <2>1, <3>2 DEF TypeOK, Active
        <3> QED
            BY <3>1, <3>2
    <2>3. events' \in [Key -> Event \cup {None}]
        BY <1>2, <2>2 DEF NotModified
    <2> QED
        BY <1>2, <2>2, <2>3 DEF NotModified, TypeOK, Counted, Active
<1>3. CASE Publish
    BY <1>3 DEF Publish, TypeOK, Counted, Active
<1>4. ASSUME NEW k \in Key, EditPage(k)
      PROVE  CoreInv'
    BY <1>4 DEF EditPage, TypeOK, Counted, Active
<1>5. CASE Tick
    BY <1>5, DetailsAssumption DEF Tick, TypeOK, Counted, Active
<1>6. CASE UNCHANGED vars
    BY <1>6 DEF vars, TypeOK, Counted, Active
<1> QED
    BY <1>1, <1>2, <1>3, <1>4, <1>5, <1>6 DEF Next, Poll

\* The tables stay well typed for every feed, budget and threshold; in
\* particular no row is counted past the threshold that removes it.
THEOREM DetailsTypeCorrect == Spec => []TypeOK
<1>1. Spec => []CoreInv
    BY CoreInit, CoreStep, PTL DEF Spec
<1> QED
    BY <1>1, PTL DEF CoreInv

-----------------------------------------------------------------------------
(* The validator.                                                          *)

\* Rows are never deleted, so what a validator stood for stays stored.
LEMMA StoredStays ==
    ASSUME CoreInv, [Next]_vars, NEW k \in Key, events[k] # None
    PROVE  events'[k] # None
<1> USE DEF CoreInv
<1>1. ASSUME NEW failed \in SUBSET Fetched, FullPoll(failed)
      PROVE  events'[k] # None
    <2>1. events'[k] = IF k \in Listed THEN Upserted(k, k \in Fetched \ failed) ELSE Absent(k)
        BY <1>1 DEF FullPoll
    <2> QED
        BY <2>1, UpsertedRow, AbsentRow
<1>2. CASE NotModified
    <2>1. events'[k] = IF Active(k) THEN [events[k] EXCEPT !.missing = 0] ELSE events[k]
        BY <1>2 DEF NotModified
    <2>2. events[k] \in Event
        BY DEF TypeOK
    <2> QED
        BY <2>1, <2>2, ResetRow, DetailsAssumption
<1>3. CASE events' = events
    BY <1>3
<1> QED
    BY <1>1, <1>2, <1>3 DEF Next, Poll, Publish, EditPage, Tick, vars

\* A 304 never hides an event that is not known: the validator is stored in
\* the transaction that stores every item of its feed, detail or no detail.
THEOREM ValidatorsAreStored == Spec => []ValidatorIsStored
<1>1. Init => ValidatorIsStored
    BY DEF Init, ValidatorIsStored
<1>2. CoreInv /\ ValidatorIsStored /\ [Next]_vars => ValidatorIsStored'
    <2> SUFFICES ASSUME CoreInv, ValidatorIsStored, [Next]_vars,
                        cache' # None, NEW i \in DOMAIN cache'
                 PROVE  events'[cache'[i]] # None
        BY DEF ValidatorIsStored
    <2>1. CASE cache' = cache
        <3>1. cache[i] \in Key /\ events[cache[i]] # None
            BY <2>1 DEF ValidatorIsStored, CoreInv, TypeOK, Feeds
        <3> QED
            BY <2>1, <3>1, StoredStays
    <2>2. ASSUME NEW failed \in SUBSET Fetched, FullPoll(failed), cache' = feed
          PROVE  events'[cache'[i]] # None
        <3>1. feed[i] \in Key /\ feed[i] \in Listed
            BY <2>2 DEF Listed, CoreInv, TypeOK, Feeds
        <3>2. events'[feed[i]] = Upserted(feed[i], feed[i] \in Fetched \ failed)
            BY <2>2, <3>1 DEF FullPoll
        <3> QED
            BY <2>2, <3>1, <3>2, UpsertedRow DEF CoreInv
    <2> QED
        BY <2>1, <2>2 DEF Next, Poll, FullPoll, NotModified, Publish, EditPage, Tick, vars
<1>3. Spec => []CoreInv
    BY CoreInit, CoreStep, PTL DEF Spec
<1> QED
    BY <1>1, <1>2, <1>3, PTL DEF Spec
=============================================================================
