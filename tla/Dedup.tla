------------------------------- MODULE Dedup -------------------------------
(***************************************************************************)
(* The stored events and their canonical events (core/dedup.py, called by  *)
(* core/ingest.py when an event is first stored).                          *)
(*                                                                         *)
(* rapidfuzz is an external library: Similar is any relation on normal     *)
(* forms.  Neither the candidates nor the sibling are read with an ORDER   *)
(* BY, so which of several comes first is left open here.                  *)
(***************************************************************************)
EXTENDS Naturals, Sequences

CONSTANTS
    Raw,            \* what sources list: [title, kind, venue, start, end, status,
                    \* url, lineup]
    NormOf,         \* NormOf[t]: normalize_title(t)
    Similar,        \* pairs of normal forms with token_set_ratio >= FUZZ_LINK_THRESHOLD
    DateWindow,     \* DATE_WINDOW
    MaxEvents,      \* bound: stored events
    None

VARIABLES
    stored,         \* rows of events, by id: what was listed last, and canonical_id
    canonicals      \* rows of canonical_events, by id

dedupVars == <<stored, canonicals>>

CanonicalRow == [kind : {raw.kind : raw \in Raw}, norm : {NormOf[raw.title] : raw \in Raw}]

DedupInit == stored = << >> /\ canonicals = << >>

\* _dates_compatible.
Compatible(a, b) ==
    LET lastOf(raw) == IF raw.end = None THEN raw.start ELSE raw.end
    IN \/ None \in {a.start, b.start}
       \/ /\ a.start <= lastOf(b) + DateWindow
          /\ b.start <= lastOf(a) + DateWindow

SameKind(raw) == {c \in DOMAIN canonicals : canonicals[c].kind = raw.kind}

\* Mutant: the exact match is looked up by the printed title.
ExactPrinted(raw) == {c \in SameKind(raw) : canonicals[c].norm = raw.title}

Exact(raw) == {c \in SameKind(raw) : canonicals[c].norm = NormOf[raw.title]}

Fuzzy(raw) == {c \in SameKind(raw) : <<NormOf[raw.title], canonicals[c].norm>> \in Similar}

Siblings(c) == {i \in DOMAIN stored : stored[i].canon = c}

\* The dates of the one sibling that is looked at fit, or do not.
Accepted(raw) ==
    {c \in Fuzzy(raw) :
        Siblings(c) = {} \/ \E i \in Siblings(c) : Compatible(raw, stored[i].raw)}

RefusedAll(raw) ==
    \A c \in Fuzzy(raw) : \E i \in Siblings(c) : ~Compatible(raw, stored[i].raw)

\* The canonical events that link_canonical may attach raw to; one past the last is
\* a new one.
Links(raw) ==
    IF Exact(raw) # {} THEN Exact(raw)
    ELSE Accepted(raw) \cup (IF RefusedAll(raw) THEN {Len(canonicals) + 1} ELSE {})

\* An event is stored for the first time.
Arrive(raw) ==
    /\ Len(stored) < MaxEvents
    /\ \E c \in Links(raw) :
        /\ stored' = Append(stored, [raw |-> raw, canon |-> c])
        /\ canonicals' = IF c \in DOMAIN canonicals THEN canonicals
                         ELSE Append(canonicals, [kind |-> raw.kind, norm |-> NormOf[raw.title]])

Fields == {"title", "start", "end", "status", "url", "lineup"}

\* The fields that field_changes finds changed: titles by their normal form.
Changed(old, new) ==
    {f \in Fields : IF f = "title" THEN NormOf[old.title] # NormOf[new.title] ELSE old[f] # new[f]}

\* A known event is listed differently, and its row becomes raw: the kind and the link
\* stay, and so do dates that are not listed any more.  A title that is only printed
\* differently is saved with the next change.
Relist(i, raw) ==
    /\ raw.kind = stored[i].raw.kind
    /\ \A f \in {"start", "end"} : raw[f] = None => stored[i].raw[f] = None
    /\ Changed(stored[i].raw, raw) = {} => raw.title = stored[i].raw.title
    /\ raw # stored[i].raw
    /\ stored' = [stored EXCEPT ![i].raw = raw]
    /\ UNCHANGED canonicals

DedupNext ==
    \/ \E raw \in Raw : Arrive(raw)
    \/ \E i \in DOMAIN stored, raw \in Raw : Relist(i, raw)

DedupSpec == DedupInit /\ [][DedupNext]_dedupVars

DedupTypeOK ==
    /\ canonicals \in Seq(CanonicalRow)
    /\ stored \in Seq([raw : Raw, canon : DOMAIN canonicals])

-----------------------------------------------------------------------------
(* Properties.                                                             *)

\* A title has one canonical event per kind, whatever arrives in whatever order
\* and is retitled meanwhile: the exact lookup (core/dedup.py:46) never has two
\* answers to choose from.
OneCanonicalPerTitle ==
    \A c, d \in DOMAIN canonicals : canonicals[c] = canonicals[d] => c = d

\* A row never moves to a canonical event of another kind, though listings
\* change every other field (core/ingest.py:119).
KindsMatch == \A i \in DOMAIN stored : stored[i].raw.kind = canonicals[stored[i].canon].kind
=============================================================================
