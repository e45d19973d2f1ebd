------------------------------- MODULE Rules -------------------------------
(***************************************************************************)
(* Which changes are pushed at once, and when alerts are held back:        *)
(* notify/rules.py, DEFAULT_RULES of config.py and in_quiet_hours of       *)
(* notify/dispatch.py.  Pure operators.                                    *)
(*                                                                         *)
(* A rule is [match, action, always]; match holds the fields that the rule *)
(* names with the values it wants.                                         *)
(***************************************************************************)
EXTENDS Naturals, Sequences, FiniteSetsExt

\* DEFAULT_RULES.
DefaultRules ==
    <<[match |-> [change_type |-> {"ticket_status"}, ticket_status_to |-> {"on_sale", "presale"}],
       action |-> "immediate", always |-> TRUE],
      [match |-> [change_type |-> {"added"}, source |-> {"ticketmaster"}],
       action |-> "digest", always |-> FALSE],
      [match |-> [change_type |-> {"added"}], action |-> "immediate", always |-> FALSE],
      [match |-> [change_type |-> {"updated", "removed", "ticket_status"}],
       action |-> "digest", always |-> FALSE]>>

\* Mutant: any field may match.
MatchesAny(match, subject) == \E f \in DOMAIN match : subject[f] \in match[f]

\* _matches, of every field: a missing value is in no rule's set.
Matches(match, subject) == \A f \in DOMAIN match : subject[f] \in match[f]

\* evaluate: the first matching rule wins; favorite venues are promoted unless the
\* change is ignored.
Evaluate(subject, rules, favorites) ==
    LET matching == {i \in DOMAIN rules : Matches(rules[i].match, subject)}
        won == IF matching = {} THEN [action |-> "digest", always |-> FALSE]
               ELSE LET rule == rules[Min(matching)]
                    IN [action |-> rule.action, always |-> rule.always]
    IN IF won.action # "ignore" /\ subject.venue \in favorites
       THEN [won EXCEPT !.action = "immediate"] ELSE won

\* in_quiet_hours, at minute t of the day.
InQuietHours(t, start, end) ==
    IF start <= end THEN start <= t /\ t < end
    ELSE t >= start \/ t < end
=============================================================================
