------------------------------- MODULE Lists -------------------------------
(***************************************************************************)
(* List comprehensions and sorted(), as Python evaluates them.  SelectSeq  *)
(* and SortSeq say the same, but nothing can be proved of what they        *)
(* return.                                                                 *)
(***************************************************************************)
EXTENDS Naturals, Sequences, FiniteSets

\* The members of s at the places in I, in their order.
Picked(s, I) ==
    LET upTo[n \in 0..Len(s)] ==
            IF n = 0 THEN << >>
            ELSE IF n \in I THEN Append(upTo[n - 1], s[n]) ELSE upTo[n - 1]
    IN upTo[Len(s)]

\* [x for x in s if Test(x)].
Only(s, Test(_)) == Picked(s, {i \in DOMAIN s : Test(s[i])})

\* The members of s by rank, where rank[i] is how many others come before the i-th.
Ranked(s, rank) == [k \in DOMAIN s |-> s[CHOOSE i \in DOMAIN s : rank[i] = k - 1]]

\* sorted(s), where Less compares the members at two places; it is stable.
SortBy(s, Less(_, _)) ==
    LET before(i) == {j \in DOMAIN s : Less(j, i) \/ (j < i /\ ~Less(i, j))}
    IN Ranked(s, [i \in DOMAIN s |-> Cardinality(before(i))])
=============================================================================
