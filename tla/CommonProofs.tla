---------------------------- MODULE CommonProofs ----------------------------
(***************************************************************************)
(* What the proofs of several components rest on: numbers and induction,   *)
(* the lists of Lists, and the rules of Rules, among them what the default *)
(* rules push, for every change there can be, and the arithmetic of quiet  *)
(* hours.                                                                  *)
(***************************************************************************)
EXTENDS Rules, Lists, Integers, SequencesExt, FiniteSetTheorems, WellFoundedInduction, TLAPS

-----------------------------------------------------------------------------
(* Numbers.                                                                *)

\* The least number of a set.
LEMMA LeastNat ==
    ASSUME NEW T, T \subseteq Nat, T # {}
    PROVE  \E x \in T : \A y \in T : x <= y
<1> DEFINE Below == {1..t : t \in T}
           R == StrictSubsetOrdering(Nat)
<1>1. IsWellFoundedOn(R, FiniteSubsetsOf(Nat))
    BY FS_StrictSubsetOrderingWellFounded
<1>2. Below \subseteq FiniteSubsetsOf(Nat) /\ Below # {}
    <2>1. ASSUME NEW t \in T
          PROVE  1..t \in FiniteSubsetsOf(Nat)
        BY FS_Interval DEF FiniteSubsetsOf
    <2> QED
        BY <2>1
<1>3. PICK I \in Below : \A J \in Below : ~(<<J, I>> \in R)
    <2> HIDE DEF Below, R
    <2> QED
        BY <1>1, <1>2, WFMin
<1>4. PICK x \in T : I = 1..x
    OBVIOUS
<1>5. ASSUME NEW y \in T
      PROVE  x <= y
    <2>1. x \in Nat /\ y \in Nat
        OBVIOUS
    <2>2. ASSUME y < x
          PROVE  FALSE
        <3>1. 1..y \subseteq 1..x /\ x \in 1..x /\ x \notin 1..y
            BY <2>1, <2>2
        <3>2. 1..y # 1..x /\ 1..y \in SUBSET Nat /\ 1..x \in SUBSET Nat
            BY <3>1
        <3>3. <<1..y, 1..x>> \in R
            BY <3>1, <3>2 DEF StrictSubsetOrdering
        <3> QED
            BY <1>3, <1>4, <3>3
    <2> QED
        BY <2>1, <2>2
<1> QED
    BY <1>4, <1>5

\* The greatest number of a set of numbers up to n.
LEMMA GreatestUpTo ==
    ASSUME NEW n \in Nat, NEW T, T \subseteq 0..n, T # {}
    PROVE  \E x \in T : \A y \in T : y <= x
<1> DEFINE Gap == {n - t : t \in T}
<1>1. Gap \subseteq Nat /\ Gap # {}
    OBVIOUS
<1>2. PICK g \in Gap : \A h \in Gap : g <= h
    <2> HIDE DEF Gap
    <2> QED
        BY <1>1, LeastNat
<1>3. PICK x \in T : g = n - x
    OBVIOUS
<1>4. ASSUME NEW y \in T
      PROVE  y <= x
    <2>1. n - y \in Gap
        OBVIOUS
    <2> QED
        BY <1>2, <1>3, <2>1
<1> QED
    BY <1>4

\* Division keeps the order.
LEMMA DivMonotone ==
    ASSUME NEW a \in Nat, NEW b \in Nat, NEW d \in Nat \ {0}, a <= b
    PROVE  a \div d \in 0..(b \div d)
<1>1. a \div d \in Nat /\ b \div d \in Nat
    OBVIOUS
<1>2. d * (a \div d) <= a /\ b < d * (b \div d) + d
    OBVIOUS
<1>3. ASSUME b \div d < a \div d
      PROVE  FALSE
    <2>1. (b \div d) + 1 <= a \div d
        BY <1>1, <1>3
    <2>2. d * ((b \div d) + 1) <= d * (a \div d)
        BY <1>1, <2>1
    <2>3. d * ((b \div d) + 1) = d * (b \div d) + d
        BY <1>1
    <2> QED
        BY <1>1, <1>2, <2>2, <2>3
<1> QED
    BY <1>1, <1>3

LEMMA LeastIsMin ==
    ASSUME NEW S \in SUBSET Nat, NEW m \in S, \A n \in S : m <= n
    PROVE  Min(S) = m
<1>1. ASSUME NEW n \in S, \A k \in S : n <= k
      PROVE  n = m
    <2>1. n <= m /\ m <= n /\ n \in Nat /\ m \in Nat
        BY <1>1
    <2> QED
        BY <2>1
<1> QED
    BY <1>1 DEF Min

-----------------------------------------------------------------------------
(* The default rules.                                                      *)

BuyTickets(subject) ==
    subject.change_type = "ticket_status" /\ subject.ticket_status_to \in {"on_sale", "presale"}

\* What the default rules push, and what of it in quiet hours, favorites aside.
LEMMA DefaultAlerts ==
    ASSUME NEW subject
    PROVE  LET verdict == Evaluate(subject, DefaultRules, {})
           IN /\ verdict.action = "immediate" =>
                    \/ BuyTickets(subject)
                    \/ subject.change_type = "added" /\ subject.source # "ticketmaster"
              /\ verdict.always => verdict.action = "immediate" /\ BuyTickets(subject)
<1> DEFINE matching == {i \in DOMAIN DefaultRules : Matches(DefaultRules[i].match, subject)}
           verdict == Evaluate(subject, DefaultRules, {})
<1>1. DOMAIN DefaultRules = 1..4
    BY DEF DefaultRules
<1>2. /\ DefaultRules[2].action = "digest" /\ DefaultRules[2].always = FALSE
      /\ DefaultRules[3].always = FALSE
      /\ DefaultRules[4].action = "digest" /\ DefaultRules[4].always = FALSE
      /\ DefaultRules[1].action = "immediate"
    BY DEF DefaultRules
<1>3. /\ Matches(DefaultRules[1].match, subject) => BuyTickets(subject)
      /\ Matches(DefaultRules[3].match, subject) => subject.change_type = "added"
      /\ subject.change_type = "added" /\ subject.source = "ticketmaster"
            => Matches(DefaultRules[2].match, subject)
    BY DEF DefaultRules, Matches, BuyTickets
<1>4. CASE matching = {}
    <2>1. verdict = [action |-> "digest", always |-> FALSE]
        BY <1>4 DEF Evaluate
    <2> QED
        BY <2>1
<1>5. ASSUME NEW i \in matching, \A k \in matching : i <= k
      PROVE  /\ verdict.action = DefaultRules[i].action
             /\ verdict.always = DefaultRules[i].always
    <2>1. Min(matching) = i
        BY <1>1, <1>5, LeastIsMin
    <2> QED
        BY <1>5, <2>1 DEF Evaluate
<1>6. CASE matching # {}
    <2>1. PICK i \in matching : \A k \in matching : i <= k
        <3>1. \A k \in matching : k \in 1..4
            BY <1>1
        <3> QED
            BY <1>6, <3>1
    <2>2. i \in 1..4 /\ Matches(DefaultRules[i].match, subject)
        BY <1>1
    <2>3. i = 3 => ~Matches(DefaultRules[2].match, subject)
        BY <1>1, <2>1
    <2> QED
        BY <1>2, <1>3, <1>5, <2>1, <2>2, <2>3
<1> QED
    BY <1>4, <1>6

-----------------------------------------------------------------------------
(* Quiet hours.                                                            *)

\* Minutes from the last time the clock showed `from' to when it shows t, in a day of
\* `day' minutes.
Since(from, t, day) == IF t >= from THEN t - from ELSE t + day - from

\* in_quiet_hours (notify/dispatch.py:41-48) is the arc of the clock from start to end,
\* over midnight or not: it is quiet exactly when less time has passed since the start
\* than the quiet hours last.  Equal bounds are no quiet hours at all, not a whole day.
THEOREM QuietIsAnArc ==
    ASSUME NEW day \in Nat, NEW t \in 0..(day - 1),
           NEW start \in 0..(day - 1), NEW end \in 0..(day - 1)
    PROVE  InQuietHours(t, start, end) <=> Since(start, t, day) < Since(start, end, day)
  BY DEF InQuietHours, Since

-----------------------------------------------------------------------------
(* Loops and folds.                                                        *)

\* Induction over the numbers up to n.
LEMMA UpTo ==
    ASSUME NEW n \in Nat, NEW J, 0 \in J, \A k \in 0..(n - 1) : k \in J => k + 1 \in J
    PROVE  0..n \subseteq J
<1> DEFINE Bad == {k \in 0..n : k \notin J}
<1>1. CASE Bad = {}
    BY <1>1
<1>2. CASE Bad # {}
    <2>1. PICK k \in Bad : \A j \in Bad : k <= j
        <3>1. Bad \subseteq Nat
            OBVIOUS
        <3> HIDE DEF Bad
        <3> QED
            BY <1>2, <3>1, LeastNat
    <2>2. k # 0 /\ k - 1 \in 0..(n - 1)
        BY <2>1
    <2>3. k - 1 \in J
        BY <2>1, <2>2
    <2>4. (k - 1) + 1 = k
        BY <2>2
    <2> QED
        BY <2>1, <2>2, <2>3, <2>4
<1> QED
    BY <1>1, <1>2

\* A list of numbers has a greatest member.
LEMMA GreatestOf ==
    ASSUME NEW n \in Nat \ {0}, NEW f, \A k \in 1..n : f[k] \in Int
    PROVE  \E k \in 1..n : \A j \in 1..n : f[j] <= f[k]
<1> DEFINE J == {m \in 0..n : m = 0 \/ \E k \in 1..m : \A j \in 1..m : f[j] <= f[k]}
<1>1. 0 \in J
    OBVIOUS
<1>2. ASSUME NEW m \in 0..(n - 1), m \in J
      PROVE  m + 1 \in J
    <2>1. CASE m = 0
        <3>1. \A j \in 1..(m + 1) : f[j] <= f[1]
            BY <2>1
        <3> QED
            BY <2>1, <3>1
    <2>2. CASE m # 0
        <3>1. PICK k \in 1..m : \A j \in 1..m : f[j] <= f[k]
            BY <1>2, <2>2
        <3>2. f[k] \in Int /\ f[m + 1] \in Int /\ \A j \in 1..m : f[j] \in Int
            BY <1>2
        <3>3. CASE f[m + 1] <= f[k]
            <4>1. \A j \in 1..(m + 1) : f[j] <= f[k]
                BY <1>2, <3>1, <3>3
            <4> QED
                BY <1>2, <3>1, <4>1
        <3>4. CASE f[k] < f[m + 1]
            <4>1. \A j \in 1..(m + 1) : f[j] <= f[m + 1]
                BY <1>2, <3>1, <3>2, <3>4
            <4> QED
                BY <1>2, <4>1
        <3> QED
            BY <3>2, <3>3, <3>4
    <2> QED
        BY <2>1, <2>2
<1>3. n \in J
    <2> HIDE DEF J
    <2>1. 0..n \subseteq J
        BY <1>1, <1>2, UpTo
    <2> QED
        BY <2>1
<1> QED
    BY <1>3

\* F gives the steps of a loop over the numbers up to n, and f the values it goes through
\* from base on.
IsLoop(F, n, V) == F \in [1..n -> [V -> V]]

IsRun(f, F, n, V, base) ==
    f \in [0..n -> V] /\ f[0] = base /\ \A k \in 1..n : f[k] = F[k][f[k - 1]]

\* Recursion over the numbers up to n.
LEMMA Recursion ==
    ASSUME NEW n \in Nat, NEW V, NEW base \in V, NEW F, IsLoop(F, n, V)
    PROVE  \E f : IsRun(f, F, n, V, base)
<1> DEFINE Has(m) == \E f \in [0..m -> V] : f[0] = base /\ \A k \in 1..m : f[k] = F[k][f[k - 1]]
           J == {m \in 0..n : Has(m)}
<1>0. F \in [1..n -> [V -> V]]
    BY DEF IsLoop
<1>1. 0 \in J
    <2> DEFINE f == [k \in 0..0 |-> base]
    <2>1. f \in [0..0 -> V] /\ f[0] = base /\ \A k \in 1..0 : f[k] = F[k][f[k - 1]]
        OBVIOUS
    <2> HIDE DEF f
    <2> QED
        BY <2>1
<1>2. ASSUME NEW m \in 0..(n - 1), m \in J
      PROVE  m + 1 \in J
    <2>1. PICK f \in [0..m -> V] : f[0] = base /\ \A k \in 1..m : f[k] = F[k][f[k - 1]]
        BY <1>2
    <2> DEFINE g == [k \in 0..(m + 1) |-> IF k = m + 1 THEN F[m + 1][f[m]] ELSE f[k]]
    <2>2. F[m + 1][f[m]] \in V
        BY <1>0
    <2>3. g \in [0..(m + 1) -> V]
        BY <2>2
    <2>4. g[0] = base
        BY <2>1
    <2>5. ASSUME NEW k \in 1..(m + 1)
          PROVE  g[k] = F[k][g[k - 1]]
        <3>1. CASE k = m + 1
            BY <3>1
        <3>2. CASE k # m + 1
            <4>1. k \in 1..m /\ k - 1 \in 0..m
                BY <3>2
            <4>2. f[k] = F[k][f[k - 1]]
                BY <2>1, <4>1
            <4> QED
                BY <3>2, <4>1, <4>2
        <3> QED
            BY <3>1, <3>2
    <2> HIDE DEF g
    <2>6. Has(m + 1)
        BY <2>3, <2>4, <2>5
    <2> HIDE DEF Has
    <2> QED
        BY <2>6
<1>3. n \in J
    <2> HIDE DEF J
    <2>1. 0..n \subseteq J
        BY <1>1, <1>2, UpTo
    <2> QED
        BY <2>1
<1> QED
    BY <1>3 DEF IsRun
\* g folds 1..n: from any set of numbers, the greatest one is taken first.
IsFold(g, F, n, V, base) ==
    /\ g \in [SUBSET (1..n) -> V]
    /\ \A S \in SUBSET (1..n) : g[S] = IF S = {} THEN base ELSE F[Max(S)][g[S \ {Max(S)}]]

\* The same of an iter whose values need not all be in V.
Folds(iter, F, n, V, base) ==
    \A S \in SUBSET (1..n) :
        /\ S = {} => iter[S] = base
        /\ S # {} /\ iter[S \ {Max(S)}] \in V => iter[S] = F[Max(S)][iter[S \ {Max(S)}]]

\* A fold picks out the greatest place of a set of places, again and again.
LEMMA FoldExists ==
    ASSUME NEW n \in Nat, NEW V, NEW base \in V, NEW F, IsLoop(F, n, V)
    PROVE  \E g : IsFold(g, F, n, V, base)
<1> DEFINE Has(m) == \E g \in [SUBSET (1..m) -> V] :
                        \A S \in SUBSET (1..m) :
                            g[S] = IF S = {} THEN base ELSE F[Max(S)][g[S \ {Max(S)}]]
           J == {m \in 0..n : Has(m)}
<1>0. F \in [1..n -> [V -> V]]
    BY DEF IsLoop
<1>1. 0 \in J
    <2> DEFINE g == [S \in SUBSET (1..0) |-> base]
    <2>1. SUBSET (1..0) = {{}}
        OBVIOUS
    <2>2. g \in [SUBSET (1..0) -> V] /\ \A S \in SUBSET (1..0) : S = {} /\ g[S] = base
        BY <2>1
    <2>3. \A S \in SUBSET (1..0) : g[S] = IF S = {} THEN base ELSE F[Max(S)][g[S \ {Max(S)}]]
        BY <2>2
    <2> HIDE DEF g
    <2>4. Has(0)
        BY <2>2, <2>3
    <2> HIDE DEF Has
    <2> QED
        BY <2>4
<1>2. ASSUME NEW m \in 0..(n - 1), m \in J
      PROVE  m + 1 \in J
    <2>1. PICK g \in [SUBSET (1..m) -> V] :
              \A S \in SUBSET (1..m) :
                  g[S] = IF S = {} THEN base ELSE F[Max(S)][g[S \ {Max(S)}]]
        BY <1>2
    <2> DEFINE last == m + 1
               h == [S \in SUBSET (1..last) |->
                        IF last \in S THEN F[last][g[S \ {last}]] ELSE g[S]]
    <2>2. last \in 1..n /\ last \in Nat /\ \A k \in 1..last : k # last => k \in 1..m
        OBVIOUS
    <2> HIDE DEF last
    <2>3. ASSUME NEW S \in SUBSET (1..last)
          PROVE  /\ last \in S => S \ {last} \in SUBSET (1..m) /\ Max(S) = last
                 /\ last \notin S => S \in SUBSET (1..m)
        <3>1. \A k \in S : k \in 1..last
            OBVIOUS
        <3>2. ASSUME last \in S
              PROVE  Max(S) = last
            <4>1. \A y \in S : last >= y
                BY <2>2, <3>1
            <4>2. ASSUME NEW x \in S, \A y \in S : x >= y
                  PROVE  x = last
                <5>1. x >= last /\ x \in 1..last
                    BY <3>1, <3>2, <4>2
                <5> QED
                    BY <2>2, <5>1
            <4> QED
                BY <3>2, <4>1, <4>2 DEF Max
        <3> QED
            BY <2>2, <3>1, <3>2
    <2>4. h \in [SUBSET (1..last) -> V]
        <3>1. ASSUME NEW S \in SUBSET (1..last)
              PROVE  (IF last \in S THEN F[last][g[S \ {last}]] ELSE g[S]) \in V
            <4>1. last \in S => g[S \ {last}] \in V
                BY <2>3
            <4>2. F[last] \in [V -> V]
                BY <1>0, <2>2
            <4> QED
                BY <2>3, <4>1, <4>2
        <3> QED
            BY <3>1
    <2>5. ASSUME NEW S \in SUBSET (1..last)
          PROVE  h[S] = IF S = {} THEN base ELSE F[Max(S)][h[S \ {Max(S)}]]
        <3>1. CASE last \in S
            <4>1. S \ {last} \in SUBSET (1..last) /\ last \notin S \ {last}
                OBVIOUS
            <4>2. h[S \ {last}] = g[S \ {last}]
                BY <4>1
            <4> QED
                BY <2>3, <3>1, <4>2
        <3>2. CASE last \notin S
            <4>1. S \in SUBSET (1..m) /\ h[S] = g[S]
                BY <2>3, <3>2
            <4>2. S \ {Max(S)} \in SUBSET (1..last) /\ last \notin S \ {Max(S)}
                BY <3>2
            <4>3. h[S \ {Max(S)}] = g[S \ {Max(S)}]
                BY <4>2
            <4> QED
                BY <2>1, <4>1, <4>3
        <3> QED
            BY <3>1, <3>2
    <2> HIDE DEF h
    <2>6. Has(last)
        BY <2>4, <2>5
    <2> HIDE DEF Has
    <2> QED
        BY <2>6 DEF last
<1>3. n \in J
    <2> HIDE DEF J
    <2>1. 0..n \subseteq J
        BY <1>1, <1>2, UpTo
    <2> QED
        BY <2>1
<1> QED
    BY <1>3 DEF IsFold

\* What a fold gives, step by step.
LEMMA FoldSteps ==
    ASSUME NEW n \in Nat, NEW iter, NEW V, NEW base \in V, NEW F, IsLoop(F, n, V),
           Folds(iter, F, n, V, base)
    PROVE  \E h : IsRun(h, F, n, V, base) /\ h[n] = iter[1..n]
<1> DEFINE h == [k \in 0..n |-> iter[1..k]]
           J == {k \in 0..n : h[k] \in V}
<1>0. F \in [1..n -> [V -> V]]
    BY DEF IsLoop
<1>1. ASSUME NEW k \in 1..n, h[k - 1] \in V
      PROVE  h[k] = F[k][h[k - 1]]
    <2>1. 1..k \in SUBSET (1..n) /\ 1..k # {} /\ k \in 1..k /\ k - 1 \in 0..n /\ k \in 0..n
        OBVIOUS
    <2>2. Max(1..k) = k
        <3>1. \A x \in 1..k : (\A y \in 1..k : x >= y) => x = k
            BY <2>1
        <3>2. \A y \in 1..k : k >= y
            OBVIOUS
        <3> QED
            BY <2>1, <3>1, <3>2 DEF Max
    <2>3. (1..k) \ {k} = 1..(k - 1)
        OBVIOUS
    <2>4. h[k - 1] = iter[1..(k - 1)] /\ h[k] = iter[1..k]
        BY <2>1
    <2> HIDE DEF h
    <2>5. iter[(1..k) \ {Max(1..k)}] \in V
        BY <1>1, <2>2, <2>3, <2>4
    <2>6. iter[1..k] = F[k][iter[1..(k - 1)]]
        BY <2>1, <2>2, <2>3, <2>5 DEF Folds
    <2> QED
        BY <2>4, <2>6
<1>2. h[0] = base
    <2>1. 1..0 = {} /\ {} \in SUBSET (1..n)
        OBVIOUS
    <2>2. iter[1..0] = base
        BY <2>1 DEF Folds
    <2> QED
        BY <2>2
<1>3. 0..n \subseteq J
    <2>1. 0 \in J
        BY <1>2
    <2>2. ASSUME NEW k \in 0..(n - 1), k \in J
          PROVE  k + 1 \in J
        <3>1. k + 1 \in 1..n /\ (k + 1) - 1 = k
            OBVIOUS
        <3>2. h[k + 1] = F[k + 1][h[k]] /\ h[k] \in V
            <4>1. h[k] \in V /\ h[(k + 1) - 1] \in V
                BY <2>2, <3>1
            <4> HIDE DEF h
            <4> QED
                BY <1>1, <3>1, <4>1
        <3> HIDE DEF h
        <3>3. F[k + 1] \in [V -> V]
            BY <1>0, <3>1
        <3> QED
            BY <3>1, <3>2, <3>3
    <2> HIDE DEF J
    <2> QED
        BY <2>1, <2>2, UpTo
<1>4. h \in [0..n -> V] /\ h[n] = iter[1..n]
    <2>1. \A k \in 0..n : iter[1..k] \in V
        BY <1>3
    <2> QED
        BY <2>1
<1> HIDE DEF h
<1>5. \A k \in 1..n : h[k] = F[k][h[k - 1]]
    <2>1. \A k \in 1..n : k - 1 \in 0..n
        OBVIOUS
    <2> QED
        BY <1>1, <1>4, <2>1
<1> QED
    BY <1>2, <1>4, <1>5 DEF IsRun

-----------------------------------------------------------------------------
(* Choices from a list, in its order.                                      *)

\* t has the members of s at the places in I, in their order; the k-th was at place at[k].
IsPicked(t, s, I, at) ==
    /\ at \in [DOMAIN t -> I]
    /\ \A k \in DOMAIN t : t[k] = s[at[k]]
    /\ \A k, l \in DOMAIN t : k < l => at[k] < at[l]
    /\ \A i \in I : \E k \in DOMAIN t : at[k] = i

\* One more place is picked, after the others.
LEMMA PickedMore ==
    ASSUME NEW V, NEW s \in Seq(V), NEW I, I \subseteq DOMAIN s, NEW t \in Seq(V), NEW at,
           IsPicked(t, s, I, at), NEW i \in DOMAIN s, \A j \in I : j < i
    PROVE  \E new : IsPicked(Append(t, s[i]), s, I \cup {i}, new)
<1> DEFINE u == Append(t, s[i])
           n == Len(t) + 1
           new == [k \in DOMAIN u |-> IF k = n THEN i ELSE at[k]]
<1>1. /\ DOMAIN u = DOMAIN t \cup {n} /\ n \notin DOMAIN t /\ DOMAIN t \subseteq Nat /\ n \in Nat
      /\ u[n] = s[i] /\ \A k \in DOMAIN t : u[k] = t[k] /\ k < n
    OBVIOUS
<1> HIDE DEF u, n
<1>2. \A k \in DOMAIN t : new[k] = at[k] /\ at[k] \in I
    BY <1>1 DEF IsPicked
<1>3. new[n] = i
    BY <1>1
<1>4. new \in [DOMAIN u -> I \cup {i}]
    BY <1>1 DEF IsPicked
<1> HIDE DEF new
<1>5. \A k \in DOMAIN u : u[k] = s[new[k]]
    BY <1>1, <1>2, <1>3 DEF IsPicked
<1>6. ASSUME NEW k \in DOMAIN u, NEW l \in DOMAIN u, k < l
      PROVE  new[k] < new[l]
    <2>1. CASE l = n
        <3>1. k \in DOMAIN t
            BY <1>1, <1>6, <2>1
        <3> QED
            BY <1>2, <1>3, <2>1, <3>1
    <2>2. CASE l # n
        <3>1. l \in DOMAIN t /\ k \in DOMAIN t
            BY <1>1, <1>6, <2>2
        <3> QED
            BY <1>2, <1>6, <3>1 DEF IsPicked
    <2> QED
        BY <2>1, <2>2
<1>7. \A j \in I \cup {i} : \E k \in DOMAIN u : new[k] = j
    BY <1>1, <1>2, <1>3 DEF IsPicked
<1>8. IsPicked(u, s, I \cup {i}, new)
    BY <1>4, <1>5, <1>6, <1>7 DEF IsPicked
<1> QED
    BY <1>8 DEF u

\* What the recursion of Picked gives.
LEMMA PickedIs ==
    ASSUME NEW V, NEW s \in Seq(V), NEW I, I \subseteq DOMAIN s
    PROVE  Picked(s, I) \in Seq(V) /\ \E at : IsPicked(Picked(s, I), s, I, at)
<1> DEFINE n == Len(s)
           Body(f, k) == IF k = 0 THEN << >>
                         ELSE IF k \in I THEN Append(f[k - 1], s[k]) ELSE f[k - 1]
           upTo == CHOOSE f : f = [k \in 0..n |-> Body(f, k)]
<1>1. Picked(s, I) = upTo[n]
    BY DEF Picked
<1>2. n \in Nat /\ DOMAIN s = 1..n
    OBVIOUS
<1>3. \E f : f = [k \in 0..n |-> Body(f, k)]
    <2> DEFINE F == [k \in 1..n |-> [u \in Seq(V) |-> IF k \in I THEN Append(u, s[k]) ELSE u]]
    <2>1. IsLoop(F, n, Seq(V))
        BY DEF IsLoop
    <2>0. PICK f : IsRun(f, F, n, Seq(V), << >>)
        <3>1. n \in Nat /\ << >> \in Seq(V)
            OBVIOUS
        <3> HIDE DEF F, n, Body, upTo
        <3> QED
            BY <2>1, <3>1, Recursion
    <2>2. f \in [0..n -> Seq(V)] /\ f[0] = << >> /\ \A k \in 1..n : f[k] = F[k][f[k - 1]]
        BY <2>0 DEF IsRun
    <2> HIDE DEF n, upTo
    <2>3. ASSUME NEW k \in 0..n
          PROVE  f[k] = Body(f, k)
        <3>1. CASE k = 0
            BY <2>2, <3>1
        <3>2. CASE k # 0
            <4>1. k \in 1..n
                BY <1>2, <3>2
            <4>2. k - 1 \in 0..n
                BY <1>2, <3>2
            <4>3. f[k - 1] \in Seq(V)
                BY <2>2, <4>2
            <4>4. f[k] = F[k][f[k - 1]]
                BY <2>2, <4>1
            <4> QED
                BY <3>2, <4>1, <4>3, <4>4
        <3> QED
            BY <3>1, <3>2
    <2>4. DOMAIN f = 0..n /\ f = [k \in DOMAIN f |-> f[k]]
        BY <2>2
    <2> HIDE DEF Body, F
    <2>5. [k \in 0..n |-> Body(f, k)] = [k \in 0..n |-> f[k]]
        BY <2>3
    <2>6. f = [k \in 0..n |-> Body(f, k)]
        BY <2>4, <2>5
    <2> QED
        BY <2>6
<1>4. upTo = [k \in 0..n |-> Body(upTo, k)]
    <2> HIDE DEF Body, n
    <2> QED
        BY <1>3
<1>5. upTo[0] = << >> /\ \A k \in 1..n : upTo[k] = IF k \in I THEN Append(upTo[k - 1], s[k]) ELSE upTo[k - 1]
    <2> HIDE DEF upTo, n
    <2>1. \A k \in 0..n : upTo[k] = Body(upTo, k)
        <3> HIDE DEF Body
        <3> QED
            BY <1>4
    <2>2. 0 \in 0..n /\ \A k \in 1..n : k \in 0..n /\ k # 0
        BY <1>2
    <2> QED
        BY <2>1, <2>2
<1> HIDE DEF upTo, n
<1> DEFINE Has(m) == upTo[m] \in Seq(V) /\ \E at : IsPicked(upTo[m], s, I \cap (1..m), at)
           J == {m \in 0..n : Has(m)}
<1>6. 0 \in J
    <2>1. I \cap (1..0) = {} /\ DOMAIN upTo[0] = {} /\ upTo[0] \in Seq(V)
        BY <1>5
    <2>2. IsPicked(upTo[0], s, I \cap (1..0), << >>)
        BY <2>1 DEF IsPicked
    <2> QED
        BY <1>2, <2>1, <2>2
<1>7. ASSUME NEW m \in 0..(n - 1), m \in J
      PROVE  m + 1 \in J
    <2>1. m + 1 \in 1..n /\ (m + 1) - 1 = m
        BY <1>2
    <2>2. PICK at : IsPicked(upTo[m], s, I \cap (1..m), at)
        BY <1>7
    <2>3. upTo[m] \in Seq(V)
        BY <1>7
    <2>4. Has(m + 1)
        <3>1. CASE m + 1 \in I
            <4>1. upTo[m + 1] = Append(upTo[m], s[m + 1])
                BY <1>5, <2>1, <3>1
            <4>2. I \cap (1..(m + 1)) = (I \cap (1..m)) \cup {m + 1}
                BY <1>2, <3>1
            <4>3. \E new : IsPicked(Append(upTo[m], s[m + 1]), s, (I \cap (1..m)) \cup {m + 1}, new)
                <5>1. I \cap (1..m) \subseteq DOMAIN s /\ m + 1 \in DOMAIN s
                      /\ \A j \in I \cap (1..m) : j < m + 1
                    BY <1>2, <2>1
                <5> QED
                    BY <2>2, <2>3, <5>1, PickedMore
            <4>4. Append(upTo[m], s[m + 1]) \in Seq(V)
                BY <1>2, <2>1, <2>3
            <4> QED
                BY <4>1, <4>2, <4>3, <4>4
        <3>2. CASE m + 1 \notin I
            <4>1. upTo[m + 1] = upTo[m]
                BY <1>5, <2>1, <3>2
            <4>2. I \cap (1..(m + 1)) = I \cap (1..m)
                BY <1>2, <3>2
            <4> QED
                BY <2>2, <2>3, <4>1, <4>2
        <3> QED
            BY <3>1, <3>2
    <2> HIDE DEF Has
    <2> QED
        BY <2>1, <2>4
<1>8. n \in J
    <2> HIDE DEF J
    <2>1. 0..n \subseteq J
        BY <1>2, <1>6, <1>7, UpTo
    <2> QED
        BY <1>2, <2>1
<1>9. I \cap (1..n) = I
    BY <1>2
<1> QED
    BY <1>1, <1>8, <1>9

-----------------------------------------------------------------------------
(* Sorted lists.                                                           *)

\* B[i] are the places that come before i: a strict order of the places 1..n in a line.
InLine(B, n) ==
    /\ B \in [1..n -> SUBSET (1..n)]
    /\ \A i \in 1..n : i \notin B[i]
    /\ \A i, j \in 1..n : j \in B[i] => B[j] \subseteq B[i]
    /\ \A i, j \in 1..n : i # j => i \in B[j] \/ j \in B[i]

\* at[k] is the place whose member comes to be k-th.
Places(B, at, n) ==
    /\ at \in [1..n -> 1..n]
    /\ \A i \in 1..n : \E k \in 1..n : at[k] = i
    /\ \A k, l \in 1..n : k < l => at[k] \in B[at[l]]

Ranks(s, B) == [i \in DOMAIN s |-> Cardinality(B[i])]

Arranged(s, at, n) == [k \in 1..n |-> s[at[k]]]

\* How many come before each place tells the places apart and orders them.
LEMMA RanksDiffer ==
    ASSUME NEW n \in Nat, NEW B, InLine(B, n), NEW i \in 1..n, NEW j \in 1..n
    PROVE  /\ Cardinality(B[i]) \in 0..(n - 1)
           /\ j \in B[i] <=> Cardinality(B[j]) < Cardinality(B[i])
<1>1. IsFiniteSet(1..n) /\ Cardinality(1..n) = n
    BY FS_Interval
<1>2. ASSUME NEW k \in 1..n
      PROVE  IsFiniteSet(B[k]) /\ Cardinality(B[k]) \in 0..(n - 1)
    <2>1. B[k] \in SUBSET (1..n) /\ B[k] # 1..n
        BY DEF InLine
    <2>2. IsFiniteSet(B[k]) /\ Cardinality(B[k]) <= n /\ Cardinality(B[k]) # n
        BY <1>1, <2>1, FS_Subset
    <2> QED
        BY <2>2, FS_CardinalityType
<1>3. ASSUME NEW k \in 1..n, NEW l \in 1..n, k \in B[l]
      PROVE  Cardinality(B[k]) < Cardinality(B[l])
    <2>1. B[k] \in SUBSET B[l] /\ B[k] # B[l]
        BY <1>3 DEF InLine
    <2>2. IsFiniteSet(B[l])
        BY <1>2
    <2>3. Cardinality(B[k]) <= Cardinality(B[l]) /\ Cardinality(B[k]) # Cardinality(B[l])
        BY <2>1, <2>2, FS_Subset
    <2> QED
        BY <1>2, <2>3
<1>4. ASSUME Cardinality(B[j]) < Cardinality(B[i])
      PROVE  j \in B[i]
    <2>1. CASE i = j
        BY <1>2, <1>4, <2>1
    <2>2. CASE i # j
        <3>1. i \in B[j] => Cardinality(B[i]) < Cardinality(B[j])
            BY <1>3
        <3>2. i \notin B[j]
            BY <1>2, <1>4, <3>1
        <3> QED
            BY <2>2, <3>2 DEF InLine
    <2> QED
        BY <2>1, <2>2
<1> QED
    BY <1>2, <1>3, <1>4

\* What a sorted list is: the members of s at all its places, in line.
LEMMA RankedIs ==
    ASSUME NEW s, NEW n \in Nat, DOMAIN s = 1..n, NEW B, InLine(B, n)
    PROVE  \E at : Places(B, at, n) /\ Ranked(s, Ranks(s, B)) = Arranged(s, at, n)
<1> DEFINE rank == [i \in 1..n |-> Cardinality(B[i])]
           at == [k \in 1..n |-> CHOOSE i \in 1..n : rank[i] = k - 1]
           S == 0..(n - 1)
<1>1. rank \in Injection(1..n, S)
    <2>1. rank \in [1..n -> S]
        BY RanksDiffer
    <2>2. ASSUME NEW i \in 1..n, NEW j \in 1..n, rank[i] = rank[j]
          PROVE  i = j
        <3>1. j \notin B[i] /\ i \notin B[j]
            BY <2>2, RanksDiffer
        <3> QED
            BY <3>1 DEF InLine
    <2> HIDE DEF rank
    <2> QED
        BY <2>1, <2>2 DEF Injection, IsInjective
<1>2. rank \in Surjection(1..n, S)
    <2>0. 0 \in Int /\ 1 \in Int /\ n - 1 \in Int /\ n \in Int
        OBVIOUS
    <2>1. IsFiniteSet(S) /\ Cardinality(S) = n /\ Cardinality(1..n) = n
        <3>1. Cardinality(S) = IF 0 > n - 1 THEN 0 ELSE n - 1 - 0 + 1
            BY <2>0, FS_Interval
        <3>2. IsFiniteSet(S)
            BY <2>0, FS_Interval
        <3>3. Cardinality(1..n) = IF 1 > n THEN 0 ELSE n - 1 + 1
            BY <2>0, FS_Interval
        <3> HIDE DEF S
        <3> QED
            BY <3>1, <3>2, <3>3
    <2> HIDE DEF rank, S
    <2> QED
        BY <1>1, <2>1, FS_Injection
<1>3. ASSUME NEW k \in 1..n
      PROVE  at[k] \in 1..n /\ rank[at[k]] = k - 1
    <2>1. k - 1 \in S
        OBVIOUS
    <2>2. \E i \in 1..n : rank[i] = k - 1
        <3> HIDE DEF rank, S
        <3> QED
            BY <1>2, <2>1 DEF Surjection
    <2> HIDE DEF rank
    <2> QED
        BY <2>2
<1>4. at \in [1..n -> 1..n]
    BY <1>3
<1>5. ASSUME NEW i \in 1..n
      PROVE  \E k \in 1..n : at[k] = i
    <2>1. rank[i] \in 0..(n - 1)
        BY RanksDiffer
    <2>2. rank[i] + 1 \in 1..n /\ (rank[i] + 1) - 1 = rank[i]
        BY <2>1
    <2>3. rank[at[rank[i] + 1]] = rank[i]
        <3> HIDE DEF rank, at
        <3> QED
            BY <1>3, <2>2
    <2>4. at[rank[i] + 1] = i
        <3> HIDE DEF rank, at
        <3> QED
            BY <1>1, <1>4, <2>2, <2>3 DEF Injection, IsInjective
    <2> QED
        BY <2>2, <2>4
<1>6. ASSUME NEW k \in 1..n, NEW l \in 1..n, k < l
      PROVE  at[k] \in B[at[l]]
    <2>1. rank[at[k]] = k - 1 /\ rank[at[l]] = l - 1 /\ at[k] \in 1..n /\ at[l] \in 1..n
        BY <1>3
    <2> HIDE DEF at
    <2>2. Cardinality(B[at[k]]) < Cardinality(B[at[l]])
        BY <1>6, <2>1
    <2> QED
        BY <2>1, <2>2, RanksDiffer
<1>7. Ranked(s, [i \in DOMAIN s |-> Cardinality(B[i])]) = [k \in 1..n |-> s[at[k]]]
    <2>1. Ranked(s, rank) = [k \in DOMAIN s |-> s[CHOOSE i \in DOMAIN s : rank[i] = k - 1]]
        <3> HIDE DEF rank
        <3> QED
            BY DEF Ranked
    <2>2. Ranked(s, rank) = [k \in 1..n |-> s[CHOOSE i \in 1..n : rank[i] = k - 1]]
        <3> HIDE DEF rank
        <3> QED
            BY <2>1
    <2>3. \A k \in 1..n : at[k] = CHOOSE i \in 1..n : rank[i] = k - 1
        <3> HIDE DEF rank
        <3> QED
            OBVIOUS
    <2> HIDE DEF at
    <2>4. Ranked(s, rank) = [k \in 1..n |-> s[at[k]]]
        BY <2>2, <2>3
    <2> QED
        BY <2>4
<1>8. Places(B, at, n)
    <2> HIDE DEF at
    <2> QED
        BY <1>4, <1>5, <1>6 DEF Places
<1>9. Ranked(s, Ranks(s, B)) = Arranged(s, at, n)
    BY <1>7 DEF Ranks, Arranged
<1> HIDE DEF at
<1> QED
    BY <1>8, <1>9

-----------------------------------------------------------------------------
(* Lists of lists.                                                         *)

\* Lists of lists.
LEMMA FlattenIs ==
    ASSUME NEW V, NEW ss \in Seq(Seq(V)), ss # << >>
    PROVE  \E h : /\ h \in [1..Len(ss) -> Seq(V)]
                  /\ h[1] = ss[1]
                  /\ \A k \in 2..Len(ss) : h[k] = h[k - 1] \o ss[k]
                  /\ FlattenSeq(ss) = h[Len(ss)]
<1> DEFINE n == Len(ss)
           Body(f, k) == IF k = 1 THEN ss[k] ELSE f[k - 1] \o ss[k]
           flatten == CHOOSE f : f = [k \in 1..n |-> Body(f, k)]
<1>1. n \in Nat \ {0} /\ DOMAIN ss = 1..n /\ \A k \in 1..n : ss[k] \in Seq(V)
    OBVIOUS
<1>2. FlattenSeq(ss) = flatten[n]
    BY <1>1 DEF FlattenSeq
<1>3. PICK g \in [1..n -> Seq(V)] : g = [k \in 1..n |-> Body(g, k)]
    <2> DEFINE F == [k \in 1..n |-> [u \in Seq(V) |-> IF k = 1 THEN ss[k] ELSE u \o ss[k]]]
    <2>1. IsLoop(F, n, Seq(V))
        <3>1. \A k \in 1..n, u \in Seq(V) : (IF k = 1 THEN ss[k] ELSE u \o ss[k]) \in Seq(V)
            <4> HIDE DEF n
            <4> QED
                BY <1>1
        <3> HIDE DEF n
        <3> QED
            BY <3>1 DEF IsLoop
    <2>2. PICK f : IsRun(f, F, n, Seq(V), << >>)
        <3>1. n \in Nat /\ << >> \in Seq(V)
            OBVIOUS
        <3> HIDE DEF F, n, Body, flatten
        <3> QED
            BY <2>1, <3>1, Recursion
    <2>3. f \in [0..n -> Seq(V)] /\ \A k \in 1..n : f[k] = F[k][f[k - 1]]
        BY <2>2 DEF IsRun
    <2> HIDE DEF n, flatten
    <2> DEFINE g == [k \in 1..n |-> f[k]]
    <2>4. ASSUME NEW k \in 1..n
          PROVE  g[k] = Body(g, k) /\ g[k] \in Seq(V)
        <3>1. k - 1 \in 0..n /\ k \in 0..n /\ (k # 1 => k - 1 \in 1..n)
            BY <1>1
        <3>2. f[k] = F[k][f[k - 1]] /\ f[k - 1] \in Seq(V) /\ f[k] \in Seq(V)
            BY <2>3, <3>1
        <3>3. k # 1 => g[k - 1] = f[k - 1]
            BY <3>1
        <3> QED
            BY <3>2, <3>3
    <2>5. g \in [1..n -> Seq(V)]
        BY <2>4
    <2>6. g = [k \in 1..n |-> g[k]]
        OBVIOUS
    <2> HIDE DEF Body, F, g
    <2>7. [k \in 1..n |-> Body(g, k)] = [k \in 1..n |-> g[k]]
        BY <2>4
    <2> QED
        BY <2>5, <2>6, <2>7
<1>4. flatten = [k \in 1..n |-> Body(flatten, k)]
    <2> HIDE DEF Body, n
    <2> QED
        BY <1>3
<1>5. flatten[1] = ss[1] /\ \A k \in 2..n : flatten[k] = flatten[k - 1] \o ss[k]
    <2> HIDE DEF flatten, n
    <2>1. \A k \in 1..n : flatten[k] = Body(flatten, k)
        <3> HIDE DEF Body
        <3> QED
            BY <1>4
    <2>2. 1 \in 1..n /\ \A k \in 2..n : k \in 1..n /\ k # 1
        BY <1>1
    <2> QED
        BY <2>1, <2>2
<1> HIDE DEF flatten, n
<1> DEFINE J == {k \in 0..n : k = 0 \/ flatten[k] \in Seq(V)}
<1>6. 0..n \subseteq J
    <2>1. 0 \in J
        BY <1>1
    <2>2. ASSUME NEW k \in 0..(n - 1), k \in J
          PROVE  k + 1 \in J
        <3>1. CASE k = 0
            <4>1. flatten[1] \in Seq(V) /\ 1 \in 1..n
                BY <1>1, <1>5
            <4> QED
                BY <1>1, <3>1, <4>1
        <3>2. CASE k # 0
            <4>1. k + 1 \in 2..n /\ (k + 1) - 1 = k /\ k + 1 \in 1..n
                BY <1>1, <3>2
            <4>2. flatten[k + 1] = flatten[k] \o ss[k + 1] /\ flatten[k] \in Seq(V) /\ ss[k + 1] \in Seq(V)
                BY <1>1, <1>5, <2>2, <3>2, <4>1
            <4>3. flatten[k + 1] \in Seq(V)
                BY <4>2
            <4> QED
                BY <1>1, <4>1, <4>3
        <3> QED
            BY <3>1, <3>2
    <2> HIDE DEF J
    <2> QED
        BY <1>1, <2>1, <2>2, UpTo
<1>7. \A k \in 1..n : flatten[k] \in Seq(V)
    BY <1>1, <1>6
<1>8. DOMAIN flatten = 1..n /\ flatten = [k \in DOMAIN flatten |-> flatten[k]]
    BY <1>4
<1>9. flatten \in [1..n -> Seq(V)]
    BY <1>7, <1>8
<1> QED
    BY <1>2, <1>5, <1>9 DEF n

\* The last list comes last.
LEMMA FlattenLast ==
    ASSUME NEW V, NEW ss \in Seq(Seq(V)), NEW front \in Seq(Seq(V)), Len(ss) = Len(front) + 1,
           \A k \in 1..Len(front) : ss[k] = front[k]
    PROVE  /\ FlattenSeq(front) \in Seq(V)
           /\ FlattenSeq(ss) = FlattenSeq(front) \o ss[Len(ss)]
<1> DEFINE n == Len(ss)
           m == Len(front)
<1>1. n \in Nat \ {0} /\ m \in Nat /\ n = m + 1 /\ ss # << >> /\ ss[n] \in Seq(V)
    OBVIOUS
<1>2. PICK h : /\ h \in [1..n -> Seq(V)]
               /\ h[1] = ss[1]
               /\ \A k \in 2..n : h[k] = h[k - 1] \o ss[k]
               /\ FlattenSeq(ss) = h[n]
    BY <1>1, FlattenIs
<1>3. CASE m = 0
    <2>1. front = << >>
        BY <1>3
    <2>2. FlattenSeq(front) = << >>
        BY <2>1 DEF FlattenSeq
    <2>3. n = 1
        BY <1>1, <1>3
    <2> HIDE DEF n, m
    <2>4. << >> \o ss[n] = ss[n]
        BY <1>1
    <2> QED
        BY <1>2, <2>2, <2>3, <2>4 DEF n
<1>4. CASE m # 0
    <2>1. front # << >>
        BY <1>4
    <2>2. PICK g : /\ g \in [1..m -> Seq(V)]
                   /\ g[1] = front[1]
                   /\ \A k \in 2..m : g[k] = g[k - 1] \o front[k]
                   /\ FlattenSeq(front) = g[m]
        BY <2>1, FlattenIs
    <2>0. \A k \in 1..m : ss[k] = front[k]
        OBVIOUS
    <2> HIDE DEF n, m
    <2> DEFINE J == {k \in 0..m : k = 0 \/ g[k] = h[k]}
    <2>3. 0..m \subseteq J
        <3>1. 0 \in J
            BY <1>1
        <3>2. ASSUME NEW k \in 0..(m - 1), k \in J
              PROVE  k + 1 \in J
            <4>1. CASE k = 0
                <5>1. 1 \in 1..m
                    BY <1>1, <1>4
                <5>2. g[1] = h[1]
                    BY <1>2, <2>0, <2>2, <5>1
                <5> QED
                    BY <1>1, <4>1, <5>1, <5>2
            <4>2. CASE k # 0
                <5>1. k + 1 \in 2..m /\ (k + 1) - 1 = k /\ k + 1 \in 2..n /\ k + 1 \in 1..m
                    BY <1>1, <4>2
                <5>3. g[k] = h[k]
                    BY <3>2, <4>2
                <5>4. ss[k + 1] = front[k + 1]
                    BY <2>0, <5>1
                <5>5. g[k + 1] = g[k] \o front[k + 1]
                    BY <2>2, <5>1
                <5>6. h[k + 1] = h[k] \o ss[k + 1]
                    BY <1>2, <5>1
                <5>2. g[k + 1] = h[k + 1]
                    BY <5>3, <5>4, <5>5, <5>6
                <5> QED
                    BY <1>1, <5>1, <5>2
            <4> QED
                BY <4>1, <4>2
        <3> HIDE DEF J
        <3> QED
            BY <1>1, <3>1, <3>2, UpTo
    <2>4. g[m] = h[m]
        BY <1>1, <1>4, <2>3
    <2>5. n \in 2..n /\ n - 1 = m
        BY <1>1, <1>4
    <2>6. h[n] = h[m] \o ss[n]
        BY <1>2, <2>5
    <2>7. m \in 1..m /\ g[m] \in Seq(V)
        BY <1>1, <1>4, <2>2
    <2> QED
        BY <1>2, <2>2, <2>4, <2>6, <2>7 DEF n
<1> QED
    BY <1>3, <1>4

-----------------------------------------------------------------------------
(* Loops that merge each member of a list into one with the same tag.      *)

\* F[k] absorbs the k-th member of t by the member that has its tag, or puts it at the
\* end, in a list of what earlier ones have become.
Absorbs(F, t, tag, A, good, n, V) ==
    \A k \in 1..n, u \in Seq(V) :
        (\A j \in DOMAIN u : \E i \in 1..(k - 1) : u[j] \in good[k - 1][i]) =>
        /\ (\A j \in DOMAIN u : tag[u[j]] # tag[t[k]]) => F[k][u] = Append(u, t[k])
        /\ \A j \in DOMAIN u :
            /\ tag[u[j]] = tag[t[k]]
            /\ \A i \in DOMAIN u : tag[u[i]] = tag[t[k]] => i = j
            => F[k][u] = [u EXCEPT ![j] = A[k][u[j]]]

IsFirst(t, tag, i) == \A j \in 1..(i - 1) : tag[t[j]] # tag[t[i]]

\* good[k][i] is what the i-th member, the first of its tag, has become of the first k.
Becomes(good, t, tag, A, n, V) ==
    /\ \A k \in 1..n, i \in 1..n : \A v \in good[k][i] : v \in V /\ tag[v] = tag[t[i]]
    /\ \A i \in 1..n : t[i] \in V /\ (IsFirst(t, tag, i) => t[i] \in good[i][i])
    /\ \A k \in 1..n, i \in 1..n : i < k =>
        \A v \in good[k - 1][i] :
            IF tag[t[k]] = tag[t[i]] THEN A[k][v] \in good[k][i] ELSE v \in good[k][i]

\* out has one member for each tag in the first k of t, in the order of their first ones;
\* the j-th of out is what the at[j]-th of t has become.
MergedAt(out, at, good, t, tag, k) ==
    /\ at \in [DOMAIN out -> 1..k]
    /\ \A j \in DOMAIN out : out[j] \in good[k][at[j]] /\ IsFirst(t, tag, at[j])
    /\ \A i, j \in DOMAIN out : i < j => at[i] < at[j]
    /\ \A i \in 1..k : \E j \in DOMAIN out : tag[t[at[j]]] = tag[t[i]]

\* Merged members have different tags.
LEMMA OneOfATag ==
    ASSUME NEW out, DOMAIN out \subseteq Nat, NEW at, NEW good, NEW t, NEW tag, NEW k \in Nat,
           MergedAt(out, at, good, t, tag, k),
           NEW i \in DOMAIN out, NEW j \in DOMAIN out, tag[t[at[i]]] = tag[t[at[j]]]
    PROVE  i = j
<1>1. at[i] \in 1..k /\ at[j] \in 1..k
    BY DEF MergedAt
<1>2. ASSUME NEW a \in DOMAIN out, NEW b \in DOMAIN out, a < b, tag[t[at[a]]] = tag[t[at[b]]]
      PROVE  FALSE
    <2>1. at[a] < at[b] /\ at[a] \in 1..k /\ at[b] \in 1..k /\ IsFirst(t, tag, at[b])
        BY <1>2 DEF MergedAt
    <2>2. at[a] \in 1..(at[b] - 1)
        BY <2>1
    <2> QED
        BY <1>2, <2>1, <2>2 DEF IsFirst
<1>3. ~(i < j) /\ ~(j < i)
    BY <1>2
<1>4. i \in Nat /\ j \in Nat
    OBVIOUS
<1> QED
    BY <1>3, <1>4

\* The next member is absorbed by the one that has its tag, or becomes the last one.
LEMMA MergingOne ==
    ASSUME NEW n \in Nat, NEW V, NEW F, NEW t, NEW tag, NEW A, NEW good,
           Absorbs(F, t, tag, A, good, n, V), Becomes(good, t, tag, A, n, V),
           NEW k \in 1..n, NEW u \in Seq(V), NEW at, MergedAt(u, at, good, t, tag, k - 1)
    PROVE  \E new : MergedAt(F[k][u], new, good, t, tag, k)
<1>1. k - 1 \in Nat /\ 1..(k - 1) \subseteq 1..n /\ 1..(k - 1) \subseteq 1..k /\ k \in 1..k
      /\ DOMAIN u \subseteq Nat /\ (\A i \in 1..k : i # k => i \in 1..(k - 1))
    OBVIOUS
<1>2. ASSUME NEW j \in DOMAIN u
      PROVE  /\ at[j] \in 1..(k - 1) /\ u[j] \in good[k - 1][at[j]] /\ u[j] \in V
             /\ tag[u[j]] = tag[t[at[j]]]
    <2>1. at[j] \in 1..(k - 1) /\ u[j] \in good[k - 1][at[j]]
        BY DEF MergedAt
    <2>2. k - 1 \in 1..n /\ at[j] \in 1..n
        BY <1>1, <2>1
    <2> QED
        BY <2>1, <2>2 DEF Becomes
<1>3. ASSUME NEW j \in DOMAIN u, tag[u[j]] # tag[t[k]]
      PROVE  u[j] \in good[k][at[j]]
    <2>1. at[j] \in 1..n /\ at[j] < k /\ tag[t[k]] # tag[t[at[j]]]
        BY <1>1, <1>2, <1>3
    <2> QED
        BY <1>2, <2>1 DEF Becomes
<1>0. \A j \in DOMAIN u : \E i \in 1..(k - 1) : u[j] \in good[k - 1][i]
    BY <1>2
<1>4. CASE \A j \in DOMAIN u : tag[u[j]] # tag[t[k]]
    <2> DEFINE w == Append(u, t[k])
               m == Len(u) + 1
               new == [j \in DOMAIN w |-> IF j = m THEN k ELSE at[j]]
    <2>1. F[k][u] = w
        BY <1>0, <1>4 DEF Absorbs
    <2>2. /\ DOMAIN w = DOMAIN u \cup {m} /\ m \notin DOMAIN u /\ m \in Nat
          /\ w[m] = t[k] /\ \A j \in DOMAIN u : w[j] = u[j] /\ j < m /\ j # m
        OBVIOUS
    <2> HIDE DEF w, m
    <2>3. new[m] = k /\ \A j \in DOMAIN u : new[j] = at[j]
        BY <2>2
    <2>4. IsFirst(t, tag, k) /\ t[k] \in good[k][k]
        <3>1. ASSUME NEW i \in 1..(k - 1), tag[t[i]] = tag[t[k]]
              PROVE  FALSE
            <4>1. PICK j \in DOMAIN u : tag[t[at[j]]] = tag[t[i]]
                BY DEF MergedAt
            <4> QED
                BY <1>2, <1>4, <3>1, <4>1
        <3> QED
            BY <3>1 DEF IsFirst, Becomes
    <2>5. new \in [DOMAIN w -> 1..k]
        BY <1>1, <1>2, <2>2
    <2> HIDE DEF new
    <2>6. \A j \in DOMAIN w : w[j] \in good[k][new[j]] /\ IsFirst(t, tag, new[j])
        BY <1>3, <1>4, <2>2, <2>3, <2>4 DEF MergedAt
    <2>7. ASSUME NEW i \in DOMAIN w, NEW j \in DOMAIN w, i < j
          PROVE  new[i] < new[j]
        <3>1. CASE j = m
            <4>1. i \in DOMAIN u
                BY <2>2, <2>7, <3>1
            <4>2. new[i] \in 1..(k - 1) /\ new[j] = k
                BY <1>2, <2>3, <3>1, <4>1
            <4> QED
                BY <4>2
        <3>2. CASE j # m
            <4>1. j \in DOMAIN u /\ i \in DOMAIN u
                BY <2>2, <2>7, <3>2
            <4> QED
                BY <2>3, <2>7, <4>1 DEF MergedAt
        <3> QED
            BY <3>1, <3>2
    <2>8. \A i \in 1..k : \E j \in DOMAIN w : tag[t[new[j]]] = tag[t[i]]
        <3>1. ASSUME NEW i \in 1..(k - 1)
              PROVE  \E j \in DOMAIN w : tag[t[new[j]]] = tag[t[i]]
            <4>1. PICK j \in DOMAIN u : tag[t[at[j]]] = tag[t[i]]
                BY DEF MergedAt
            <4> QED
                BY <2>2, <2>3, <4>1
        <3> QED
            BY <1>1, <2>2, <2>3, <3>1
    <2>9. MergedAt(w, new, good, t, tag, k)
        BY <2>5, <2>6, <2>7, <2>8 DEF MergedAt
    <2> QED
        BY <2>1, <2>9
<1>5. CASE \E j \in DOMAIN u : tag[u[j]] = tag[t[k]]
    <2>1. PICK j \in DOMAIN u : tag[u[j]] = tag[t[k]]
        BY <1>5
    <2>2. ASSUME NEW i \in DOMAIN u, tag[u[i]] = tag[t[k]]
          PROVE  i = j
        <3>1. tag[t[at[i]]] = tag[t[at[j]]]
            BY <1>2, <2>1, <2>2
        <3> QED
            BY <1>1, <3>1, OneOfATag
    <2> DEFINE w == [u EXCEPT ![j] = A[k][u[j]]]
    <2>3. F[k][u] = w
        BY <1>0, <2>1, <2>2 DEF Absorbs
    <2>4. DOMAIN w = DOMAIN u /\ w[j] = A[k][u[j]] /\ \A i \in DOMAIN u : i # j => w[i] = u[i]
        OBVIOUS
    <2> HIDE DEF w
    <2>5. A[k][u[j]] \in good[k][at[j]]
        <3>1. at[j] \in 1..n /\ at[j] < k /\ tag[t[k]] = tag[t[at[j]]]
            BY <1>1, <1>2, <2>1
        <3> QED
            BY <1>2, <3>1 DEF Becomes
    <2>6. ASSUME NEW i \in DOMAIN w
          PROVE  w[i] \in good[k][at[i]] /\ IsFirst(t, tag, at[i])
        BY <1>3, <2>2, <2>4, <2>5 DEF MergedAt
    <2>7. at \in [DOMAIN w -> 1..k]
        BY <1>1, <2>4 DEF MergedAt
    <2>8. \A a, b \in DOMAIN w : a < b => at[a] < at[b]
        BY <2>4 DEF MergedAt
    <2>9. \A i \in 1..k : \E a \in DOMAIN w : tag[t[at[a]]] = tag[t[i]]
        <3>1. \A i \in 1..(k - 1) : \E a \in DOMAIN w : tag[t[at[a]]] = tag[t[i]]
            BY <2>4 DEF MergedAt
        <3>2. tag[t[at[j]]] = tag[t[k]] /\ j \in DOMAIN w
            BY <1>2, <2>1, <2>4
        <3> QED
            BY <1>1, <3>1, <3>2
    <2>10. MergedAt(w, at, good, t, tag, k)
        BY <2>6, <2>7, <2>8, <2>9 DEF MergedAt
    <2> QED
        BY <2>3, <2>10
<1> QED
    BY <1>4, <1>5

\* What a loop of merges makes of a list.
LEMMA Merging ==
    ASSUME NEW n \in Nat, NEW V, NEW F, NEW h, IsRun(h, F, n, Seq(V), << >>),
           NEW t, NEW tag, NEW A, NEW good,
           Absorbs(F, t, tag, A, good, n, V), Becomes(good, t, tag, A, n, V)
    PROVE  \E at : MergedAt(h[n], at, good, t, tag, n)
<1> DEFINE J == {k \in 0..n : \E at : MergedAt(h[k], at, good, t, tag, k)}
<1>1. h \in [0..n -> Seq(V)] /\ h[0] = << >> /\ \A k \in 1..n : h[k] = F[k][h[k - 1]]
    BY DEF IsRun
<1>2. 0 \in J
    <2>1. DOMAIN h[0] = {} /\ 1..0 = {}
        BY <1>1
    <2>2. MergedAt(h[0], << >>, good, t, tag, 0)
        BY <2>1 DEF MergedAt
    <2> QED
        BY <2>2
<1>3. ASSUME NEW k \in 0..(n - 1), k \in J
      PROVE  k + 1 \in J
    <2>1. k + 1 \in 1..n /\ (k + 1) - 1 = k /\ k \in 0..n /\ k + 1 \in 0..n
        OBVIOUS
    <2>2. PICK at : MergedAt(h[k], at, good, t, tag, k)
        BY <1>3
    <2>3. h[k] \in Seq(V) /\ h[k + 1] = F[k + 1][h[k]]
        BY <1>1, <2>1
    <2> HIDE DEF J
    <2>4. \E new : MergedAt(F[k + 1][h[k]], new, good, t, tag, k + 1)
        BY <2>1, <2>2, <2>3, MergingOne
    <2> QED
        BY <2>1, <2>3, <2>4 DEF J
<1>4. n \in J
    <2> HIDE DEF J
    <2>1. 0..n \subseteq J
        BY <1>2, <1>3, UpTo
    <2> QED
        BY <2>1
<1> QED
    BY <1>4

-----------------------------------------------------------------------------
(* Stable sorting.                                                         *)

\* L[i] are the places of lesser members than i's.
Lesser(L, n) ==
    /\ L \in [1..n -> SUBSET (1..n)]
    /\ \A i, j \in 1..n : j \in L[i] => i \notin L[j]
    /\ \A i, j, k \in 1..n : k \in L[i] => k \in L[j] \/ j \in L[i]

\* Lesser members and, of equals, the ones at earlier places.
Before(L, n) == [i \in 1..n |-> L[i] \cup {j \in 1..n : j < i /\ i \notin L[j]}]

\* Lesser members first and equal ones as they were: an order of the places.
LEMMA StableOrder ==
    ASSUME NEW n \in Nat, NEW L, Lesser(L, n)
    PROVE  InLine(Before(L, n), n)
<1> DEFINE B == Before(L, n)
<1>1. ASSUME NEW i \in 1..n, NEW j \in 1..n
      PROVE  j \in B[i] <=> j \in L[i] \/ (j < i /\ i \notin L[j])
    BY DEF Before
<1>2. B \in [1..n -> SUBSET (1..n)]
    BY DEF Before, Lesser
<1> HIDE DEF B
<1>3. \A i \in 1..n : i \notin B[i]
    BY <1>1 DEF Lesser
<1>4. ASSUME NEW i \in 1..n, NEW j \in 1..n, j \in B[i], NEW k \in B[j]
      PROVE  k \in B[i]
    <2>1. k \in 1..n
        BY <1>2
    <2>2. (j \in L[i] \/ (j < i /\ i \notin L[j])) /\ (k \in L[j] \/ (k < j /\ j \notin L[k]))
        BY <1>1, <1>4, <2>1
    <2>3. j \in L[i] => k \in L[i]
        BY <1>4, <2>1, <2>2 DEF Lesser
    <2>4. k \in L[j] => k \in L[i]
        BY <1>4, <2>1, <2>2 DEF Lesser
    <2>5. CASE j < i /\ i \notin L[j] /\ k < j /\ j \notin L[k]
        <3>1. k < i /\ i \notin L[k]
            BY <2>1, <2>5 DEF Lesser
        <3> QED
            BY <1>1, <2>1, <3>1
    <2> QED
        BY <1>1, <2>1, <2>2, <2>3, <2>4, <2>5
<1>5. \A i, j \in 1..n : i # j => i \in B[j] \/ j \in B[i]
    BY <1>1 DEF Lesser
<1> QED
    BY <1>2, <1>3, <1>4, <1>5 DEF InLine, B

\* What sorting by Less gives, when L has the places that Less puts before each.
SortedAt(t, s, L, at, n) ==
    /\ t = [k \in 1..n |-> s[at[k]]]
    /\ at \in [1..n -> 1..n]
    /\ \A i \in 1..n : \E k \in 1..n : at[k] = i
    /\ \A k, l \in 1..n : k < l => at[k] # at[l] /\ at[l] \notin L[at[k]]

\* A stable sort by rank gives the members in this order.
LEMMA SortedIs ==
    ASSUME NEW s, NEW n \in Nat, DOMAIN s = 1..n, NEW L, Lesser(L, n)
    PROVE  \E at : SortedAt(Ranked(s, Ranks(s, Before(L, n))), s, L, at, n)
<1> DEFINE B == Before(L, n)
           t == Ranked(s, Ranks(s, B))
<1>1. InLine(B, n)
    BY StableOrder
<1>0. ASSUME NEW i \in 1..n, NEW j \in 1..n
      PROVE  j \in B[i] <=> j \in L[i] \/ (j < i /\ i \notin L[j])
    BY DEF Before
<1> HIDE DEF B
<1>2. PICK at : Places(B, at, n) /\ t = Arranged(s, at, n)
    BY <1>1, RankedIs
<1>3. at \in [1..n -> 1..n] /\ \A i \in 1..n : \E k \in 1..n : at[k] = i
    BY <1>2 DEF Places
<1>4. ASSUME NEW k \in 1..n, NEW l \in 1..n, k < l
      PROVE  at[k] # at[l] /\ at[l] \notin L[at[k]]
    <2>1. at[k] \in B[at[l]] /\ at[k] \in 1..n /\ at[l] \in 1..n
        BY <1>2, <1>3, <1>4 DEF Places
    <2>2. at[k] # at[l]
        BY <1>1, <2>1 DEF InLine
    <2>3. at[k] \in L[at[l]] \/ at[l] \notin L[at[k]]
        BY <1>0, <2>1
    <2> QED
        BY <2>1, <2>2, <2>3 DEF Lesser
<1>5. SortedAt(t, s, L, at, n)
    <2> HIDE DEF t
    <2> QED
        BY <1>2, <1>3, <1>4 DEF SortedAt, Arranged
<1> QED
    BY <1>5 DEF B
=============================================================================
