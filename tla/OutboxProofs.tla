---------------------------- MODULE OutboxProofs ----------------------------
(***************************************************************************)
(* What Outbox promises, for every set of items and tellers.               *)
(***************************************************************************)
EXTENDS Outbox, TLAPS

HandIsOffered == hand \in [Teller -> SUBSET offered]

\* Whatever fails, nothing has a record that was not told, and nothing is told
\* that was not due: a crash may repeat an item and never loses one.
THEOREM RecordsFollowTelling == Spec => []ClaimedWasTold
<1>1. Init => HandIsOffered /\ ClaimedWasTold
    BY DEF Init, HandIsOffered, ClaimedWasTold
<1>2. HandIsOffered /\ ClaimedWasTold /\ [Next]_outboxVars => (HandIsOffered /\ ClaimedWasTold)'
    <2> SUFFICES ASSUME HandIsOffered, ClaimedWasTold, [Next]_outboxVars
                 PROVE  HandIsOffered' /\ ClaimedWasTold'
        OBVIOUS
    <2> USE DEF HandIsOffered, ClaimedWasTold
    <2>1. CASE Offer
        BY <2>1 DEF Offer
    <2>2. ASSUME NEW t \in Teller, Take(t)
          PROVE  HandIsOffered' /\ ClaimedWasTold'
        BY <2>2 DEF Take
    <2>3. ASSUME NEW t \in Teller, Tell(t)
          PROVE  HandIsOffered' /\ ClaimedWasTold'
        BY <2>3 DEF Tell
    <2>4. CASE Drop
        BY <2>4 DEF Drop
    <2>5. CASE Claim
        BY <2>5 DEF Claim
    <2>6. CASE UNCHANGED outboxVars
        BY <2>6 DEF outboxVars
    <2> QED
        BY <2>1, <2>2, <2>3, <2>4, <2>5, <2>6 DEF Next
<1> QED
    BY <1>1, <1>2, PTL DEF Spec
=============================================================================
