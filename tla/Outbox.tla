------------------------------- MODULE Outbox -------------------------------
(***************************************************************************)
(* What every notification channel of the system promises: items become    *)
(* due, a teller takes some that no record says were told, tells them, and *)
(* records afterwards what was told.  A record never comes before the      *)
(* telling, so failures and crashes repeat an item and lose none.          *)
(*                                                                         *)
(* Pushes, digests (Notify) and the warnings about failing polls (Service) *)
(* implement it.                                                           *)
(***************************************************************************)
CONSTANTS
    Item,       \* what there is to tell
    Teller      \* who tells it

VARIABLES
    offered,    \* the items that are due
    claimed,    \* those with a committed record of having been told
    told,       \* those that reached the recipient
    hand        \* hand[t]: the items t is about to tell

outboxVars == <<offered, claimed, told, hand>>

Init ==
    /\ offered = {}
    /\ claimed = {}
    /\ told = {}
    /\ hand = [t \in Teller |-> {}]

Offer ==
    /\ \E S \in SUBSET Item : offered' = offered \cup S
    /\ UNCHANGED <<claimed, told, hand>>

\* A teller reads what is due and has no record.
Take(t) ==
    /\ \E S \in SUBSET (offered \ claimed) : hand' = [hand EXCEPT ![t] = S]
    /\ UNCHANGED <<offered, claimed, told>>

\* They reach the recipient, whether or not the teller learns of it.
Tell(t) ==
    /\ told' = told \cup hand[t]
    /\ hand' = [hand EXCEPT ![t] = {}]
    /\ UNCHANGED <<offered, claimed>>

\* The telling failed, or tellers died.
Drop ==
    /\ \E T \in SUBSET Teller : hand' = [t \in Teller |-> IF t \in T THEN {} ELSE hand[t]]
    /\ UNCHANGED <<offered, claimed, told>>

Claim ==
    /\ \E S \in SUBSET told : claimed' = claimed \cup S
    /\ UNCHANGED <<offered, told, hand>>

Next ==
    \/ Offer
    \/ \E t \in Teller : Take(t) \/ Tell(t)
    \/ Drop
    \/ Claim

Spec == Init /\ [][Next]_outboxVars

\* Nothing is recorded that was not told, or told that was not due.
ClaimedWasTold == claimed \subseteq told /\ told \subseteq offered
=============================================================================
