------------------------------ MODULE Service ------------------------------
(***************************************************************************)
(* Jobs of build_scheduler (scheduler.py): the polls, followed for one     *)
(* event and its warnings (Sales), and the nightly backup (Backup).  The   *)
(* two share no table and no lock, and no property relates them, so a      *)
(* behaviour follows one of them.                                          *)
(***************************************************************************)
EXTENDS Sales, Backup

VARIABLE job    \* the job that the behaviour follows

vars == <<salesVars, backupVars, job>>

Init == SalesInit /\ BackupInit /\ job \in {"poll", "backup"}

Next ==
    /\ \/ job = "poll" /\ SalesNext /\ UNCHANGED backupVars
       \/ job = "backup" /\ BackupNext /\ UNCHANGED salesVars
    /\ UNCHANGED job

Spec == Init /\ [][Next]_vars

Statuses == {"unknown", "coming_soon", "presale", "on_sale", "sold_out"}

\* The tables and the poll in progress.
TypeOK ==
    /\ clock \in 0..MaxTime /\ item \in Item /\ edits \in 0..MaxEdits /\ asOf \in 0..clock
    /\ event # None => event.status \in Statuses
    /\ poll.pc \in {"idle", "fetch", "report", "check", "warn", "record"}
    /\ poll.failed \subseteq Collector /\ poll.at \in 0..clock
    /\ poll.pc \in {"check", "warn", "record"} => poll.key \in due
    /\ night \in 0..MaxNight /\ Files \subseteq 0..(night - 1) /\ complete \cap partial = {}
=============================================================================
