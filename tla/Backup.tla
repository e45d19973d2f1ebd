------------------------------- MODULE Backup -------------------------------
(***************************************************************************)
(* The nightly backup, backup_db of scheduler.py: a copy of the database   *)
(* named for the day, and the oldest copies removed afterwards.  A day has *)
(* at most one run, since the job fires once and missed runs coalesce.     *)
(***************************************************************************)
EXTENDS Integers, FiniteSetsExt

CONSTANTS
    Keep,       \* BACKUP_KEEP
    MaxNight    \* bound: the last night

ASSUME BackupAssumption == Keep \in Nat \ {0} /\ MaxNight \in Nat

VARIABLES
    night,      \* the day of the next run
    complete,   \* the days whose file is a whole copy
    partial,    \* the days whose file is what a failed VACUUM INTO left
    made        \* observer: the days that ever had a whole copy

backupVars == <<night, complete, partial, made>>

Files == complete \cup partial

BackupInit == night = 0 /\ complete = {} /\ partial = {} /\ made = {}

Night == night < MaxNight /\ night' = night + 1

\* The files beyond the newest Keep, by name and so by day.
Old(files) == {f \in files : Cardinality({g \in files : g > f}) >= Keep}

\* The copy is whole.  Old files are removed from the oldest on, all of them unless that
\* fails or the process dies.
BackUp ==
    LET old == Old(Files \cup {night})
    IN /\ Night
       /\ made' = made \cup {night}
       /\ \E left \in {S \in SUBSET old : \A f \in S, g \in old : g > f => g \in S} :
            /\ complete' = ((complete \cup {night}) \ old) \cup (left \cap complete)
            /\ partial' = (partial \ old) \cup (left \cap partial)

\* Mutant: old files are removed although the copy failed.
BackUpFailsPruned(leaves) ==
    LET files == Files \cup leaves
    IN /\ Night
       /\ partial' = (partial \cup leaves) \ Old(files)
       /\ complete' = complete \ Old(files)
       /\ UNCHANGED made

\* VACUUM INTO fails, or the process dies in it: it may leave an unfinished file.
\* Nothing is removed.
BackUpFails(leaves) ==
    /\ Night
    /\ partial' = partial \cup leaves
    /\ UNCHANGED <<complete, made>>

\* The process is down, or there is no database yet.
NoBackUp == Night /\ UNCHANGED <<complete, partial, made>>

BackupNext ==
    \/ BackUp
    \/ \E leaves \in {{}, {night}} : BackUpFails(leaves)
    \/ NoBackUp

-----------------------------------------------------------------------------
\* Whatever nights fail, a whole copy is given up only for Keep newer files one of which
\* is whole, so that once there was a copy to restore from there always is one
\* (scheduler.py:44-53).
BackupsKept ==
    \A day \in made :
        \/ day \in complete
        \/ /\ Cardinality({f \in Files : f > day}) >= Keep
           /\ \E copy \in complete : copy > day
=============================================================================
