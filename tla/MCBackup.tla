------------------------------ MODULE MCBackup ------------------------------
(***************************************************************************)
(* An instance of the backups of a site for TLC.                           *)
(***************************************************************************)
EXTENDS BackupProps

CONSTANTS w1, w2, r1, runtime

ASSUME ValuesAssumption == BackupAssumption

\* The backups of one month, to one destination.
MonthSpec == Init /\ [][Proceed]_vars /\ Fairness
=============================================================================
