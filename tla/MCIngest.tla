------------------------------- MODULE MCIngest -------------------------------
(* Instances of Ingest for TLC.                                             *)
EXTENDS Ingest, TLC

(* Crashes are all that disturbs: no lost answers, hang-ups and outages.   *)
CrashNext == Next /\ (disturbed' # disturbed => Crash)
CrashSpec == Init /\ [][CrashNext]_vars /\ Fairness
=============================================================================
